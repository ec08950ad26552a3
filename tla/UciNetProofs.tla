---------------------------- MODULE UciNetProofs ----------------------------
(* Proofs about the UCI adapter, for every size of ring and chunk, every     *)
(* number of connections, resets and bytes, and a firmware that answers      *)
(* late, or never. The invariant comes in layers: what the interface holds   *)
(* when a call is at each of its stages (BaseInv), whose socket a command    *)
(* in hand is about (SocketInv, CloseInv), and the two accounts of bytes     *)
(* that rest on both (SendInv, StreamInv).                                   *)
EXTENDS UciNet, SequenceTheorems, TLAPS

----------------------------------------------------------------------------
(* The device's operations, field by field.                                 *)

Commands == [op : {"connect", "poll", "send", "close", "dhcp", "null"},
             id : Nat, arg : Nat, from : Nat]

IsDevice(d) ==
    d \in [state : {d.state}, busy : {d.busy}, abort : {d.abort}, error : {d.error},
           buf : {d.buf}, queue : {d.queue}, exec : {d.exec}, reply : {d.reply},
           mine : {d.mine}]

\* The registers agree: CMD_BUSY and ABORT_PENDING are what is queued, the state
\* is busy while a command is queued or running, and nothing is queued twice.
Coherent(d) ==
    /\ IsDevice(d)
    /\ d.busy \in BOOLEAN /\ d.abort \in BOOLEAN /\ d.mine \in BOOLEAN
    /\ d.state \in {"idle", "busy", "valid"}
    /\ d.queue \in {<<>>, <<"command">>, <<"abort">>, <<"command", "abort">>}
    /\ d.busy <=> d.queue \in {<<"command">>, <<"command", "abort">>}
    /\ d.abort <=> d.queue \in {<<"abort">>, <<"command", "abort">>}
    /\ d.state = "busy" <=> (d.busy \/ d.exec # <<>>)
    /\ d.exec # <<>> => ~d.busy /\ d.exec = <<d.exec[1]>> /\ d.exec[1] \in Commands
    /\ d.busy => Parsed(d.buf) \in Commands
    /\ d.error = FALSE

\* Two appends make a pair.
LEMMA AppendTwo ==
    ASSUME NEW S, NEW x \in S, NEW y \in S
    PROVE  Append(<<x>>, y) = <<x, y>>
<1>1. <<x>> \in Seq(S) /\ Len(<<x>>) = 1 /\ <<x>>[1] = x
    OBVIOUS
<1>2. <<x, y>> \in Seq(S) /\ Len(<<x, y>>) = 2 /\ <<x, y>>[1] = x /\ <<x, y>>[2] = y
    OBVIOUS
<1> DEFINE s == <<x>>  t == <<x, y>>
<1> HIDE DEF s, t
<1>3. /\ Append(s, y) \in Seq(S) /\ Len(Append(s, y)) = 2
      /\ Append(s, y)[1] = x /\ Append(s, y)[2] = y
  <2>1. s \in Seq(S) /\ Len(s) = 1 /\ s[1] = x
    BY <1>1 DEF s
  <2>2. Append(s, y) \in Seq(S)
    BY <2>1, AppendProperties
  <2>3. Len(Append(s, y)) = Len(s) + 1
    BY <2>1, AppendProperties, ZenonT(40)
  <2>4. Append(s, y)[1] = s[1]
    BY <2>1
  <2>5. Append(s, y)[Len(s)+1] = y
    BY <2>1, AppendProperties, ZenonT(40)
  <2> QED BY <2>1, <2>2, <2>3, <2>4, <2>5
<1>4. t \in Seq(S) /\ Len(t) = 2 /\ t[1] = x /\ t[2] = y
    BY <1>2 DEF t
<1>5. Append(s, y) = t
  <2>1. \A i \in 1..2 : Append(s, y)[i] = t[i]
    BY <1>3, <1>4
  <2> HIDE DEF s, t
  <2>2. \A u, v \in Seq(S) : Len(u) = Len(v) /\ (\A i \in 1..Len(u) : u[i] = v[i]) => u = v
    BY SeqEqual
  <2> QED BY <1>3, <1>4, <2>1, <2>2
<1> QED BY <1>5 DEF s, t

\* What the queue of commands and aborts becomes.
LEMMA QueueFacts ==
    /\ Append(<<>>, "command") = <<"command">>
    /\ Append(<<>>, "abort") = <<"abort">>
    /\ Append(<<"command">>, "abort") = <<"command", "abort">>
    /\ Tail(<<"command">>) = <<>> /\ Tail(<<"abort">>) = <<>>
    /\ Tail(<<"command", "abort">>) = <<"abort">>
    /\ Head(<<"command">>) = "command" /\ Head(<<"abort">>) = "abort"
    /\ Head(<<"command", "abort">>) = "command"
    /\ <<"command">> # <<>> /\ <<"abort">> # <<>> /\ <<"command", "abort">> # <<>>
    /\ <<"command">> # <<"abort">> /\ <<"command">> # <<"command", "abort">>
    /\ <<"abort">> # <<"command", "abort">>
<1>1. Append(<<>>, "command") = <<"command">> /\ Append(<<>>, "abort") = <<"abort">>
    OBVIOUS
<1>2. Append(<<"command">>, "abort") = <<"command", "abort">>
  <2>1. "command" \in {"command", "abort"} /\ "abort" \in {"command", "abort"}
    OBVIOUS
  <2> QED BY <2>1, AppendTwo, Zenon
<1>3. Tail(<<"command">>) = <<>> /\ Tail(<<"abort">>) = <<>>
    OBVIOUS
<1>4. Tail(<<"command", "abort">>) = <<"abort">>
    OBVIOUS
<1>5. /\ Head(<<"command">>) = "command" /\ Head(<<"abort">>) = "abort"
      /\ Head(<<"command", "abort">>) = "command"
    OBVIOUS
<1>6. /\ <<"command">> # <<>> /\ <<"abort">> # <<>> /\ <<"command", "abort">> # <<>>
      /\ <<"command">> # <<"abort">> /\ <<"command">> # <<"command", "abort">>
      /\ <<"abort">> # <<"command", "abort">>
    OBVIOUS
<1> QED BY <1>1, <1>2, <1>3, <1>4, <1>5, <1>6

\* Writing a part of a command moves nothing but the buffer.
LEMMA WriteFields ==
    ASSUME NEW d, Coherent(d), NEW c, NEW part, ~d.busy
    PROVE  LET e == Write(d, c, part)
           IN  /\ Coherent(e)
               /\ e.buf = Append(d.buf, [cmd |-> c, part |-> part])
               /\ e.state = d.state /\ e.busy = d.busy /\ e.abort = d.abort /\ e.queue = d.queue
               /\ e.exec = d.exec /\ e.reply = d.reply /\ e.mine = d.mine
<1> DEFINE e == Write(d, c, part)
<1>1. /\ IsDevice(e) /\ e.buf = Append(d.buf, [cmd |-> c, part |-> part])
      /\ e.state = d.state /\ e.busy = d.busy /\ e.abort = d.abort /\ e.queue = d.queue
      /\ e.exec = d.exec /\ e.reply = d.reply /\ e.mine = d.mine /\ e.error = d.error
    BY DEF Coherent, IsDevice, Write
<1> HIDE DEF e
<1>2. Coherent(e)
    BY <1>1 DEF Coherent
<1> QED BY <1>1, <1>2 DEF e

\* A push on an idle interface: the command is queued and is this call's.
LEMMA PushFields ==
    ASSUME NEW d, Coherent(d), FullyIdle(d), Parsed(d.buf) \in Commands
    PROVE  LET e == PushCommand(ClearError(d))
           IN  /\ Coherent(e)
               /\ e.state = "busy" /\ e.busy /\ ~e.abort /\ e.mine /\ e.exec = <<>>
               /\ e.buf = d.buf /\ e.reply = d.reply
<1> DEFINE e == PushCommand(ClearError(d))
<1>1. d.queue = <<>> /\ d.exec = <<>>
    BY DEF Coherent, FullyIdle
<1>2. ClearError(d) = d
    BY DEF ClearError, Coherent, IsDevice
<1>3. /\ IsDevice(e) /\ e.state = "busy" /\ e.busy = TRUE /\ e.mine = TRUE
      /\ e.queue = <<"command">> /\ e.buf = d.buf
      /\ e.abort = d.abort /\ e.exec = d.exec /\ e.reply = d.reply /\ e.error = d.error
    BY <1>1, <1>2, QueueFacts DEF Coherent, IsDevice, PushCommand, FullyIdle
<1> HIDE DEF e
<1>4. Coherent(e)
    BY <1>1, <1>3, QueueFacts DEF Coherent, FullyIdle
<1> QED BY <1>1, <1>3, <1>4 DEF e, FullyIdle, Coherent

\* Accepting a reply leaves the interface idle.
LEMMA AcceptFields ==
    ASSUME NEW d, Coherent(d), d.state = "valid"
    PROVE  LET e == DataAccept(ClearError(d))
           IN  /\ Coherent(e)
               /\ e.state = "idle" /\ ~e.mine /\ e.reply = NoReply
               /\ e.busy = d.busy /\ e.abort = d.abort /\ e.queue = d.queue
               /\ e.exec = <<>> /\ e.buf = d.buf
<1> DEFINE e == DataAccept(ClearError(d))
<1>1. d.exec = <<>> /\ ~d.busy
    BY DEF Coherent
<1>2. /\ IsDevice(e) /\ e.state = "idle" /\ e.mine = FALSE /\ e.reply = NoReply
      /\ e.busy = d.busy /\ e.abort = d.abort /\ e.queue = d.queue
      /\ e.exec = d.exec /\ e.buf = d.buf /\ e.error = FALSE
    BY DEF Coherent, IsDevice, DataAccept, ClearError
<1> HIDE DEF e
<1>3. Coherent(e)
    BY <1>1, <1>2 DEF Coherent
<1> QED BY <1>1, <1>2, <1>3 DEF e

\* Giving up on a command changes no register.
LEMMA DisownFields ==
    ASSUME NEW d, Coherent(d)
    PROVE  LET e == Disown(d)
           IN  /\ Coherent(e) /\ ~e.mine
               /\ e.state = d.state /\ e.busy = d.busy /\ e.abort = d.abort /\ e.queue = d.queue
               /\ e.exec = d.exec /\ e.reply = d.reply /\ e.buf = d.buf
               /\ ClearError(d) = d
<1> DEFINE e == Disown(d)
<1>1. /\ IsDevice(e) /\ e.mine = FALSE
      /\ e.state = d.state /\ e.busy = d.busy /\ e.abort = d.abort /\ e.queue = d.queue
      /\ e.exec = d.exec /\ e.reply = d.reply /\ e.buf = d.buf /\ e.error = d.error
    BY DEF Coherent, IsDevice, Disown
<1>2. ClearError(d) = d
    BY DEF ClearError, Coherent, IsDevice
<1> HIDE DEF e
<1>3. Coherent(e)
    BY <1>1 DEF Coherent
<1> QED BY <1>1, <1>2, <1>3 DEF e

\* An abort is queued behind the command, once.
LEMMA AbortFields ==
    ASSUME NEW d, Coherent(d)
    PROVE  LET e == Abort(d)
           IN  /\ Coherent(e) /\ e.abort
               /\ e.state = d.state /\ e.busy = d.busy /\ e.mine = d.mine
               /\ e.exec = d.exec /\ e.reply = d.reply /\ e.buf = d.buf
<1> DEFINE e == Abort(d)
<1>1. CASE d.abort
    BY <1>1 DEF Abort
<1>2. CASE ~d.abort
  <2>1. /\ IsDevice(e) /\ e.abort = TRUE /\ e.queue = Append(d.queue, "abort")
        /\ e.state = d.state /\ e.busy = d.busy /\ e.mine = d.mine
        /\ e.exec = d.exec /\ e.reply = d.reply /\ e.buf = d.buf /\ e.error = d.error
    BY <1>2 DEF Coherent, IsDevice, Abort
  <2>2. d.queue = (IF d.busy THEN <<"command">> ELSE <<>>)
    BY <1>2, QueueFacts DEF Coherent
  <2> HIDE DEF e
  <2>3. e.queue = (IF d.busy THEN <<"command", "abort">> ELSE <<"abort">>)
    BY <2>1, <2>2, QueueFacts
  <2>4. Coherent(e)
    BY <2>1, <2>3, QueueFacts DEF Coherent
  <2> QED BY <2>1, <2>4 DEF e
<1> QED BY <1>1, <1>2

\* The task takes the queued command and rewinds the buffer.
LEMMA TakeFields ==
    ASSUME NEW d, Coherent(d), TaskFree(d), Head(d.queue) # "abort"
    PROVE  LET e == TakeCommand(d)
           IN  /\ Coherent(e) /\ d.busy
               /\ e.state = "busy" /\ d.state = "busy" /\ ~e.busy /\ e.abort = d.abort
               /\ e.mine = d.mine
               /\ e.exec = <<Parsed(d.buf)>> /\ e.reply = d.reply /\ e.buf = <<>>
<1> DEFINE e == TakeCommand(d)
<1>1. /\ IsDevice(e) /\ e.abort = d.abort /\ e.queue = Tail(d.queue)
      /\ e.state = d.state /\ e.busy = FALSE /\ e.mine = d.mine
      /\ e.exec = <<Parsed(d.buf)>> /\ e.reply = d.reply /\ e.buf = <<>> /\ e.error = d.error
    BY DEF Coherent, IsDevice, TakeCommand
<1>2. d.queue = (IF d.abort THEN <<"command", "abort">> ELSE <<"command">>)
    BY QueueFacts DEF Coherent, TaskFree
<1>3. d.busy /\ d.state = "busy"
    BY <1>2, QueueFacts DEF Coherent
<1>4. <<Parsed(d.buf)>> # <<>> /\ <<Parsed(d.buf)>>[1] = Parsed(d.buf)
    OBVIOUS
<1> HIDE DEF e
<1>5. e.queue = (IF d.abort THEN <<"abort">> ELSE <<>>)
    BY <1>1, <1>2, QueueFacts
<1>6. Coherent(e)
    BY <1>1, <1>3, <1>4, <1>5, QueueFacts DEF Coherent
<1> QED BY <1>1, <1>3, <1>6 DEF e

\* The task stages the reply to the command it ran.
LEMMA ValidateFields ==
    ASSUME NEW d, Coherent(d), d.exec # <<>>, NEW kind, NEW val
    PROVE  LET e == Validate(d, kind, val)
           IN  /\ Coherent(e)
               /\ e.state = "valid" /\ ~e.busy /\ e.abort = d.abort /\ e.mine = d.mine
               /\ e.exec = <<>> /\ e.buf = d.buf /\ e.queue = d.queue
               /\ e.reply = [op |-> d.exec[1].op, kind |-> kind, val |-> val]
<1> DEFINE e == Validate(d, kind, val)
<1>1. /\ IsDevice(e) /\ e.abort = d.abort /\ e.queue = d.queue
      /\ e.state = "valid" /\ e.busy = d.busy /\ e.mine = d.mine
      /\ e.exec = <<>> /\ e.buf = d.buf /\ e.error = d.error
      /\ e.reply = [op |-> d.exec[1].op, kind |-> kind, val |-> val]
    BY DEF Coherent, IsDevice, Validate
<1> HIDE DEF e
<1>2. Coherent(e) /\ ~e.busy
    BY <1>1 DEF Coherent
<1> QED BY <1>1, <1>2 DEF e

\* The task serves an abort: nothing is left.
LEMMA ResetFields ==
    ASSUME NEW d, Coherent(d), TaskFree(d), Head(d.queue) = "abort"
    PROVE  LET e == Reset(d)
           IN  /\ Coherent(e) /\ d.abort
               /\ e.state = "idle" /\ ~e.busy /\ ~e.abort /\ e.mine = d.mine
               /\ e.exec = <<>> /\ e.buf = <<>> /\ e.queue = <<>>
<1> DEFINE e == Reset(d)
<1>1. /\ IsDevice(e) /\ e.abort = FALSE /\ e.queue = Tail(d.queue)
      /\ e.state = "idle" /\ e.busy = FALSE /\ e.mine = d.mine
      /\ e.exec = d.exec /\ e.buf = <<>> /\ e.error = d.error
    BY DEF Coherent, IsDevice, Reset
<1>2. d.queue = <<"abort">> /\ d.exec = <<>>
    BY QueueFacts DEF Coherent, TaskFree
<1>3. d.abort
    BY <1>2 DEF Coherent
<1> HIDE DEF e
<1>4. e.queue = <<>> /\ e.exec = <<>>
    BY <1>1, <1>2, QueueFacts
<1>5. Coherent(e)
    BY <1>1, <1>4, QueueFacts DEF Coherent
<1> QED BY <1>1, <1>3, <1>4, <1>5 DEF e

----------------------------------------------------------------------------
(* The base invariant: types, which call is where, and what the interface   *)
(* holds then.                                                              *)

Errors == {"ok", "timeout", "read", "connect", "no_socket", "send",
           "short_write", "command", "no_ip"}
Writing == {"head", "tail", "push"}
Owning == {"reply", "read"}

\* The types the adapter's steps rely on.
TypeInv ==
    /\ made \in Nat /\ got \in Nat /\ fd \in [Ids -> Nat]
    /\ call \in {"none", "init", "dhcp", "connect", "send", "poll", "close"} /\ carry \in {0, 1}
    /\ pc \in {"idle", "wait", "abort", "abort_wait"} \cup Writing \cup Owning
    /\ uci_socket_id \in Ids \cup {0}
    /\ arg \in [uci_req_len : Nat, uci_send_rem : Nat, uci_send_ptr : Nat, iface_idx : Nat,
                cl_err_in : Errors]
    /\ net_last_error \in Errors
    /\ session \in {"none", "open", "broken"}
    /\ asked \in Nat
    /\ head \in 0..RingSize-1 /\ tail \in 0..RingSize-1

\* Which call can be where, and when the program may be in a session.
CallInv ==
    /\ call = "none" => pc = "idle" /\ ~net_initialized /\ session = "none"
    /\ call \in {"init", "dhcp"} => session = "none"
    /\ call = "init" => pc \in {"idle", "abort", "abort_wait"}
    /\ pc \in {"abort", "abort_wait"} =>
          \/ call = "init" /\ why = "init"
          \/ call \in {"connect", "send", "close"} /\ why = "bail"
          \/ call = "close" /\ why = "retry"
    /\ pc # "idle" =>
          /\ call = "connect" => session = "none"
          /\ call = "send" => session = "open"
          /\ call = "poll" => session = "open" /\ net_tcp_state = "connected"
          /\ call = "close" => session # "none"
    /\ net_tcp_state = "connected" => session # "none"

\* Nothing in the interface, nothing on its way.
Clean(d) == d.state = "idle" /\ d.queue = <<>> /\ d.exec = <<>> /\ d.buf = <<>>

Part(n) == [cmd |-> Command, part |-> n]

\* Where the call is, the interface is.
TransactInv ==
    /\ dev.mine <=> pc \in Owning
    /\ pc \in Writing => FullyIdle(dev)
    /\ pc = "head" => dev.buf = <<>>
    /\ pc = "tail" => dev.buf = <<Part(1)>>
    /\ pc = "push" => dev.buf = <<Part(1), Part(2)>>
    /\ dev.mine =>
          /\ ~dev.abort
          /\ dev.state # "idle"
          /\ dev.busy => Parsed(dev.buf) = Command
          /\ dev.exec # <<>> => dev.exec[1] = Command
          /\ dev.state = "valid" => dev.reply.op = call
    /\ pc = "read" => dev.state = "valid"
    /\ pc = "abort_wait" => dev.abort \/ Clean(dev)
    /\ (session = "open" /\ net_tcp_state = "connected" /\ pc = "idle") => Clean(dev)
    /\ (pc = "wait" /\ call = "poll") => Clean(dev)
    /\ dev.buf # <<>> => \/ dev.busy \/ dev.abort \/ pc \in {"tail", "push"}
                         \/ call = "none" \/ (call = "init" /\ pc = "abort")
    /\ (pc = "idle" /\ (call \in {"connect", "close"}
                        \/ (call \in {"init", "dhcp", "send"} /\ carry = 0)))
          => Clean(dev) \/ dev.abort

\* What a reply to this call can hold.
ReplyInv ==
    dev.mine /\ dev.state = "valid" =>
        /\ call = "connect" =>
              \/ dev.reply.kind = "empty"
              \/ dev.reply.kind = "socket" /\ dev.reply.val[1] \in Ids
        /\ call = "send" =>
              \/ dev.reply.kind = "failed"
              \/ dev.reply.kind = "count" /\ dev.reply.val[1] \in 0..ChunkLen
        /\ call = "poll" =>
              \/ dev.reply.kind \in {"dead", "idle", "eof"}
              \/ dev.reply.kind = "data" /\ dev.reply.val \in Seq(Nat \X Nat)

BaseInv == Coherent(dev) /\ TypeInv /\ CallInv /\ TransactInv /\ ReplyInv

----------------------------------------------------------------------------
\* A remainder is an index of the ring.
LEMMA ModType ==
    ASSUME NEW a \in Nat
    PROVE  a % RingSize \in 0..RingSize-1
BY Sizes

\* The room is a number.
LEMMA RoomType ==
    ASSUME head \in 0..RingSize-1, tail \in 0..RingSize-1
    PROVE  Room \in Nat
<1>1. head + RingSize - tail - 1 \in Nat
    BY Sizes
<1> QED BY <1>1, ModType DEF Room

\* The least of two numbers is at most either.
LEMMA LeastType ==
    ASSUME NEW a \in Nat, NEW b \in Nat
    PROVE  Least(a, b) \in Nat /\ Least(a, b) <= a /\ Least(a, b) <= b
BY DEF Least

\* Without a command, without an abort and with nothing written, the interface is clean.
LEMMA IdleClean ==
    ASSUME NEW d, Coherent(d), FullyIdle(d), d.buf = <<>>
    PROVE  Clean(d)
BY DEF Coherent, FullyIdle, Clean

\* A clean interface passes uci_wait_idle.
LEMMA CleanIdle ==
    ASSUME NEW d, Coherent(d), Clean(d)
    PROVE  FullyIdle(d) /\ d.queue = <<>> /\ d.exec = <<>> /\ d.buf = <<>> /\ ~d.abort /\ ~d.busy
BY QueueFacts DEF Coherent, FullyIdle, Clean

\* The power-on state.
LEMMA BaseInitial == Init => BaseInv
<1> SUFFICES ASSUME Init PROVE BaseInv
    OBVIOUS
<1>1. Coherent(dev) /\ dev.mine = FALSE /\ Clean(dev)
    BY QueueFacts DEF Init, Quiet, Coherent, IsDevice, Clean
<1>2. TypeInv
    BY Sizes DEF Init, TypeInv, NoArg, Errors
<1>3. CallInv /\ TransactInv /\ ReplyInv
    BY <1>1 DEF Init, CallInv, TransactInv, ReplyInv, Clean, Writing, Owning
<1> QED BY <1>1, <1>2, <1>3 DEF BaseInv

\* The program enters a call.
LEMMA EnterBase ==
    ASSUME BaseInv,
           NetInit \/ NetDhcpAcquire \/ NetTcpConnect \/ NetPoll \/ NetTcpClose
             \/ (\E n \in 1..MaxSend : NetTcpSend(n))
    PROVE  BaseInv'
<1> USE DEF BaseInv
<1>1. pc = "idle" /\ dev' = dev /\ UNCHANGED <<fwVars, progVars>> /\ carry' = 0
    BY DEF NetInit, NetDhcpAcquire, NetTcpConnect, NetPoll, NetTcpClose, NetTcpSend, Enter
<1>2. ~dev.mine
    BY <1>1 DEF TransactInv, Owning
<1>3. CASE NetInit
  <2>1. TypeInv'
    BY <1>1, <1>3 DEF NetInit, Enter, TypeInv, fwVars, progVars, tcpVars, ringVars, histVars,
       NoArg, Errors
  <2>2. CallInv'
    BY <1>1, <1>3 DEF NetInit, Enter, BetweenFetches, CallInv, fwVars, progVars, tcpVars,
       ringVars, histVars
  <2>3. TransactInv' /\ ReplyInv'
    BY <1>1, <1>2, <1>3 DEF NetInit, Enter, TransactInv, ReplyInv, Writing, Owning, FullyIdle
  <2> QED BY <1>1, <2>1, <2>2, <2>3
<1>4. CASE NetDhcpAcquire
  <2>1. TypeInv'
    BY <1>1, <1>4 DEF NetDhcpAcquire, Enter, TypeInv, fwVars, progVars, tcpVars, ringVars,
       histVars, NoArg, Errors
  <2>2. CallInv'
    BY <1>1, <1>4 DEF NetDhcpAcquire, Enter, CallInv, fwVars, progVars, tcpVars, ringVars, histVars
  <2>3. TransactInv' /\ ReplyInv'
    BY <1>1, <1>2, <1>4 DEF NetDhcpAcquire, Enter, TransactInv, ReplyInv, Writing, Owning, FullyIdle
  <2> QED BY <1>1, <2>1, <2>2, <2>3
<1>5. CASE NetTcpConnect
  <2>1. TypeInv'
    BY <1>1, <1>5, Sizes DEF NetTcpConnect, Enter, TypeInv, fwVars, progVars, NoArg, Errors
  <2>2. CallInv'
    BY <1>1, <1>5 DEF NetTcpConnect, Enter, BetweenFetches, CallInv, fwVars, progVars
  <2>3. TransactInv' /\ ReplyInv'
    BY <1>1, <1>2, <1>5 DEF NetTcpConnect, Enter, CallInv, TransactInv, ReplyInv, Writing, Owning,
       FullyIdle
  <2> QED BY <1>1, <2>1, <2>2, <2>3
<1>6. CASE NetPoll
  <2>1. Least(Room, ReadChunk) \in Nat
    BY Sizes, RoomType, LeastType DEF TypeInv
  <2>2. TypeInv'
    BY <1>1, <1>6, <2>1 DEF NetPoll, Enter, TypeInv, fwVars, progVars, tcpVars, ringVars,
       histVars, NoArg, Errors
  <2>3. session = "open" /\ Clean(dev)
    BY <1>1, <1>6 DEF NetPoll, CallInv, TransactInv, TypeInv
  <2>4. CallInv'
    BY <1>1, <1>6, <2>3 DEF NetPoll, Enter, CallInv, fwVars, progVars, tcpVars, ringVars, histVars
  <2>5. TransactInv' /\ ReplyInv'
    BY <1>1, <1>2, <1>6, <2>3 DEF NetPoll, Enter, TransactInv, ReplyInv, Writing, Owning,
       FullyIdle, Clean
  <2> QED BY <1>1, <2>2, <2>4, <2>5
<1>7. CASE NetTcpClose
  <2>1. TypeInv'
    BY <1>1, <1>7 DEF NetTcpClose, Enter, TypeInv, fwVars, progVars, tcpVars, ringVars, histVars,
       NoArg, Errors
  <2>2. CallInv'
    BY <1>1, <1>7 DEF NetTcpClose, Enter, CallInv, fwVars, progVars, tcpVars, ringVars, histVars
  <2>3. TransactInv' /\ ReplyInv'
    BY <1>1, <1>2, <1>7 DEF NetTcpClose, Enter, CallInv, TransactInv, ReplyInv, Writing, Owning,
       FullyIdle
  <2> QED BY <1>1, <2>1, <2>2, <2>3
<1>8. ASSUME NEW n \in 1..MaxSend, NetTcpSend(n) PROVE BaseInv'
  <2>1. n \in Nat
    BY Sizes
  <2>1a. arg' \in [uci_req_len : Nat, uci_send_rem : Nat, uci_send_ptr : Nat, iface_idx : Nat,
                   cl_err_in : Errors]
    BY <1>8, <2>1 DEF NetTcpSend, Enter, TypeInv, NoArg, Errors
  <2>1b. asked' \in Nat
    <3>1. asked' = asked + n
      BY <1>8 DEF NetTcpSend
    <3>2. asked \in Nat
      BY DEF TypeInv
    <3> QED BY <2>1, <3>1, <3>2
  <2>2. TypeInv'
    BY <1>1, <1>8, <2>1a, <2>1b DEF NetTcpSend, Enter, TypeInv, fwVars, progVars, tcpVars, ringVars
  <2>3. CallInv'
    BY <1>1, <1>8 DEF NetTcpSend, Enter, CallInv, fwVars, progVars, tcpVars, ringVars
  <2>4. TransactInv' /\ ReplyInv'
    BY <1>1, <1>2, <1>8 DEF NetTcpSend, Enter, CallInv, TransactInv, ReplyInv, Writing, Owning,
       FullyIdle
  <2> QED BY <1>1, <2>2, <2>3, <2>4
<1> QED BY <1>3, <1>4, <1>5, <1>6, <1>7, <1>8

\* net_recv_byte, and a step that changes nothing.
LEMMA QuietBase ==
    ASSUME BaseInv, NetRecvByte \/ UNCHANGED vars
    PROVE  BaseInv'
<1>1. /\ UNCHANGED <<dev, fd, made, got, call, pc, why, carry, net_tcp_state, net_last_error,
                     uci_socket_id, tail, arg, session, net_initialized, asked>>
      /\ head' \in {head, (head + 1) % RingSize}
    BY DEF NetRecvByte, vars, fwVars, tcpVars, ringVars, callVars, progVars, histVars
<1>2. head' \in 0..RingSize-1
    BY <1>1, ModType, Sizes DEF BaseInv, TypeInv
<1> QED BY <1>1, <1>2 DEF BaseInv, TypeInv, CallInv, TransactInv, ReplyInv, Part, Command, ChunkLen

----------------------------------------------------------------------------
(* The stages of a transaction keep the base invariant.                     *)

\* The command a call writes.
LEMMA CommandType ==
    ASSUME TypeInv, call \in {"dhcp", "connect", "send", "poll", "close"}
    PROVE  Command \in Commands /\ Command.op = call
<1>1. uci_socket_id \in Nat
    BY Sizes DEF TypeInv
<1>2. ChunkLen \in Nat /\ arg.uci_req_len \in Nat /\ arg.iface_idx \in Nat
      /\ arg.uci_send_ptr \in Nat
    BY Sizes, LeastType DEF TypeInv, ChunkLen
<1> QED BY <1>1, <1>2 DEF Command, Commands

\* Both parts written, the buffer holds the command.
LEMMA WholeParsed ==
    ASSUME NEW c
    PROVE  Parsed(<<[cmd |-> c, part |-> 1], [cmd |-> c, part |-> 2]>>) = c
<1> DEFINE p == [cmd |-> c, part |-> 1]
           q == [cmd |-> c, part |-> 2]
<1>1. p.part = 1 /\ q = [p EXCEPT !.part = 2] /\ p.cmd = c
    OBVIOUS
<1> HIDE DEF p, q
<1>2. Len(<<p, q>>) = 2 /\ <<p, q>>[1] = p /\ <<p, q>>[2] = q
    OBVIOUS
<1>3. Parsed(<<p, q>>) = c
    BY <1>1, <1>2 DEF Parsed
<1> QED BY <1>3 DEF p, q

\* A wait that passes or expires.
LEMMA EntryBase ==
    ASSUME BaseInv, EntryPasses \/ EntryExpires
    PROVE  BaseInv'
<1> USE DEF BaseInv
<1>1. /\ pc = "wait" /\ dev' = dev
      /\ UNCHANGED <<fd, made, got, call, uci_socket_id, arg, asked, head, tail>>
    BY DEF EntryPasses, EntryExpires, GoOn, Return, Bail, fwVars, tcpVars, ringVars, histVars
<1>2. ~dev.mine /\ call \in {"dhcp", "connect", "send", "poll", "close"}
    BY <1>1 DEF TransactInv, CallInv, TypeInv, Owning
<1>3. CASE EntryPasses
  <2>1. UNCHANGED <<why, carry, net_tcp_state, net_last_error, session, net_initialized>>
        /\ pc' = "head"
    BY <1>3 DEF EntryPasses, GoOn, tcpVars, progVars
  <2>2. FullyIdle(dev)
    BY <1>1, <1>3, CleanIdle DEF EntryPasses, EntryOpen, TransactInv
  <2>3. dev.buf = <<>>
    BY <1>1, <1>2, <2>2 DEF TransactInv, FullyIdle
  <2>4. TypeInv' /\ CallInv'
    BY <1>1, <2>1 DEF TypeInv, CallInv, Writing
  <2>5. TransactInv' /\ ReplyInv'
    BY <1>1, <1>2, <2>1, <2>2, <2>3 DEF TransactInv, ReplyInv, Writing, Owning
  <2> QED BY <1>1, <2>4, <2>5
<1>4. CASE EntryExpires
  <2>1. call # "poll"
    BY <1>1, <1>4, CleanIdle DEF EntryExpires, EntryOpen, Expired, TransactInv, NotBusy
  <2>2. CASE call \in {"connect", "close"}
    <3>1. /\ pc' = "abort" /\ (call = "connect" => why' = "bail")
          /\ (call = "close" => why' = "retry")
          /\ UNCHANGED <<carry, session, net_initialized>> /\ net_last_error' = "timeout"
          /\ net_tcp_state' \in {"connect_fail", net_tcp_state}
      BY <1>4, <2>2 DEF EntryExpires, Bail, progVars
    <3>2. TypeInv' /\ CallInv'
      BY <1>1, <2>2, <3>1 DEF TypeInv, CallInv, Errors
    <3>3. TransactInv' /\ ReplyInv'
      BY <1>1, <1>2, <2>2, <3>1 DEF TransactInv, ReplyInv, Writing, Owning
    <3> QED BY <1>1, <3>2, <3>3
  <2>3. CASE call \in {"dhcp", "send"}
    <3>1. /\ pc' = "idle" /\ carry' = 1 /\ net_last_error' = "timeout"
          /\ net_tcp_state' = net_tcp_state
          /\ session' = (IF call = "send" THEN "broken" ELSE session)
      BY <1>4, <2>3 DEF EntryExpires, Return
    <3>2. TypeInv' /\ CallInv'
      BY <1>1, <2>3, <3>1 DEF TypeInv, CallInv, Errors
    <3>3. TransactInv' /\ ReplyInv'
      BY <1>1, <1>2, <2>3, <3>1, <3>2 DEF TransactInv, CallInv, ReplyInv, Writing, Owning
    <3> QED BY <1>1, <3>2, <3>3
  <2> QED BY <1>2, <2>1, <2>2, <2>3
<1> QED BY <1>3, <1>4

\* Writing a part of the command and pushing it.
LEMMA WriteBase ==
    ASSUME BaseInv, NEW part \in 1..2, WriteCommand(part)
    PROVE  BaseInv'
<1> USE DEF BaseInv
<1>1. /\ pc = (IF part = 1 THEN "head" ELSE "tail") /\ pc' = (IF part = 1 THEN "tail" ELSE "push")
      /\ dev' = Write(dev, Command, part)
      /\ UNCHANGED <<fd, made, got, call, uci_socket_id, arg, asked, head, tail, why, carry,
                     net_tcp_state, net_last_error, session, net_initialized>>
    BY DEF WriteCommand, GoOn, fwVars, tcpVars, ringVars, histVars, progVars
<1>2. FullyIdle(dev) /\ ~dev.mine
    BY <1>1 DEF TransactInv, Writing, Owning
<1>3. /\ Coherent(dev') /\ dev'.buf = Append(dev.buf, [cmd |-> Command, part |-> part])
      /\ dev'.state = dev.state /\ dev'.busy = dev.busy /\ dev'.abort = dev.abort
      /\ dev'.queue = dev.queue /\ dev'.exec = dev.exec /\ dev'.mine = dev.mine
    BY <1>1, <1>2, WriteFields DEF FullyIdle
<1>4. Command' = Command /\ ChunkLen' = ChunkLen
    BY <1>1 DEF Command, ChunkLen
<1>5. CASE part = 1
  <2>1. dev'.buf = <<Part(1)>> /\ Part(1)' = Part(1)
    <3>1. dev'.buf = Append(<<>>, Part(1))
      BY <1>1, <1>3, <1>5 DEF TransactInv, Part
    <3>2. \A x : Append(<<>>, x) = <<x>>
      OBVIOUS
    <3>3. Part(1)' = Part(1)
      BY <1>4 DEF Part
    <3> QED BY <3>1, <3>2, <3>3
  <2>2. TypeInv' /\ CallInv'
    BY <1>1, <1>5 DEF TypeInv, CallInv, Writing
  <2>3. TransactInv' /\ ReplyInv'
    BY <1>1, <1>2, <1>3, <1>5, <2>1 DEF TransactInv, ReplyInv, Writing, Owning, FullyIdle
  <2> QED BY <1>3, <2>2, <2>3
<1>6. CASE part = 2
  <2>1. dev'.buf = <<Part(1), Part(2)>>
    <3>1. dev'.buf = Append(<<Part(1)>>, Part(2))
      BY <1>1, <1>3, <1>6, SMTT(30) DEF TransactInv, Part
    <3>2. Part(1) \in {Part(1), Part(2)} /\ Part(2) \in {Part(1), Part(2)}
      OBVIOUS
    <3> QED BY <3>1, <3>2, AppendTwo, Zenon
  <2>2. Part(1)' = Part(1) /\ Part(2)' = Part(2)
    BY <1>4 DEF Part
  <2>3. TypeInv' /\ CallInv'
    BY <1>1, <1>6 DEF TypeInv, CallInv, Writing
  <2>4. pc' = "push" /\ dev'.buf = <<Part(1)', Part(2)'>>
    BY <1>1, <1>6, <2>1, <2>2
  <2>5. TransactInv'
    BY <1>1, <1>2, <1>3, <2>4 DEF TransactInv, Writing, Owning, FullyIdle
  <2>6. ReplyInv'
    BY <1>2, <1>3 DEF ReplyInv
  <2> QED BY <1>3, <2>3, <2>5, <2>6
<1> QED BY <1>5, <1>6

\* uci_push_wait on the interface the wait left idle.
LEMMA PushBase ==
    ASSUME BaseInv, UciPushWait
    PROVE  BaseInv'
<1> USE DEF BaseInv
<1>1. /\ pc = "push" /\ pc' = "reply" /\ dev' = PushCommand(ClearError(dev))
      /\ UNCHANGED <<fd, made, got, call, uci_socket_id, arg, asked, head, tail, why, carry,
                     net_tcp_state, net_last_error, session, net_initialized>>
    BY DEF UciPushWait, GoOn, fwVars, tcpVars, ringVars, histVars, progVars
<1>2. FullyIdle(dev) /\ dev.buf = <<Part(1), Part(2)>>
    BY <1>1 DEF TransactInv, Writing
<1>3. Parsed(dev.buf) = Command
    BY <1>2, WholeParsed DEF Part
<1>4. Command \in Commands
    BY <1>1, CommandType DEF CallInv, TypeInv
<1>5. /\ Coherent(dev') /\ dev'.state = "busy" /\ dev'.busy /\ ~dev'.abort /\ dev'.mine
      /\ dev'.exec = <<>> /\ dev'.buf = dev.buf
    BY <1>1, <1>2, <1>3, <1>4, PushFields
<1>6. Command' = Command
    BY <1>1 DEF Command, ChunkLen
<1>7. TypeInv' /\ CallInv'
    BY <1>1 DEF TypeInv, CallInv, Owning
<1>8. TransactInv' /\ ReplyInv'
    BY <1>1, <1>3, <1>5, <1>6 DEF TransactInv, ReplyInv, Writing, Owning
<1> QED BY <1>5, <1>7, <1>8

\* The reply comes, or the wait for it expires.
LEMMA ReplyBase ==
    ASSUME BaseInv, ReplyComes \/ ReplyExpires
    PROVE  BaseInv'
<1> USE DEF BaseInv
<1>1. /\ pc = "reply"
      /\ UNCHANGED <<fd, made, got, call, uci_socket_id, arg, asked, head, tail>>
    BY DEF ReplyComes, ReplyExpires, GoOn, Return, Bail, fwVars, tcpVars, ringVars, histVars
<1>2. dev.mine /\ call \in {"dhcp", "connect", "send", "poll", "close"}
    BY <1>1 DEF TransactInv, CallInv, TypeInv, Owning
<1>3. Command' = Command /\ ChunkLen' = ChunkLen
    BY <1>1 DEF Command, ChunkLen
<1>4. CASE ReplyComes
  <2>1. UNCHANGED <<dev, why, carry, net_tcp_state, net_last_error, session, net_initialized>>
        /\ pc' = "read"
    BY <1>4 DEF ReplyComes, GoOn, tcpVars, progVars
  <2>2. dev.state = "valid"
    BY <1>4 DEF ReplyComes, ReplySeen, Answered, Coherent
  <2>3. TypeInv' /\ CallInv'
    BY <1>1, <2>1 DEF TypeInv, CallInv, Owning
  <2>4. TransactInv' /\ ReplyInv'
    BY <1>1, <1>2, <1>3, <2>1, <2>2 DEF TransactInv, ReplyInv, Writing, Owning
  <2> QED BY <2>1, <2>3, <2>4
<1>5. CASE ReplyExpires
  <2>1. /\ Coherent(dev') /\ ~dev'.mine /\ dev'.state = dev.state /\ dev'.busy = dev.busy
        /\ dev'.abort = dev.abort /\ dev'.queue = dev.queue
        /\ dev'.exec = dev.exec /\ dev'.buf = dev.buf
    BY <1>5, DisownFields DEF ReplyExpires
  <2>2. CASE call \in {"connect", "send", "close"}
    <3>1. /\ pc' = "abort" /\ why' = "bail"
          /\ UNCHANGED <<carry, session, net_initialized>> /\ net_last_error' = "timeout"
          /\ net_tcp_state' \in {"connect_fail", net_tcp_state}
      BY <1>5, <2>2 DEF ReplyExpires, Bail, progVars
    <3>2. TypeInv' /\ CallInv'
      BY <1>1, <2>2, <3>1 DEF TypeInv, CallInv, Errors
    <3>3. TransactInv' /\ ReplyInv'
      BY <1>1, <1>2, <2>1, <2>2, <3>1 DEF TransactInv, ReplyInv, Writing, Owning
    <3> QED BY <2>1, <3>2, <3>3
  <2>3. CASE call \in {"poll", "dhcp"}
    <3>1. /\ pc' = "idle" /\ carry' = 1 /\ net_last_error' = "timeout"
          /\ net_tcp_state' = (IF call = "poll" THEN "error" ELSE net_tcp_state)
          /\ session' = session
      BY <1>5, <2>3 DEF ReplyExpires, Return
    <3>2. TypeInv' /\ CallInv'
      BY <1>1, <2>3, <3>1 DEF TypeInv, CallInv, Errors
    <3>3. TransactInv' /\ ReplyInv'
      BY <1>1, <1>2, <2>1, <2>3, <3>1 DEF TransactInv, CallInv, ReplyInv, Writing, Owning
    <3> QED BY <2>1, <3>2, <3>3
  <2> QED BY <1>2, <2>2, <2>3
<1> QED BY <1>4, <1>5

\* At the read the reply is this call's own, and nothing else is in the interface.
LEMMA ReadFacts ==
    ASSUME BaseInv, pc = "read"
    PROVE  /\ Rejected = FALSE /\ Reply = dev.reply
           /\ dev.mine /\ dev.state = "valid" /\ ~dev.abort /\ ~dev.busy
           /\ dev.exec = <<>> /\ dev.buf = <<>> /\ dev.queue = <<>>
<1>1. dev.mine /\ dev.state = "valid" /\ ~dev.abort /\ Coherent(dev)
    BY DEF BaseInv, TransactInv, Owning
<1>2. ~dev.busy /\ dev.exec = <<>> /\ dev.queue = <<>> /\ dev.error = FALSE
    BY <1>1 DEF Coherent
<1>3. dev.buf = <<>>
    BY <1>1, <1>2 DEF BaseInv, TransactInv, CallInv
<1> QED BY <1>1, <1>2, <1>3 DEF Rejected, Reply, Staged

\* After the drains the reply is accepted, or left for the abort to clear.
LEMMA DrainedFacts ==
    ASSUME BaseInv, pc = "read", NEW w, Drained(w)
    PROVE  /\ Coherent(dev') /\ ~dev'.mine /\ ~dev'.abort /\ dev'.buf = <<>>
           /\ ~dev'.busy /\ dev'.exec = <<>>
           /\ ~w => Clean(dev')
<1>1. Coherent(dev)
    BY DEF BaseInv
<1>2. CASE w
    BY <1>1, <1>2, ReadFacts, DisownFields DEF Drained
<1>3. CASE ~w
    BY <1>1, <1>3, ReadFacts, AcceptFields DEF Drained, Clean
<1> QED BY <1>2, <1>3

\* A call that read its reply returns, bails out or goes on to its next chunk.
LEMMA ReadTransacts ==
    ASSUME BaseInv, pc = "read", NEW w, Drained(w), CallInv', call' = call,
           \/ pc' = "abort"
           \/ pc' = "wait" /\ call # "poll"
           \/ pc' = "idle" /\ ~w
           \/ pc' = "idle" /\ call = "poll" /\ net_tcp_state' = "error"
           \/ pc' = "idle" /\ call = "dhcp" /\ carry' = 1 
    PROVE  TransactInv' /\ ReplyInv'
<1>1. /\ Coherent(dev') /\ ~dev'.mine /\ ~dev'.abort /\ dev'.buf = <<>>
      /\ ~w => Clean(dev')
    BY DrainedFacts
<1> QED BY <1>1 DEF TransactInv, ReplyInv, CallInv, Writing, Owning

\* The copy into the ring leaves its tail an index.
LEMMA RingStoreType ==
    ASSUME TypeInv, NEW S, NEW bytes \in Seq(S), RingStore(bytes)
    PROVE  tail' \in 0..RingSize-1
<1> DEFINE n == Least(Least(Len(bytes), arg.uci_req_len), Room)
<1>1. Len(bytes) \in Nat /\ arg.uci_req_len \in Nat /\ Room \in Nat
    BY RoomType DEF TypeInv
<1>2. n \in Nat
    BY <1>1, LeastType
<1>3. tail' = (tail + n) % RingSize
    BY DEF RingStore
<1> HIDE DEF n
<1>4. tail + n \in Nat
    BY <1>2, Sizes DEF TypeInv
<1> QED BY <1>3, <1>4, ModType

\* net_poll reads its reply.
LEMMA PollReplyBase ==
    ASSUME BaseInv, NEW w, PollReply(w)
    PROVE  BaseInv'
<1>1. /\ pc = "read" /\ call = "poll" /\ Drained(w) /\ pc' = "idle" /\ carry' = 0
      /\ call' = call /\ UNCHANGED <<fd, made, got, uci_socket_id, head, arg, asked>>
      /\ session' = session
    BY DEF PollReply, Return, fwVars, histVars
<1>2. Rejected = FALSE /\ Reply = dev.reply /\ dev.mine /\ dev.state = "valid"
    BY <1>1, ReadFacts
<1>3. net_tcp_state' = IF w \/ dev.reply.kind = "dead" THEN "error"
                       ELSE IF dev.reply.kind = "eof" THEN "closed" ELSE net_tcp_state
    BY <1>2 DEF PollReply
<1>4. net_last_error' \in {"timeout", net_last_error}
    BY <1>2 DEF PollReply, DrainError
<1>5. tail' \in 0..RingSize-1
  <2>1. RingStore(IF dev.reply.kind # "data" THEN <<>> ELSE dev.reply.val)
    BY <1>2 DEF PollReply
  <2>2. (IF dev.reply.kind # "data" THEN <<>> ELSE dev.reply.val) \in Seq(Nat \X Nat)
    BY <1>1, <1>2 DEF BaseInv, ReplyInv
  <2> QED BY <2>1, <2>2, RingStoreType DEF BaseInv
<1>6. TypeInv'
    BY <1>1, <1>4, <1>5 DEF BaseInv, TypeInv, Errors
<1>7. CallInv'
    BY <1>1, <1>3 DEF BaseInv, CallInv
<1>8. TransactInv' /\ ReplyInv'
    BY <1>1, <1>3, <1>7, ReadTransacts
<1> QED BY <1>1, <1>6, <1>7, <1>8, DrainedFacts DEF BaseInv

\* net_tcp_connect reads its reply.
LEMMA ConnectReplyBase ==
    ASSUME BaseInv, NEW w, ConnectReply(w)
    PROVE  BaseInv'
<1> DEFINE id == IF dev.reply.kind = "socket" THEN dev.reply.val[1] ELSE 0
<1>1. /\ pc = "read" /\ call = "connect" /\ Drained(w)
      /\ call' = call /\ UNCHANGED <<fd, made, got, head, tail, arg, asked>>
    BY DEF ConnectReply, Return, Bail, fwVars, ringVars
<1>2. Rejected = FALSE /\ Reply = dev.reply /\ dev.mine /\ dev.state = "valid"
    BY <1>1, ReadFacts
<1>3. /\ uci_socket_id' = id
      /\ net_last_error' \in {"timeout", "no_socket", net_last_error}
      /\ net_tcp_state' = IF w \/ id = 0 THEN "connect_fail" ELSE "connected"
      /\ IF w THEN Bail ELSE Return(IF id = 0 THEN 1 ELSE 0)
    BY <1>2 DEF ConnectReply, DrainError
<1>4. id \in Ids \cup {0}
    BY <1>1, <1>2 DEF BaseInv, ReplyInv
<1> HIDE DEF id
<1>5. /\ w => pc' = "abort" /\ why' = "bail" /\ UNCHANGED <<carry, session>>
      /\ ~w => pc' = "idle" /\ carry' \in {0, 1} /\ session' = (IF id = 0 THEN "none" ELSE "open")
    BY <1>1, <1>3 DEF Bail, Return, progVars
<1>6. TypeInv'
    BY <1>1, <1>3, <1>4, <1>5 DEF BaseInv, TypeInv, Errors
<1>7. CallInv'
    BY <1>1, <1>3, <1>5 DEF BaseInv, CallInv
<1>8. TransactInv' /\ ReplyInv'
    BY <1>1, <1>5, <1>7, ReadTransacts
<1> QED BY <1>1, <1>6, <1>7, <1>8, DrainedFacts DEF BaseInv

\* net_tcp_send reads its reply.
LEMMA SendReplyBase ==
    ASSUME BaseInv, NEW w, SendReply(w)
    PROVE  BaseInv'
<1> DEFINE n == IF dev.reply.kind = "count" THEN dev.reply.val[1] ELSE 0
<1>1. /\ pc = "read" /\ call = "send" /\ Drained(w)
      /\ call' = call /\ UNCHANGED <<fd, made, got, head, tail, uci_socket_id, net_tcp_state,
                                     asked>>
    BY DEF SendReply, Return, Bail, GoOn, fwVars, ringVars
<1>2. Rejected = FALSE /\ Reply = dev.reply /\ dev.mine /\ dev.state = "valid"
    BY <1>1, ReadFacts
<1>3. /\ net_last_error' \in {"timeout", "short_write", net_last_error}
      /\ arg' = IF w THEN arg
                ELSE [arg EXCEPT !.uci_send_rem = arg.uci_send_rem - n, !.uci_send_ptr = @ + n]
      /\ IF w THEN Bail
         ELSE IF dev.reply.kind # "count" THEN Return(1)
         ELSE IF n = 0 \/ arg.uci_send_rem - n = 0 THEN Return(0)
         ELSE GoOn("wait")
    BY <1>2 DEF SendReply, DrainError
<1>4. n \in Nat /\ arg.uci_send_rem - n \in Nat
  <2>1. n \in 0..ChunkLen
    <3>1. ChunkLen \in Nat
      BY Sizes, LeastType DEF BaseInv, TypeInv, ChunkLen
    <3> QED BY <1>1, <1>2, <3>1 DEF BaseInv, ReplyInv
  <2>2. arg.uci_send_rem \in Nat /\ ChunkLen \in Nat /\ ChunkLen <= arg.uci_send_rem
    BY Sizes, LeastType DEF BaseInv, TypeInv, ChunkLen
  <2> QED BY <2>1, <2>2
<1> HIDE DEF n
<1>5. arg' \in [uci_req_len : Nat, uci_send_rem : Nat, uci_send_ptr : Nat, iface_idx : Nat,
                cl_err_in : Errors]
  <2>1. arg \in [uci_req_len : Nat, uci_send_rem : Nat, uci_send_ptr : Nat, iface_idx : Nat,
                 cl_err_in : Errors]
    BY DEF BaseInv, TypeInv
  <2>2. arg.uci_send_ptr + n \in Nat
    BY <1>4, <2>1
  <2>3. arg' = arg \/ arg' = [arg EXCEPT !.uci_send_rem = arg.uci_send_rem - n,
                                       !.uci_send_ptr = arg.uci_send_ptr + n]
    BY <1>3
  <2> QED BY <1>4, <2>1, <2>2, <2>3
<1>6. session = "open" /\ net_tcp_state' = net_tcp_state
    BY <1>1 DEF BaseInv, CallInv
<1>7. /\ w => pc' = "abort" /\ why' = "bail" /\ UNCHANGED <<carry, session>>
      /\ ~w => \/ pc' = "idle" /\ carry' = 1 /\ session' = "broken"
               \/ pc' = "idle" /\ carry' = 0 /\ session' = session
               \/ pc' = "wait" /\ UNCHANGED <<carry, session>>
    BY <1>1, <1>3 DEF Bail, Return, GoOn, progVars
<1>8. TypeInv'
    BY <1>1, <1>3, <1>5, <1>7 DEF BaseInv, TypeInv, Errors
<1>9. CallInv'
    BY <1>1, <1>6, <1>7 DEF BaseInv, CallInv
<1>10. TransactInv' /\ ReplyInv'
    BY <1>1, <1>7, <1>9, ReadTransacts
<1> QED BY <1>1, <1>8, <1>9, <1>10, DrainedFacts DEF BaseInv

\* net_tcp_close reads its reply.
LEMMA CloseReplyBase ==
    ASSUME BaseInv, NEW w, CloseReply(w)
    PROVE  BaseInv'
<1>1. /\ pc = "read" /\ call = "close" /\ Drained(w)
      /\ call' = call /\ UNCHANGED <<fd, made, got, head, tail, uci_socket_id, arg, asked>>
      /\ net_last_error' \in {"timeout", net_last_error}
    BY DEF CloseReply, DrainError, Return, Bail, fwVars, ringVars, histVars
<1>2. /\ w => pc' = "abort" /\ why' = "bail" /\ UNCHANGED <<carry, session, net_tcp_state>>
      /\ ~w => pc' = "idle" /\ carry' = 0 /\ session' = "none" /\ net_tcp_state' = "closed"
    BY <1>1 DEF CloseReply, Bail, Return, progVars
<1>3. TypeInv'
    BY <1>1, <1>2 DEF BaseInv, TypeInv, Errors
<1>4. CallInv'
    BY <1>1, <1>2 DEF BaseInv, CallInv
<1>5. TransactInv' /\ ReplyInv'
    BY <1>1, <1>2, <1>4, ReadTransacts
<1> QED BY <1>1, <1>3, <1>4, <1>5, DrainedFacts DEF BaseInv

\* net_dhcp_acquire reads its reply.
LEMMA DhcpReplyBase ==
    ASSUME BaseInv, NEW w, DhcpReply(w)
    PROVE  BaseInv'
<1>1. /\ pc = "read" /\ call = "dhcp" /\ Drained(w)
      /\ call' = call /\ UNCHANGED <<fd, made, got, head, tail, uci_socket_id, net_tcp_state,
                                     asked>>
      /\ net_last_error' \in {"timeout", "ok", "command", "no_ip"}
    BY DEF DhcpReply, DrainError, Return, GoOn, fwVars, ringVars, histVars
<1>2. /\ session' = session
      /\ \/ pc' = "idle" /\ carry' = 1
         \/ pc' = "idle" /\ carry' = 0 /\ ~w
         \/ pc' = "wait" /\ carry' = carry
    BY <1>1 DEF DhcpReply, Return, GoOn, progVars
<1>3. arg' \in [uci_req_len : Nat, uci_send_rem : Nat, uci_send_ptr : Nat, iface_idx : Nat,
                cl_err_in : Errors]
    BY DEF DhcpReply, BaseInv, TypeInv
<1>4. TypeInv'
    BY <1>1, <1>2, <1>3 DEF BaseInv, TypeInv, Errors
<1>5. CallInv'
    BY <1>1, <1>2 DEF BaseInv, CallInv
<1>6. TransactInv' /\ ReplyInv'
    BY <1>1, <1>2, <1>5, ReadTransacts
<1> QED BY <1>1, <1>4, <1>5, <1>6, DrainedFacts DEF BaseInv

\* uci_abort, and the two ends of its wait.
LEMMA AbortBase ==
    ASSUME BaseInv, UciAbort \/ AbortLands \/ AbortExpires
    PROVE  BaseInv'
<1> USE DEF BaseInv
<1>1. /\ pc \in {"abort", "abort_wait"} /\ call' = call
      /\ UNCHANGED <<fd, made, got, head, tail, uci_socket_id, arg, asked>>
    BY DEF UciAbort, AbortLands, AbortExpires, GoOn, Return, fwVars, tcpVars, ringVars, histVars
<1>2. ~dev.mine
    BY <1>1 DEF TransactInv, Owning
<1>3. CASE UciAbort
  <2>1. /\ pc = "abort" /\ pc' = "abort_wait" /\ dev' = Abort(dev)
        /\ UNCHANGED <<why, carry, net_tcp_state, net_last_error, session, net_initialized>>
    BY <1>3 DEF UciAbort, GoOn, tcpVars, progVars
  <2>2. Coherent(dev') /\ dev'.abort /\ ~dev'.mine
    BY <1>2, <2>1, AbortFields
  <2>3. TypeInv' /\ CallInv'
    BY <1>1, <2>1 DEF TypeInv, CallInv
  <2>4. TransactInv' /\ ReplyInv'
    BY <1>1, <2>1, <2>2 DEF TransactInv, ReplyInv, Writing, Owning
  <2> QED BY <2>2, <2>3, <2>4
<1>4. CASE AbortLands
  <2>1. dev' = dev /\ pc = "abort_wait" /\ FullyIdle(dev)
    BY <1>4 DEF AbortLands, AbortSeen
  <2>2. Clean(dev)
    BY <2>1 DEF TransactInv, FullyIdle
  <2>3. net_last_error' \in Errors
    BY <1>4 DEF AbortLands, TypeInv, Errors
  <2>4. CASE why = "init"
    <3>1. call = "init" /\ pc' = "idle" /\ carry' = 0 /\ session' = session
          /\ net_tcp_state' = "closed"
      BY <1>4, <2>1, <2>4 DEF AbortLands, Return, CallInv
    <3>2. TypeInv' /\ CallInv'
      BY <1>1, <2>3, <3>1 DEF TypeInv, CallInv
    <3>3. TransactInv' /\ ReplyInv'
      BY <1>1, <1>2, <2>1, <2>2, <3>1 DEF TransactInv, ReplyInv, Writing, Owning, Clean
    <3> QED BY <2>1, <3>2, <3>3
  <2>5. CASE why = "retry"
    <3>1. call = "close" /\ pc' = "head" /\ UNCHANGED <<carry, session, net_tcp_state,
                                                        net_initialized>>
      BY <1>4, <2>1, <2>5 DEF AbortLands, GoOn, CallInv, progVars
    <3>2. TypeInv' /\ CallInv'
      BY <1>1, <2>1, <2>3, <3>1 DEF TypeInv, CallInv, Writing
    <3>3. TransactInv' /\ ReplyInv'
      BY <1>1, <1>2, <2>1, <2>2, <3>1 DEF TransactInv, ReplyInv, Writing, Owning, Clean
    <3> QED BY <2>1, <3>2, <3>3
  <2>6. CASE why = "bail"
    <3>1. /\ call \in {"connect", "send", "close"} /\ pc' = "idle" /\ carry' = 1
          /\ session' = (IF call = "send" THEN "broken" ELSE "none")
          /\ net_tcp_state' = (IF call = "close" THEN "closed" ELSE net_tcp_state)
      BY <1>4, <2>1, <2>6 DEF AbortLands, Return, CallInv
    <3>2. TypeInv' /\ CallInv'
      BY <1>1, <2>1, <2>3, <3>1 DEF TypeInv, CallInv
    <3>3. TransactInv' /\ ReplyInv'
      BY <1>1, <1>2, <2>1, <2>2, <3>1 DEF TransactInv, ReplyInv, Writing, Owning, Clean
    <3> QED BY <2>1, <3>2, <3>3
  <2> QED BY <2>1, <2>4, <2>5, <2>6 DEF CallInv
<1>5. CASE AbortExpires
  <2>1. dev' = dev /\ pc = "abort_wait" /\ ~FullyIdle(dev) /\ pc' = "idle" /\ carry' = 1
        /\ net_last_error' = "timeout"
        /\ net_tcp_state' = (IF call = "close" THEN "closed" ELSE net_tcp_state)
        /\ session' = (IF call = "send" THEN "broken"
                      ELSE IF call \in {"connect", "close"} THEN "none"
                       ELSE session)
    BY <1>5 DEF AbortExpires, AbortSeen, Expired, Return
  <2>2. dev.abort
    BY <2>1, CleanIdle DEF TransactInv
  <2>3. call \in {"init", "connect", "send", "close"}
    BY <2>1 DEF CallInv
  <2>4. TypeInv' /\ CallInv'
    BY <1>1, <2>1, <2>3 DEF TypeInv, CallInv, Errors
  <2>5. TransactInv' /\ ReplyInv'
    BY <1>1, <1>2, <2>1, <2>2, <2>3, <2>4 DEF TransactInv, ReplyInv, CallInv, Writing, Owning
  <2> QED BY <2>1, <2>4, <2>5
<1> QED BY <1>3, <1>4, <1>5

\* The task takes a command or serves an abort.
LEMMA TakesBase ==
    ASSUME BaseInv, TaskTakes
    PROVE  BaseInv'
<1> USE DEF BaseInv
<1>1. UNCHANGED <<fd, made, got, call, pc, why, carry, net_tcp_state, net_last_error,
                  uci_socket_id, head, tail, arg, session, net_initialized, asked>>
    BY DEF TaskTakes, Untouched, fwVars, tcpVars, ringVars, callVars, progVars, histVars
<1>2. Command' = Command /\ ChunkLen' = ChunkLen /\ Part(1)' = Part(1) /\ Part(2)' = Part(2)
    BY <1>1 DEF Command, ChunkLen, Part
<1>3. TypeInv' /\ CallInv'
    BY <1>1 DEF TypeInv, CallInv
<1>4. TaskFree(dev) /\ ~Clean(dev)
    BY CleanIdle DEF TaskTakes, TaskFree
<1>5. CASE Head(dev.queue) = "abort"
  <2>1. /\ Coherent(dev') /\ dev.abort /\ dev'.mine = dev.mine /\ Clean(dev') /\ FullyIdle(dev')
    BY <1>4, <1>5, ResetFields DEF TaskTakes, Clean, FullyIdle
  <2>2. ~dev.mine
    BY <2>1 DEF TransactInv
  <2>3. pc \notin Writing
    BY <2>1 DEF TransactInv, FullyIdle
  <2>4. TransactInv' /\ ReplyInv'
    BY <1>1, <2>1, <2>2, <2>3 DEF TransactInv, ReplyInv, Writing, Owning, Clean
  <2> QED BY <1>3, <2>1, <2>4
<1>6. CASE Head(dev.queue) # "abort"
  <2>1. /\ Coherent(dev') /\ dev.busy /\ dev'.state = "busy" /\ dev.state = "busy" /\ ~dev'.busy
        /\ dev'.abort = dev.abort /\ dev'.mine = dev.mine
        /\ dev'.exec = <<Parsed(dev.buf)>> /\ dev'.buf = <<>>
    BY <1>4, <1>6, TakeFields DEF TaskTakes
  <2>2. pc \notin Writing
    BY <2>1 DEF TransactInv, FullyIdle
  <2>3. dev'.exec[1] = Parsed(dev.buf)
    BY <2>1
  <2>4. TransactInv' /\ ReplyInv'
    BY <1>1, <1>2, <1>4, <2>1, <2>2, <2>3 DEF TransactInv, ReplyInv, Writing, Owning
  <2> QED BY <1>3, <2>1, <2>4
<1> QED BY <1>5, <1>6

\* The task stages a reply: it is this call's, or the call has given up on it.
LEMMA ValidBase ==
    ASSUME BaseInv, dev.exec # <<>>, NEW kind, NEW val, dev' = Validate(dev, kind, val), Untouched,
           made' \in Nat, got' \in Nat, fd' \in [Ids -> Nat],
           dev.mine /\ call = "connect" => kind = "empty" \/ (kind = "socket" /\ val[1] \in Ids),
           dev.mine /\ call = "send" =>
               kind = "failed" \/ (kind = "count" /\ val[1] \in 0..ChunkLen),
           dev.mine /\ call = "poll" =>
               kind \in {"dead", "idle", "eof"} \/ (kind = "data" /\ val \in Seq(Nat \X Nat))
    PROVE  BaseInv'
<1> USE DEF BaseInv
<1>1. UNCHANGED <<call, pc, why, carry, net_tcp_state, net_last_error,
                  uci_socket_id, head, tail, arg, session, net_initialized, asked>>
    BY DEF Untouched, tcpVars, ringVars, callVars, progVars, histVars
<1>2. ChunkLen' = ChunkLen
    BY <1>1 DEF ChunkLen
<1>3. TypeInv' /\ CallInv'
    BY <1>1 DEF TypeInv, CallInv
<1>4. /\ Coherent(dev') /\ dev'.state = "valid" /\ ~dev'.busy /\ dev'.abort = dev.abort
      /\ dev'.mine = dev.mine /\ dev'.exec = <<>> /\ dev'.buf = dev.buf
      /\ dev'.reply = [op |-> dev.exec[1].op, kind |-> kind, val |-> val]
    BY ValidateFields
<1>5. dev'.reply.op = dev.exec[1].op /\ dev'.reply.kind = kind /\ dev'.reply.val = val
    BY <1>4
<1>6. ~Clean(dev) /\ dev.state = "busy" /\ ~dev.busy
    BY DEF Clean, Coherent
<1>7. pc \notin Writing
    BY <1>6 DEF TransactInv, FullyIdle
<1>8. dev.mine => Command.op = call
    BY CommandType DEF TransactInv, CallInv, TypeInv, Owning
<1>9. TransactInv'
    BY <1>1, <1>4, <1>5, <1>6, <1>7, <1>8 DEF TransactInv, Writing, Owning
<1>10. ReplyInv'
    BY <1>1, <1>2, <1>4, <1>5 DEF ReplyInv
<1> QED BY <1>3, <1>4, <1>9, <1>10

\* The task completes a command.
LEMMA TaskBase ==
    ASSUME BaseInv, TaskConnects \/ TaskReads \/ TaskWrites \/ TaskCloses \/ TaskTellsLease
    PROVE  BaseInv'
<1>1. /\ made \in Nat /\ got \in Nat /\ fd \in [Ids -> Nat] /\ Coherent(dev)
    BY DEF BaseInv, TypeInv
<1>2. dev.mine /\ dev.exec # <<>> => dev.exec[1] = Command /\ Command.op = call
    BY CommandType DEF BaseInv, TransactInv, CallInv, TypeInv, Owning
<1>3. CASE TaskConnects
  <2>1. dev.exec # <<>> /\ dev.exec[1].op = "connect" /\ Untouched
    BY <1>3 DEF TaskConnects, Task
  <2>2. CASE dev' = Validate(dev, "empty", <<>>) /\ UNCHANGED fwVars
    BY <1>1, <1>2, <2>1, <2>2, ValidBase DEF fwVars
  <2>3. CASE \E i \in Ids : /\ made' = made + 1 /\ fd' = [fd EXCEPT ![i] = made + 1]
                            /\ got' = 0 /\ dev' = Validate(dev, "socket", <<i>>)
    <3>1. PICK i \in Ids : /\ made' = made + 1 /\ fd' = [fd EXCEPT ![i] = made + 1]
                           /\ got' = 0 /\ dev' = Validate(dev, "socket", <<i>>)
      BY <2>3
    <3>2. made' \in Nat /\ fd' \in [Ids -> Nat] /\ got' \in Nat /\ <<i>>[1] \in Ids
      BY <1>1, <3>1
    <3> QED BY <1>2, <2>1, <3>1, <3>2, ValidBase
  <2> QED BY <1>3, <2>2, <2>3 DEF TaskConnects
<1>4. CASE TaskReads
  <2>1. dev.exec # <<>> /\ dev.exec[1].op = "poll" /\ Untouched
    BY <1>4 DEF TaskReads, Task
  <2>2. CASE \E kind \in {"dead", "idle"} : dev' = Validate(dev, kind, <<>>) /\ UNCHANGED fwVars
    BY <1>1, <1>2, <2>1, <2>2, ValidBase DEF fwVars
  <2>3. CASE /\ fd' = [fd EXCEPT ![dev.exec[1].id] = 0]
             /\ dev' = Validate(dev, "eof", <<>>)
             /\ UNCHANGED <<made, got, wire>>
    <3>1. fd' \in [Ids -> Nat]
      BY <1>1, <2>3
    <3> QED BY <1>1, <1>2, <2>1, <2>3, <3>1, ValidBase
  <2>4. CASE \E n \in 1..dev.exec[1].arg :
               /\ got' = got + n
               /\ dev' = Validate(dev, "data", [i \in 1..n |-> <<Serial, got + i>>])
               /\ UNCHANGED <<fd, made, wire>>
    <3>1. PICK n \in 1..dev.exec[1].arg :
               /\ got' = got + n
               /\ dev' = Validate(dev, "data", [i \in 1..n |-> <<Serial, got + i>>])
               /\ UNCHANGED <<fd, made, wire>>
      BY <2>4
    <3>2. dev.exec[1] \in Commands
      BY <1>1, <2>1 DEF Coherent
    <3>3. n \in Nat /\ Serial \in Nat
      BY <1>1, <3>2 DEF Serial, Commands
    <3> DEFINE val == [i \in 1..n |-> <<Serial, got + i>>]
    <3>4. \A i \in 1..n : <<Serial, got + i>> \in Nat \X Nat
      BY <1>1, <3>3
    <3>5. val \in Seq(Nat \X Nat)
      BY <3>3, <3>4
    <3>6. got' \in Nat
      BY <1>1, <3>1, <3>3
    <3> HIDE DEF val
    <3>7. dev' = Validate(dev, "data", val)
      BY <3>1 DEF val
    <3> QED BY <1>1, <1>2, <2>1, <3>1, <3>5, <3>6, <3>7, ValidBase
  <2> QED BY <1>4, <2>2, <2>3, <2>4 DEF TaskReads
<1>5. CASE TaskWrites
  <2>1. dev.exec # <<>> /\ dev.exec[1].op = "send" /\ Untouched
    BY <1>5 DEF TaskWrites, Task
  <2>2. UNCHANGED <<fd, made, got>>
    BY <1>5 DEF TaskWrites, fwVars
  <2>3. CASE dev' = Validate(dev, "failed", <<>>)
    BY <1>1, <1>2, <2>1, <2>2, <2>3, ValidBase
  <2>4. CASE \E n \in 0..dev.exec[1].arg : dev' = Validate(dev, "count", <<n>>)
    <3>1. PICK n \in 0..dev.exec[1].arg : dev' = Validate(dev, "count", <<n>>)
      BY <2>4
    <3>2. dev.mine => call = "send" /\ dev.exec[1].arg = ChunkLen
      BY <1>2, <2>1 DEF Command
    <3>3. dev.mine => <<n>>[1] \in 0..ChunkLen
      BY <3>1, <3>2
    <3> QED BY <1>1, <1>2, <2>1, <2>2, <3>1, <3>2, <3>3, ValidBase
  <2> QED BY <1>5, <2>3, <2>4 DEF TaskWrites
<1>6. CASE TaskCloses
  <2>1. /\ dev.exec # <<>> /\ dev.exec[1].op = "close" /\ Untouched
        /\ dev' = Validate(dev, "done", <<>>) /\ UNCHANGED <<made, got, wire>>
    BY <1>6 DEF TaskCloses, Task
  <2>2. fd' \in [Ids -> Nat]
    BY <1>1, <1>6 DEF TaskCloses
  <2> QED BY <1>1, <1>2, <2>1, <2>2, ValidBase
<1>7. CASE TaskTellsLease
  <2>1. dev.exec # <<>> /\ dev.exec[1].op \in {"dhcp", "null"} /\ Untouched
    BY <1>7 DEF TaskTellsLease, Task
  <2>2. PICK kind \in {"lease", "zero", "empty"} : dev' = Validate(dev, kind, <<>>)
    BY <1>7 DEF TaskTellsLease
  <2>3. UNCHANGED <<fd, made, got>>
    BY <1>7 DEF TaskTellsLease, fwVars
  <2>4. dev.mine => call \notin {"connect", "send", "poll"}
    BY <1>2, <2>1
  <2> QED BY <1>1, <2>1, <2>2, <2>3, <2>4, ValidBase
<1> QED BY <1>3, <1>4, <1>5, <1>6, <1>7

\* A reset of the C64 leaves the firmware where it is.
LEMMA RestartBase ==
    ASSUME BaseInv, Restart
    PROVE  BaseInv'
<1>1. Coherent(dev') /\ ~dev'.mine
    BY DisownFields DEF Restart, BaseInv
<1>2. TypeInv'
    BY Sizes DEF Restart, Booted, BaseInv, TypeInv, fwVars, NoArg, Errors
<1>3. CallInv'
    BY DEF Restart, Booted, CallInv
<1>4. TransactInv' /\ ReplyInv'
    BY <1>1 DEF Restart, Booted, TransactInv, ReplyInv, Writing, Owning
<1> QED BY <1>1, <1>2, <1>3, <1>4 DEF BaseInv

\* Every step keeps the base invariant.
LEMMA StepBase ==
    ASSUME BaseInv, [Next]_vars
    PROVE  BaseInv'
BY EnterBase, QuietBase, EntryBase, WriteBase, PushBase, ReplyBase, PollReplyBase,
   ConnectReplyBase, SendReplyBase, CloseReplyBase, DhcpReplyBase, AbortBase, TakesBase,
   TaskBase, RestartBase DEF Next, Program, Adapter, Firmware

\* The base invariant holds throughout.
LEMMA BaseInvariant == Spec => []BaseInv
<1>1. Init => BaseInv
    BY BaseInitial
<1>2. BaseInv /\ [Next]_vars => BaseInv'
    BY StepBase
<1> QED BY <1>1, <1>2, PTL DEF Spec

\* No push meets a busy interface, and a call reads the reply to its own command.
THEOREM OwnReply == Spec => []ReplyIsMine
<1>1. BaseInv => ReplyIsMine
    BY DEF BaseInv, Coherent, TransactInv, Owning, ReplyIsMine
<1> QED BY <1>1, BaseInvariant, PTL

\* A call after which the program goes on leaves no transaction behind.
THEOREM InterfaceLeftClean == Spec => []LeftClean
<1>1. BaseInv => LeftClean
    BY CleanIdle DEF BaseInv, TransactInv, LeftClean
<1> QED BY <1>1, BaseInvariant, PTL

----------------------------------------------------------------------------
(* What a step of the program, the adapter or a reset leaves alone.         *)

\* The command the firmware has and has not completed: queued or running.
Pending == {c \in Commands : \/ dev.busy /\ c = Parsed(dev.buf)
                             \/ dev.exec # <<>> /\ c = dev.exec[1]}

Aside == Program \/ Adapter \/ Restart \/ UNCHANGED vars

\* A step that starts nothing adds nothing to what is in hand.
LEMMA PendingKept ==
    ASSUME dev'.busy => dev.busy /\ Parsed(dev'.buf) = Parsed(dev.buf),
           dev'.exec # <<>> => dev'.exec = dev.exec
    PROVE  Pending' \subseteq Pending
BY DEF Pending

\* What the adapter does to the firmware: it hands over commands, one at a time.
LEMMA PendingAside ==
    ASSUME BaseInv, Aside
    PROVE  Pending' \subseteq Pending \/ (UciPushWait /\ Pending' \subseteq {Command})
<1>1. CASE dev' = dev
    BY <1>1, PendingKept
<1>2. CASE dev' = Disown(dev)
    BY <1>2, DisownFields, PendingKept DEF BaseInv
<1>3. ASSUME NEW part \in 1..2, WriteCommand(part) PROVE Pending' \subseteq Pending
  <2>1. FullyIdle(dev) /\ Coherent(dev) /\ dev' = Write(dev, Command, part)
    BY <1>3 DEF WriteCommand, BaseInv, TransactInv, Writing
  <2>a. ~dev.busy
    BY <2>1 DEF FullyIdle
  <2>2. /\ Coherent(dev') /\ dev'.buf = Append(dev.buf, [cmd |-> Command, part |-> part])
        /\ dev'.state = dev.state /\ dev'.busy = dev.busy /\ dev'.abort = dev.abort
        /\ dev'.queue = dev.queue /\ dev'.exec = dev.exec /\ dev'.mine = dev.mine
    BY <2>1, WriteFields DEF FullyIdle
  <2> QED BY <2>a, <2>2, PendingKept
<1>4. CASE UciPushWait
  <2>1. FullyIdle(dev) /\ Coherent(dev) /\ dev' = PushCommand(ClearError(dev))
        /\ dev.buf = <<Part(1), Part(2)>>
    BY <1>4 DEF UciPushWait, BaseInv, TransactInv, Writing
  <2>2. Parsed(dev.buf) = Command
    BY <2>1, WholeParsed DEF Part
  <2>3. Command \in Commands
    BY <1>4, CommandType DEF UciPushWait, BaseInv, CallInv, TypeInv
  <2>4. dev'.exec = <<>> /\ dev'.buf = dev.buf
    BY <2>1, <2>2, <2>3, PushFields
  <2> QED BY <1>4, <2>2, <2>4 DEF Pending
<1>5. ASSUME NEW w, pc = "read", Drained(w) PROVE Pending' \subseteq Pending
    BY <1>5, DrainedFacts, PendingKept
<1>6. CASE UciAbort
  <2>1. dev'.busy = dev.busy /\ dev'.exec = dev.exec /\ dev'.buf = dev.buf
    BY <1>6, AbortFields DEF UciAbort, BaseInv
  <2> QED BY <2>1, PendingKept
<1>7. \/ dev' = dev \/ dev' = Disown(dev) \/ UciPushWait \/ UciAbort
      \/ \E part \in 1..2 : WriteCommand(part)
      \/ \E w \in {FALSE, Wedges} : pc = "read" /\ Drained(w)
    BY DEF Aside, Program, Adapter, Restart, vars, NetInit, NetDhcpAcquire, NetTcpConnect, NetPoll,
       NetTcpClose, NetTcpSend, NetRecvByte, Enter, EntryPasses, EntryExpires, ReplyComes,
       ReplyExpires, PollReply, ConnectReply, SendReply, CloseReply, DhcpReply, AbortLands,
       AbortExpires
<1> QED BY <1>1, <1>2, <1>3, <1>4, <1>5, <1>6, <1>7

\* Only the firmware touches its sockets.
LEMMA AsideSockets ==
    ASSUME Aside
    PROVE  UNCHANGED fwVars
BY ZenonT(40) DEF Aside, Program, Adapter, Restart, vars, fwVars, NetInit, NetDhcpAcquire, NetTcpConnect,
   NetPoll,
       NetTcpClose, NetTcpSend, NetRecvByte, Enter, EntryPasses, EntryExpires, WriteCommand,
       UciPushWait, ReplyComes, UciAbort,
       ReplyExpires, PollReply, ConnectReply, SendReply, CloseReply, DhcpReply, AbortLands,
       AbortExpires

\* A reply that is this call's after a step of the adapter was so before it.
LEMMA AsideReply ==
    ASSUME BaseInv, BaseInv', Aside, dev'.mine, dev'.state = "valid"
    PROVE  /\ dev.mine /\ dev.state = "valid" /\ dev'.reply = dev.reply
           /\ UNCHANGED <<call, arg, uci_socket_id, conn, taken, asked, short, session,
                          net_tcp_state,
                          net_last_error, head, tail, tcp_recv_buf>>
<1>1. pc' \in Owning
    BY SMTT(30) DEF BaseInv, TransactInv
<1>2. UciPushWait \/ ReplyComes \/ UNCHANGED vars
    BY <1>1 DEF Aside, Program, Adapter, Restart, Booted, vars, NetInit, NetDhcpAcquire,
       NetTcpConnect, NetPoll,
       NetTcpClose, NetTcpSend, NetRecvByte, Enter, EntryPasses, EntryExpires, WriteCommand,
       UciAbort, Owning, GoOn, Return, Bail, callVars, BaseInv, TransactInv,
       ReplyExpires, PollReply, ConnectReply, SendReply, CloseReply, DhcpReply, AbortLands,
       AbortExpires
<1>3. ~UciPushWait
  <2> SUFFICES ASSUME UciPushWait PROVE FALSE
    OBVIOUS
  <2>1. FullyIdle(dev) /\ Coherent(dev) /\ dev' = PushCommand(ClearError(dev))
        /\ dev.buf = <<Part(1), Part(2)>>
    BY DEF UciPushWait, BaseInv, TransactInv, Writing
  <2>2. Parsed(dev.buf) = Command
    BY <2>1, WholeParsed DEF Part
  <2>3. Command \in Commands
    BY CommandType DEF UciPushWait, BaseInv, CallInv, TypeInv
  <2>4. dev'.state = "busy"
    BY <2>1, <2>2, <2>3, PushFields
  <2> QED BY <2>4
<1>4. /\ dev' = dev
      /\ UNCHANGED <<call, arg, uci_socket_id, conn, taken, asked, short, session, net_tcp_state,
                          net_last_error, head, tail, tcp_recv_buf>>
    BY <1>2, <1>3 DEF ReplyComes, vars, GoOn, callVars, tcpVars, histVars, progVars, ringVars
<1> QED BY <1>4

\* A session begins with a connect that succeeds, and keeps its socket.
LEMMA AsideSession ==
    ASSUME BaseInv, Aside, session' # "none"
    PROVE  \/ \E w \in {FALSE, Wedges} : ConnectReply(w)
           \/ /\ session # "none" /\ conn' = conn /\ uci_socket_id' = uci_socket_id
              /\ (short => short') /\ (session' = "open" => session = "open")
<1>1. CASE Program
    BY <1>1 DEF Program, NetInit, NetDhcpAcquire, NetTcpConnect, NetPoll,
       NetTcpClose, NetTcpSend, NetRecvByte, Enter, BetweenFetches, tcpVars, histVars, progVars
<1>2. CASE Restart \/ UNCHANGED vars
    BY <1>2 DEF Restart, Booted, vars, tcpVars, histVars, progVars
<1>3. CASE EntryPasses \/ (\E part \in 1..2 : WriteCommand(part)) \/ UciPushWait \/ ReplyComes
           \/ UciAbort
    BY <1>3 DEF EntryPasses, WriteCommand, UciPushWait, ReplyComes, UciAbort, GoOn, tcpVars,
       histVars, progVars
<1>4. CASE EntryExpires
    BY <1>4 DEF EntryExpires, Return, Bail, BaseInv, CallInv, histVars, progVars
<1>5. CASE ReplyExpires
    BY <1>5 DEF ReplyExpires, Return, Bail, BaseInv, CallInv, histVars, progVars
<1>6. CASE AbortLands \/ AbortExpires
  <2>1. pc = "abort_wait" /\ conn' = conn /\ uci_socket_id' = uci_socket_id /\ short' = short
    BY <1>6 DEF AbortLands, AbortExpires, histVars
  <2>2. session' \in {session, "none"} \/ (call = "send" /\ session' = "broken")
    BY <1>6, <2>1 DEF AbortLands, AbortExpires, Return, GoOn, BaseInv, CallInv, progVars
  <2> QED BY <2>1, <2>2 DEF BaseInv, CallInv
<1>7. ASSUME NEW w, PollReply(w) \/ CloseReply(w) \/ DhcpReply(w)
      PROVE  /\ session # "none" /\ conn' = conn /\ uci_socket_id' = uci_socket_id
             /\ (short => short') /\ (session' = "open" => session = "open")
    BY <1>7 DEF PollReply, CloseReply, DhcpReply, Return, GoOn, Bail, BaseInv, CallInv,
       histVars, progVars
<1>8. ASSUME NEW w, SendReply(w)
      PROVE  /\ session # "none" /\ conn' = conn /\ uci_socket_id' = uci_socket_id
             /\ (short => short') /\ (session' = "open" => session = "open")
  <2>1. pc = "read" /\ call = "send" /\ conn' = conn /\ uci_socket_id' = uci_socket_id
    BY <1>8 DEF SendReply
  <2>2. session = "open"
    BY <2>1 DEF BaseInv, CallInv
  <2>3. short => short'
    BY <1>8 DEF SendReply
  <2> QED BY <2>1, <2>2, <2>3
<1> QED BY <1>1, <1>2, <1>3, <1>4, <1>5, <1>6, <1>7, <1>8 DEF Aside, Adapter

----------------------------------------------------------------------------
(* The sockets, and the close.                                              *)

\* A connection has one socket, and its number is older than the next connection's.
Numbered ==
    /\ \A i, j \in Ids : fd[i] = fd[j] /\ fd[i] # 0 => i = j
    /\ \A i \in Ids : fd[i] <= made

\* In a session the adapter's socket is this connection's or closed, and what the
\* firmware has in hand is about this socket.
SessionSocket ==
    session # "none" =>
        /\ conn \in Nat \ {0} /\ conn <= made /\ uci_socket_id \in Ids
        /\ fd[uci_socket_id] \in {0, conn}
        /\ \A i \in Ids : fd[i] = conn => i = uci_socket_id
        /\ \A c \in Pending : c.op \in {"send", "poll", "close"} /\ c.id = uci_socket_id

\* A connect's reply names the newest socket, which nothing has used.
ConnectSocket ==
    dev.mine /\ dev.state = "valid" /\ call = "connect" /\ dev.reply.kind = "socket" =>
        fd[dev.reply.val[1]] = made /\ made # 0 /\ got = 0 /\ wire = <<>>

SocketInv == Numbered /\ SessionSocket /\ ConnectSocket

\* A close keeps the caller's error until it returns, its reply means the socket is
\* closed, and after C=0 nothing can open it again.
CloseInv ==
    /\ call = "close" /\ pc \in {"wait"} \cup Writing \cup Owning => net_last_error = arg.cl_err_in
    /\ call = "close" /\ dev.mine /\ dev.state = "valid" => \A i \in Ids : fd[i] # conn
    /\ call = "close" /\ pc = "idle" /\ carry = 0 =>
          Clean(dev) /\ (\A i \in Ids : fd[i] # conn) /\ net_last_error = arg.cl_err_in

\* The task stages a reply: nothing is in hand any more, and the reply is as it says.
LEMMA TaskFacts ==
    ASSUME BaseInv, dev.exec # <<>>, NEW kind, NEW val, dev' = Validate(dev, kind, val), Untouched
    PROVE  /\ Pending' = {} /\ dev'.state = "valid" /\ dev'.mine = dev.mine
           /\ dev'.reply.kind = kind /\ dev'.reply.val = val
           /\ dev.exec[1] \in Pending /\ dev.exec[1] \in Commands
           /\ dev.mine => dev.exec[1] = Command /\ Command.op = call
           /\ UNCHANGED <<call, pc, carry, arg, session, conn, uci_socket_id, net_last_error,
                          net_tcp_state, taken, asked, short, head, tail, tcp_recv_buf>>
<1>1. Coherent(dev)
    BY DEF BaseInv
<1>2. /\ dev'.state = "valid" /\ ~dev'.busy /\ dev'.mine = dev.mine /\ dev'.exec = <<>>
      /\ dev'.reply = [op |-> dev.exec[1].op, kind |-> kind, val |-> val]
    BY <1>1, ValidateFields
<1>3. Pending' = {}
    BY <1>2 DEF Pending
<1>4. dev.exec[1] \in Commands
    BY <1>1 DEF Coherent
<1>5. dev.exec[1] \in Pending
    BY <1>4 DEF Pending
<1>6. dev.mine => dev.exec[1] = Command /\ Command.op = call
    BY CommandType DEF BaseInv, TransactInv, CallInv, TypeInv, Owning
<1>7. dev'.reply.kind = kind /\ dev'.reply.val = val
    BY <1>2
<1>8. UNCHANGED <<call, pc, carry, arg, session, conn, uci_socket_id, net_last_error,
                          net_tcp_state, taken, asked, short, head, tail, tcp_recv_buf>>
    BY DEF Untouched, tcpVars, callVars, progVars, histVars, ringVars
<1> QED BY <1>2, <1>3, <1>4, <1>5, <1>6, <1>7, <1>8

\* The task takes what is queued: it runs a command it had, or has none.
LEMMA TakesFacts ==
    ASSUME BaseInv, TaskTakes
    PROVE  /\ Pending' \subseteq Pending /\ dev'.state # "valid" /\ dev'.mine = dev.mine
           /\ UNCHANGED <<fd, made, got, wire, call, pc, carry, arg, session, conn, uci_socket_id,
                          net_last_error, net_tcp_state, taken, asked, short, head, tail,
                          tcp_recv_buf>>
<1>1. Coherent(dev) /\ TaskFree(dev)
    BY DEF BaseInv, TaskTakes
<1>2. CASE Head(dev.queue) = "abort"
  <2>1. dev'.state = "idle" /\ dev'.mine = dev.mine /\ ~dev'.busy /\ dev'.exec = <<>>
    BY <1>1, <1>2, ResetFields DEF TaskTakes
  <2> QED BY <2>1 DEF Pending, TaskTakes, Untouched, fwVars, tcpVars, callVars, progVars,
             histVars, ringVars
<1>3. CASE Head(dev.queue) # "abort"
  <2>1. /\ dev.busy /\ dev'.state = "busy" /\ dev'.mine = dev.mine /\ ~dev'.busy
        /\ dev'.exec = <<Parsed(dev.buf)>>
    BY <1>1, <1>3, TakeFields DEF TaskTakes
  <2>2. dev'.exec[1] = Parsed(dev.buf)
    BY <2>1
  <2> QED BY <2>1, <2>2 DEF Pending, TaskTakes, Untouched, fwVars, tcpVars, callVars, progVars,
             histVars, ringVars
<1> QED BY <1>2, <1>3

----------------------------------------------------------------------------
\* A session gets its socket from the connect's reply, and its commands name it.
LEMMA SocketAside ==
    ASSUME BaseInv, BaseInv', SocketInv, Aside
    PROVE  SocketInv'
<1>1. fd' = fd /\ made' = made /\ got' = got /\ wire' = wire
    BY AsideSockets DEF fwVars
<1>2. Numbered'
    BY <1>1 DEF SocketInv, Numbered
<1>3. SessionSocket'
  <2> SUFFICES ASSUME session' # "none" PROVE SessionSocket'
    BY DEF SessionSocket
  <2>1. CASE session # "none" /\ conn' = conn /\ uci_socket_id' = uci_socket_id
    <3>1. \A c \in Pending' : c.op \in {"send", "poll", "close"} /\ c.id = uci_socket_id
      <4>1. CASE Pending' \subseteq Pending
        BY <2>1, <4>1 DEF SocketInv, SessionSocket
      <4>2. CASE UciPushWait /\ Pending' \subseteq {Command}
        <5>1. call \in {"send", "poll", "close"}
          BY <2>1, <4>2 DEF UciPushWait, BaseInv, CallInv, TypeInv
        <5> QED BY <4>2, <5>1 DEF Command
      <4> QED BY <4>1, <4>2, PendingAside
    <3> QED BY <1>1, <2>1, <3>1 DEF SocketInv, SessionSocket
  <2>2. ASSUME NEW w \in {FALSE, Wedges}, ConnectReply(w) PROVE SessionSocket'
    <3>1. pc = "read" /\ call = "connect" /\ Drained(w)
      BY <2>2 DEF ConnectReply
    <3>2. Rejected = FALSE /\ Reply = dev.reply /\ dev.mine /\ dev.state = "valid"
      BY <3>1, ReadFacts
    <3>3. session = "none"
      BY <3>1 DEF BaseInv, CallInv
    <3>4. ~w /\ dev.reply.kind = "socket"
      BY <2>2, <3>1, <3>2, <3>3 DEF ConnectReply, Bail, Return, progVars
    <3>5. dev.reply.val[1] \in Ids /\ dev.reply.val[1] # 0
      BY <3>1, <3>2, <3>4, Sizes DEF BaseInv, ReplyInv
    <3>6. uci_socket_id' = dev.reply.val[1] /\ conn' = fd[dev.reply.val[1]]
      BY <2>2, <3>2, <3>4, <3>5 DEF ConnectReply
    <3>7. conn' = made /\ made # 0 /\ made \in Nat
      BY <3>1, <3>2, <3>4, <3>6 DEF SocketInv, ConnectSocket, BaseInv, TypeInv
    <3>8. Pending' = {}
      BY <3>1, DrainedFacts DEF Pending
    <3> QED BY <1>1, <3>5, <3>6, <3>7, <3>8 DEF SocketInv, Numbered, SessionSocket
  <2> QED BY <2>1, <2>2, AsideSession
<1>4. ConnectSocket'
    BY <1>1, AsideReply DEF SocketInv, ConnectSocket
<1> QED BY <1>2, <1>3, <1>4 DEF SocketInv

\* TCP_CONNECT opens a socket that no session has.
LEMMA SocketConnects ==
    ASSUME BaseInv, SocketInv, TaskConnects
    PROVE  SocketInv'
<1>1. dev.exec # <<>> /\ dev.exec[1].op = "connect" /\ Untouched
    BY DEF TaskConnects, Task
<1>2. /\ made \in Nat /\ fd \in [Ids -> Nat]
    BY DEF BaseInv, TypeInv
<1>3. CASE dev' = Validate(dev, "empty", <<>>) /\ UNCHANGED fwVars
  <2>1. Pending' = {} /\ dev'.reply.kind = "empty" /\ UNCHANGED <<session, conn, uci_socket_id>>
    BY <1>1, <1>3, TaskFacts
  <2> QED BY <1>3, <2>1 DEF SocketInv, Numbered, SessionSocket, ConnectSocket, fwVars
<1>4. ASSUME NEW i \in Ids, fd[i] = 0, made' = made + 1, fd' = [fd EXCEPT ![i] = made + 1],
             got' = 0, wire' = <<>>, dev' = Validate(dev, "socket", <<i>>)
      PROVE  SocketInv'
  <2>1. /\ dev'.reply.val = <<i>> /\ dev.exec[1] \in Pending /\ session' = session
    BY <1>1, <1>4, TaskFacts
  <2>2. session = "none"
    BY <1>1, <2>1 DEF SocketInv, SessionSocket
  <2>3. \A j \in Ids : fd'[j] = IF j = i THEN made + 1 ELSE fd[j]
    BY <1>2, <1>4
  <2>4. Numbered'
    BY <1>2, <1>4, <2>3 DEF SocketInv, Numbered
  <2>5. SessionSocket'
    BY <2>1, <2>2 DEF SessionSocket
  <2>6. ConnectSocket'
    BY <1>2, <1>4, <2>1, <2>3 DEF ConnectSocket
  <2> QED BY <2>4, <2>5, <2>6 DEF SocketInv
<1> QED BY <1>3, <1>4 DEF TaskConnects

\* The task's other commands open nothing; what they close is the socket they name.
LEMMA SocketStays ==
    ASSUME BaseInv, SocketInv, dev.exec # <<>>, NEW kind, NEW val,
           dev' = Validate(dev, kind, val), Untouched, dev.exec[1].op # "connect", made' = made,
           fd' \in [Ids -> Nat],
           \A i \in Ids : fd'[i] = fd[i] \/ (i = dev.exec[1].id /\ fd'[i] = 0)
    PROVE  SocketInv'
<1>1. /\ Pending' = {} /\ dev.exec[1] \in Pending /\ UNCHANGED <<session, conn, uci_socket_id,
                                                                 call>>
      /\ dev'.mine = dev.mine /\ (dev.mine => dev.exec[1].op = call)
    BY TaskFacts
<1>2. made \in Nat /\ fd \in [Ids -> Nat]
    BY DEF BaseInv, TypeInv
<1>3. Numbered'
    BY <1>2 DEF SocketInv, Numbered
<1>4. SessionSocket'
    BY <1>1, <1>2 DEF SocketInv, SessionSocket
<1>5. ConnectSocket'
    BY <1>1 DEF ConnectSocket
<1> QED BY <1>3, <1>4, <1>5 DEF SocketInv

\* The firmware's steps keep the sockets apart.
LEMMA SocketFirmware ==
    ASSUME BaseInv, BaseInv', SocketInv, Firmware
    PROVE  SocketInv'
<1>1. fd' \in [Ids -> Nat] /\ fd \in [Ids -> Nat]
    BY DEF BaseInv, TypeInv
<1>2. CASE TaskTakes
    BY <1>2, TakesFacts DEF SocketInv, Numbered, SessionSocket, ConnectSocket
<1>3. CASE TaskConnects
    BY <1>3, SocketConnects
<1>4. CASE TaskReads
  <2>1. /\ dev.exec # <<>> /\ dev.exec[1].op = "poll" /\ Untouched /\ made' = made
        /\ \E kind, val : dev' = Validate(dev, kind, val)
    BY <1>4 DEF TaskReads, Task, fwVars
  <2>2. fd' = fd \/ fd' = [fd EXCEPT ![dev.exec[1].id] = 0]
    BY <1>4 DEF TaskReads, fwVars
  <2>3. \A i \in Ids : fd'[i] = fd[i] \/ (i = dev.exec[1].id /\ fd'[i] = 0)
    BY <1>1, <2>2
  <2> QED BY <1>1, <2>1, <2>3, SocketStays
<1>5. CASE TaskWrites
  <2>1. /\ dev.exec # <<>> /\ dev.exec[1].op = "send" /\ Untouched /\ made' = made /\ fd' = fd
        /\ \E kind, val : dev' = Validate(dev, kind, val)
    BY <1>5 DEF TaskWrites, Task, fwVars
  <2> QED BY <1>1, <2>1, SocketStays
<1>6. CASE TaskCloses
  <2>1. /\ dev.exec # <<>> /\ dev.exec[1].op = "close" /\ Untouched /\ made' = made
        /\ dev' = Validate(dev, "done", <<>>)
        /\ fd' = [i \in Ids |-> IF i = dev.exec[1].id THEN 0 ELSE fd[i]]
    BY <1>6 DEF TaskCloses, Task
  <2>2. \A i \in Ids : fd'[i] = fd[i] \/ (i = dev.exec[1].id /\ fd'[i] = 0)
    BY <2>1
  <2> QED BY <1>1, <2>1, <2>2, SocketStays
<1>7. CASE TaskTellsLease
  <2>1. /\ dev.exec # <<>> /\ dev.exec[1].op \in {"dhcp", "null"} /\ Untouched /\ made' = made
        /\ fd' = fd /\ \E kind, val : dev' = Validate(dev, kind, val)
    BY <1>7 DEF TaskTellsLease, Task, fwVars
  <2> QED BY <1>1, <2>1, SocketStays
<1> QED BY <1>2, <1>3, <1>4, <1>5, <1>6, <1>7 DEF Firmware

----------------------------------------------------------------------------
\* The adapter's steps of a close.
LEMMA CloseAside ==
    ASSUME BaseInv, BaseInv', CloseInv, Aside
    PROVE  CloseInv'
<1>1. fd' = fd
    BY AsideSockets DEF fwVars
<1>2. call' = "close" /\ dev'.mine /\ dev'.state = "valid" => \A i \in Ids : fd'[i] # conn'
    BY <1>1, AsideReply DEF CloseInv
<1>3. ASSUME call' = "close", pc' \in {"wait"} \cup Writing \cup Owning
      PROVE  net_last_error' = arg'.cl_err_in
  <2>1. CASE Program
    <3>1. NetTcpClose \/ NetRecvByte
      BY <1>3, <2>1 DEF Program, NetInit, NetDhcpAcquire, NetTcpConnect, NetPoll, NetTcpSend, Enter
    <3> QED BY <1>3, <3>1 DEF NetTcpClose, NetRecvByte, Enter, NoArg, tcpVars, callVars, CloseInv
  <2>2. CASE UNCHANGED vars
    BY <1>3, <2>2 DEF vars, tcpVars, callVars, CloseInv
  <2>3. CASE EntryPasses \/ (\E part \in 1..2 : WriteCommand(part)) \/ UciPushWait \/ ReplyComes
    BY <1>3, <2>3 DEF EntryPasses, WriteCommand, UciPushWait, ReplyComes, GoOn, tcpVars,
       CloseInv, Writing, Owning
  <2>4. CASE AbortLands
    <3>1. why = "retry"
      BY <1>3, <2>4 DEF AbortLands, Return, Writing, Owning, BaseInv, CallInv
    <3> QED BY <2>4, <3>1 DEF AbortLands
  <2>5. ~(Restart \/ EntryExpires \/ ReplyExpires \/ UciAbort \/ AbortExpires)
    BY <1>3 DEF Restart, Booted, EntryExpires, ReplyExpires, UciAbort, AbortExpires, Return, Bail,
       GoOn, Writing, Owning
  <2>6. ASSUME NEW w, PollReply(w) \/ ConnectReply(w) \/ SendReply(w) \/ CloseReply(w)
                        \/ DhcpReply(w)
        PROVE  FALSE
    BY <1>3, <2>6 DEF PollReply, ConnectReply, SendReply, CloseReply, DhcpReply, Return, Bail,
       GoOn, Writing, Owning
  <2> QED BY <2>1, <2>2, <2>3, <2>4, <2>5, <2>6 DEF Aside, Adapter
<1>4. ASSUME call' = "close", pc' = "idle", carry' = 0
      PROVE  Clean(dev') /\ (\A i \in Ids : fd'[i] # conn') /\ net_last_error' = arg'.cl_err_in
  <2>1. CASE NetRecvByte \/ UNCHANGED vars
    BY <1>4, <2>1 DEF NetRecvByte, vars, fwVars, tcpVars, callVars, histVars, CloseInv
  <2>2. ASSUME NEW w, CloseReply(w)
        PROVE  Clean(dev') /\ (\A i \in Ids : fd'[i] # conn') /\ net_last_error' = arg'.cl_err_in
    <3>1. pc = "read" /\ call = "close" /\ Drained(w) /\ ~w
      BY <1>4, <2>2 DEF CloseReply, Bail
    <3>2. Clean(dev') /\ dev.mine /\ dev.state = "valid"
      BY <3>1, DrainedFacts, ReadFacts
    <3>3. UNCHANGED <<net_last_error, arg, conn>>
      BY <2>2, <3>1 DEF CloseReply, DrainError, histVars
    <3> QED BY <1>1, <3>1, <3>2, <3>3 DEF CloseInv, Owning
  <2>3. ~(NetInit \/ NetDhcpAcquire \/ NetTcpConnect \/ NetPoll \/ NetTcpClose
           \/ \E n \in 1..MaxSend : NetTcpSend(n))
    BY <1>4 DEF NetInit, NetDhcpAcquire, NetTcpConnect, NetPoll, NetTcpSend, NetTcpClose, Enter
  <2>4. ~(Restart \/ EntryPasses \/ (\E part \in 1..2 : WriteCommand(part)) \/ UciPushWait
          \/ ReplyComes \/ UciAbort)
    BY <1>4 DEF Restart, Booted, EntryPasses, WriteCommand, UciPushWait, ReplyComes, UciAbort, GoOn
  <2>5. ~EntryExpires /\ ~ReplyExpires
    BY <1>4 DEF EntryExpires, ReplyExpires, Return, Bail
  <2>6. ~AbortLands /\ ~AbortExpires
    BY <1>4 DEF AbortLands, AbortExpires, Return, GoOn, BaseInv, CallInv
  <2>7. \A w : ~(PollReply(w) \/ ConnectReply(w) \/ SendReply(w) \/ DhcpReply(w))
    BY <1>4 DEF PollReply, ConnectReply, SendReply, DhcpReply, Return, Bail, GoOn
  <2> QED BY <2>1, <2>2, <2>3, <2>4, <2>5, <2>6, <2>7 DEF Aside, Program, Adapter
<1> QED BY <1>2, <1>3, <1>4 DEF CloseInv

\* SOCKET_CLOSE closes the socket the session names, and no other step answers a close.
LEMMA CloseFirmware ==
    ASSUME BaseInv, SocketInv, CloseInv, Firmware
    PROVE  CloseInv'
<1>1. Untouched
    BY DEF Firmware, TaskTakes, TaskConnects, TaskReads, TaskWrites, TaskCloses, TaskTellsLease
<1>2. UNCHANGED <<call, pc, carry, arg, session, conn, uci_socket_id, net_last_error>>
    BY <1>1 DEF Untouched, tcpVars, callVars, progVars, histVars
<1>3. ~Clean(dev)
  <2>1. dev.exec # <<>> \/ dev.queue # <<>>
    BY DEF Firmware, TaskTakes, TaskConnects, TaskReads, TaskWrites, TaskCloses, TaskTellsLease,
       Task, TaskFree
  <2> QED BY <2>1 DEF Clean
<1>4. ASSUME call = "close", dev'.mine, dev'.state = "valid" PROVE \A i \in Ids : fd'[i] # conn
  <2>1. ~TaskTakes
    BY <1>4, TakesFacts
  <2>2. /\ dev.exec # <<>> /\ \E kind, val : dev' = Validate(dev, kind, val)
    BY <2>1 DEF Firmware, TaskConnects, TaskReads, TaskWrites, TaskCloses, TaskTellsLease, Task
  <2>3. dev.mine /\ dev.exec[1] = Command /\ Command.op = "close"
    BY <1>1, <1>4, <2>2, TaskFacts
  <2>4. TaskCloses /\ Command.id = uci_socket_id
    BY <1>4, <2>1, <2>3 DEF Firmware, TaskConnects, TaskReads, TaskWrites, TaskTellsLease, Task,
       Command
  <2>5. \A i \in Ids : fd'[i] = IF i = uci_socket_id THEN 0 ELSE fd[i]
    BY <2>3, <2>4 DEF TaskCloses
  <2>6. session # "none"
    BY <1>4, <2>3 DEF BaseInv, TransactInv, CallInv, Owning
  <2> QED BY <2>5, <2>6 DEF SocketInv, SessionSocket
<1> QED BY <1>2, <1>3, <1>4 DEF CloseInv

----------------------------------------------------------------------------
SocketsInv == BaseInv /\ SocketInv /\ CloseInv

\* The sockets and the close, throughout.
LEMMA SocketsInvariant == Spec => []SocketsInv
<1>1. Init => SocketsInv
  <2> SUFFICES ASSUME Init PROVE SocketsInv
    OBVIOUS
  <2>1. BaseInv /\ dev.mine = FALSE /\ call = "none" /\ session = "none" /\ made = 0
        /\ \A i \in Ids : fd[i] = 0
    BY BaseInitial DEF Init, Quiet
  <2> QED BY <2>1 DEF SocketsInv, SocketInv, CloseInv, Numbered, SessionSocket, ConnectSocket
<1>2. SocketsInv /\ [Next]_vars => SocketsInv'
  <2> SUFFICES ASSUME SocketsInv, [Next]_vars PROVE SocketsInv'
    OBVIOUS
  <2>1. BaseInv /\ BaseInv' /\ SocketInv /\ CloseInv
    BY StepBase DEF SocketsInv
  <2>2. Aside \/ Firmware
    BY DEF Next, Aside
  <2> QED BY <2>1, <2>2, SocketAside, SocketFirmware, CloseAside, CloseFirmware DEF SocketsInv
<1> QED BY <1>1, <1>2, PTL DEF Spec

\* A close that returns C=0 has closed the connection's socket and kept the caller's error.
THEOREM ClosedMeansClosed == Spec => []CloseCloses
<1>1. SocketsInv => CloseCloses
    BY DEF SocketsInv, CloseInv, CloseCloses
<1> QED BY <1>1, SocketsInvariant, PTL

----------------------------------------------------------------------------
(* The bytes sent.                                                          *)

\* A connect starts from an empty history and an empty ring.
Fresh ==
    call = "connect" /\ pc # "idle" =>
        asked = 0 /\ taken = 0 /\ short = FALSE /\ head = 0 /\ tail = 0

\* While the program may still send, only the send in progress has a write in hand.
NoSendLeft ==
    session = "open" /\ (call # "send" \/ pc \in {"idle", "wait"} \cup Writing) =>
        \A c \in Pending : c.op # "send"

\* What the firmware has written of a chunk and the adapter has not counted yet.
Counted ==
    IF dev.mine /\ dev.state = "valid" /\ dev.reply.kind = "count" THEN dev.reply.val[1] ELSE 0

\* The bytes on the wire, in order; the next write continues them; between sends they
\* are all there, and during one they are what its source pointer has passed.
Sent ==
    session # "none" /\ ~short =>
        /\ \A i \in 1..Len(wire) : wire[i] = <<conn, i>>
        /\ \A c \in Pending : c.op = "send" => c.from = Len(wire)
        /\ session = "open" /\ (pc = "idle" \/ call # "send") => Len(wire) = asked
        /\ call = "send" /\ pc \in {"wait"} \cup Writing \cup Owning =>
              /\ arg.uci_send_ptr + arg.uci_send_rem = asked
              /\ Len(wire) = arg.uci_send_ptr + Counted

SendInv == wire \in Seq(Nat \X Nat) /\ Fresh /\ NoSendLeft /\ Sent

----------------------------------------------------------------------------
\* Nothing is sent, read or stored before a connect returns.
LEMMA FreshStep ==
    ASSUME BaseInv, Fresh, [Next]_vars
    PROVE  Fresh'
<1> SUFFICES ASSUME call' = "connect", pc' # "idle"
             PROVE  asked' = 0 /\ taken' = 0 /\ short' = FALSE /\ head' = 0 /\ tail' = 0
    BY DEF Fresh
<1>1. CASE Program
  <2>1. NetTcpConnect
    BY <1>1 DEF Program, NetInit, NetDhcpAcquire, NetPoll, NetTcpSend, NetTcpClose, NetRecvByte,
       Enter, callVars
  <2> QED BY <2>1 DEF NetTcpConnect
<1>2. CASE Firmware \/ UNCHANGED vars
    BY <1>2 DEF Firmware, TaskTakes, TaskConnects, TaskReads, TaskWrites, TaskCloses,
       TaskTellsLease, Untouched, vars, callVars, histVars, ringVars, Fresh
<1>3. CASE Restart
    BY <1>3 DEF Restart, Booted
<1>4. CASE EntryPasses \/ (\E part \in 1..2 : WriteCommand(part)) \/ UciPushWait \/ ReplyComes
           \/ UciAbort \/ EntryExpires \/ ReplyExpires \/ AbortLands \/ AbortExpires
  <2>1. pc # "idle" /\ call' = call /\ UNCHANGED <<histVars, ringVars>>
    BY <1>4 DEF EntryPasses, WriteCommand, UciPushWait, ReplyComes, UciAbort, EntryExpires,
       ReplyExpires, AbortLands, AbortExpires, GoOn, Return, Bail
  <2> QED BY <2>1 DEF Fresh, histVars, ringVars
<1>5. ASSUME NEW w, PollReply(w) \/ ConnectReply(w) \/ SendReply(w) \/ CloseReply(w) \/ DhcpReply(w)
      PROVE  ConnectReply(w)
    BY <1>5 DEF PollReply, SendReply, CloseReply, DhcpReply, GoOn, Return, Bail
<1>6. ASSUME NEW w, ConnectReply(w)
      PROVE  asked' = 0 /\ taken' = 0 /\ short' = FALSE /\ head' = 0 /\ tail' = 0
    BY <1>6 DEF ConnectReply, Fresh, ringVars
<1> QED BY <1>1, <1>2, <1>3, <1>4, <1>5, <1>6 DEF Next, Adapter

\* A write in hand belongs to the send in progress or to a session that is broken.
LEMMA NoSendStep ==
    ASSUME BaseInv, NoSendLeft, [Next]_vars
    PROVE  NoSendLeft'
<1> SUFFICES ASSUME session' = "open", call' # "send" \/ pc' \in {"idle", "wait"} \cup Writing
             PROVE  \A c \in Pending' : c.op # "send"
    BY DEF NoSendLeft
<1>1. CASE Aside
  <2>1. ASSUME NEW w, pc = "read", Drained(w) PROVE Pending' = {}
    BY <2>1, DrainedFacts DEF Pending
  <2>2. CASE UciPushWait /\ Pending' \subseteq {Command}
    BY <2>2 DEF UciPushWait, GoOn, Command, Writing
  <2>3. CASE Pending' \subseteq Pending /\ ~UciPushWait
              /\ ~(\E w \in {FALSE, Wedges} : pc = "read" /\ Drained(w))
    <3>1. session = "open"
      BY <1>1, <2>3, AsideSession DEF ConnectReply
    <3>2. call # "send" \/ pc \in {"idle", "wait"} \cup Writing
      <4>1. CASE Program
        BY <4>1 DEF Program, NetInit, NetDhcpAcquire, NetTcpConnect, NetPoll, NetTcpSend,
           NetTcpClose, NetRecvByte, Enter
      <4>2. CASE UNCHANGED vars
        BY <4>2 DEF vars, callVars
      <4>3. CASE EntryPasses \/ (\E part \in 1..2 : WriteCommand(part)) \/ ReplyComes \/ UciAbort
        BY <4>3 DEF EntryPasses, WriteCommand, ReplyComes, UciAbort, GoOn, Writing
      <4>4. CASE EntryExpires \/ ReplyExpires
        BY <4>4 DEF EntryExpires, ReplyExpires, Return, Bail, Writing
      <4>5. CASE AbortLands \/ AbortExpires
        BY <4>5 DEF AbortLands, AbortExpires, Return, GoOn, BaseInv, CallInv
      <4>6. ~Restart
        BY DEF Restart, Booted
      <4>7. \A w \in {FALSE, Wedges} : ~(PollReply(w) \/ ConnectReply(w) \/ SendReply(w)
                                         \/ CloseReply(w) \/ DhcpReply(w))
        BY <2>3 DEF PollReply, ConnectReply, SendReply, CloseReply, DhcpReply
      <4> QED BY <1>1, <2>3, <4>1, <4>2, <4>3, <4>4, <4>5, <4>6, <4>7 DEF Aside, Adapter
    <3> QED BY <2>3, <3>1, <3>2 DEF NoSendLeft
  <2>4. CASE UciPushWait /\ Pending' \subseteq Pending
    <3>1. Pending = {}
      BY <2>4 DEF UciPushWait, BaseInv, TransactInv, Writing, FullyIdle, Coherent, Pending
    <3> QED BY <2>4, <3>1
  <2> QED BY <1>1, <2>1, <2>2, <2>3, <2>4, PendingAside
<1>2. CASE TaskTakes
    BY <1>2, TakesFacts DEF NoSendLeft
<1>3. CASE Firmware /\ ~TaskTakes
  <2>1. dev.exec # <<>> /\ Untouched /\ \E kind, val : dev' = Validate(dev, kind, val)
    BY <1>3 DEF Firmware, TaskConnects, TaskReads, TaskWrites, TaskCloses, TaskTellsLease, Task
  <2> QED BY <2>1, TaskFacts
<1> QED BY <1>1, <1>2, <1>3 DEF Next, Aside

\* The first half of Sent: what is on the wire, and what the next write will add.
LEMMA WireAside ==
    ASSUME BaseInv, SocketInv, SendInv, Aside, session' # "none", ~short'
    PROVE  /\ wire' = wire
           /\ \A i \in 1..Len(wire') : wire'[i] = <<conn', i>>
           /\ \A c \in Pending' : c.op = "send" => c.from = Len(wire')
<1>1. wire' = wire
    BY AsideSockets DEF fwVars
<1>2. ASSUME NEW w, ConnectReply(w)
      PROVE  wire = <<>> /\ Pending' = {}
  <2>1. pc = "read" /\ call = "connect" /\ Drained(w) /\ session = "none"
    BY <1>2 DEF ConnectReply, BaseInv, CallInv
  <2>2. Rejected = FALSE /\ Reply = dev.reply /\ dev.mine /\ dev.state = "valid"
    BY <2>1, ReadFacts
  <2>3. dev.reply.kind = "socket"
    BY <1>2, <2>1, <2>2 DEF ConnectReply, Bail, Return, progVars
  <2>4. Pending' = {}
    BY <2>1, DrainedFacts DEF Pending
  <2> QED BY <2>1, <2>2, <2>3, <2>4 DEF SocketInv, ConnectSocket
<1>3. CASE \E w \in {FALSE, Wedges} : ConnectReply(w)
    BY <1>1, <1>2, <1>3
<1>4. CASE /\ session # "none" /\ conn' = conn /\ uci_socket_id' = uci_socket_id
           /\ (short => short') /\ (session' = "open" => session = "open")
  <2>1. /\ \A i \in 1..Len(wire) : wire[i] = <<conn, i>>
        /\ \A c \in Pending : c.op = "send" => c.from = Len(wire)
    BY <1>4 DEF SendInv, Sent
  <2>2. CASE Pending' \subseteq Pending
    BY <1>1, <1>4, <2>1, <2>2
  <2>3. CASE UciPushWait /\ Pending' \subseteq {Command}
    <3>1. call = "send" => Len(wire) = arg.uci_send_ptr + Counted
      BY <1>4, <2>3 DEF UciPushWait, Writing, SendInv, Sent
    <3>2. Counted = 0 /\ arg.uci_send_ptr \in Nat
      BY <2>3 DEF UciPushWait, Counted, BaseInv, TransactInv, TypeInv, Owning
    <3>3. Command.op = "send" => Command.from = Len(wire)
      BY <3>1, <3>2 DEF Command
    <3> QED BY <1>1, <1>4, <2>1, <2>3, <3>3
  <2> QED BY <2>2, <2>3, PendingAside
<1> QED BY <1>1, <1>3, <1>4, AsideSession

\* The source advances by what was written.
LEMMA SentReply ==
    ASSUME BaseInv, SendInv, NEW w, SendReply(w), wire' = wire, ~short',
           \/ session' = "open" /\ (pc' = "idle" \/ call' # "send")
           \/ call' = "send" /\ pc' \in {"wait"} \cup Writing \cup Owning
    PROVE  /\ pc' = "idle" => Len(wire) = asked'
           /\ pc' # "idle" => /\ arg'.uci_send_ptr + arg'.uci_send_rem = asked'
                              /\ Len(wire) = arg'.uci_send_ptr + Counted'
<1> DEFINE n == dev.reply.val[1]
<1>1. pc = "read" /\ call = "send" /\ Drained(w) /\ asked' = asked /\ call' = call
    BY DEF SendReply, Return, Bail, GoOn
<1>2. Rejected = FALSE /\ Reply = dev.reply /\ dev.mine /\ dev.state = "valid"
    BY <1>1, ReadFacts
<1>3. session = "open" /\ ~short
    BY <1>1 DEF BaseInv, CallInv, SendReply
<1>4. ~w /\ dev.reply.kind = "count"
    BY <1>1, <1>2, <1>3 DEF SendReply, Return, Bail, Writing, Owning
<1>5. /\ n # 0 /\ (pc' = "idle" => arg.uci_send_rem - n = 0)
      /\ arg' = [arg EXCEPT !.uci_send_rem = arg.uci_send_rem - n, !.uci_send_ptr = @ + n]
    BY <1>2, <1>4 DEF SendReply, Return, GoOn
<1>6. arg.uci_send_ptr + arg.uci_send_rem = asked /\ Len(wire) = arg.uci_send_ptr + n
    BY <1>1, <1>2, <1>3, <1>4 DEF SendInv, Sent, Counted, Owning
<1>7. n \in 0..ChunkLen
    BY <1>1, <1>2, <1>4 DEF BaseInv, ReplyInv
<1>8. ChunkLen \in Nat /\ arg.uci_send_ptr \in Nat /\ arg.uci_send_rem \in Nat
    BY LeastType, Sizes DEF BaseInv, TypeInv, ChunkLen
<1>9. Counted' = 0
  <2>1. ~dev'.mine
    BY <1>1, DrainedFacts
  <2> QED BY <2>1 DEF Counted
<1>10. arg'.uci_send_ptr = arg.uci_send_ptr + n /\ arg'.uci_send_rem = arg.uci_send_rem - n
    BY <1>5 DEF BaseInv, TypeInv
<1> HIDE DEF n
<1> QED BY <1>1, <1>5, <1>6, <1>7, <1>8, <1>9, <1>10

\* The adapter's steps keep the account of what was sent.
LEMMA SentAside ==
    ASSUME BaseInv, BaseInv', SocketInv, SendInv, Aside
    PROVE  Sent'
<1> SUFFICES ASSUME session' # "none", ~short' PROVE Sent'
    BY DEF Sent
<1>1. /\ wire' = wire
      /\ \A i \in 1..Len(wire') : wire'[i] = <<conn', i>>
      /\ \A c \in Pending' : c.op = "send" => c.from = Len(wire')
    BY WireAside
<1> SUFFICES /\ session' = "open" /\ (pc' = "idle" \/ call' # "send") => Len(wire) = asked'
             /\ call' = "send" /\ pc' \in {"wait"} \cup Writing \cup Owning =>
                    /\ arg'.uci_send_ptr + arg'.uci_send_rem = asked'
                    /\ Len(wire) = arg'.uci_send_ptr + Counted'
    BY <1>1 DEF Sent
<1>2. ASSUME NEW w, ConnectReply(w)
      PROVE  call' = "connect" /\ asked' = 0 /\ wire = <<>>
  <2>1. pc = "read" /\ call = "connect" /\ Drained(w) /\ session = "none" /\ call' = call
    BY <1>2 DEF ConnectReply, BaseInv, CallInv, Return, Bail
  <2>2. Rejected = FALSE /\ Reply = dev.reply /\ dev.mine /\ dev.state = "valid"
    BY <2>1, ReadFacts
  <2>3. dev.reply.kind = "socket"
    BY <1>2, <2>1, <2>2 DEF ConnectReply, Bail, Return, progVars
  <2> QED BY <1>2, <2>1, <2>2, <2>3 DEF SocketInv, ConnectSocket, SendInv, Fresh, ConnectReply
<1>3. CASE \E w \in {FALSE, Wedges} : ConnectReply(w)
    BY <1>2, <1>3
<1>4. CASE /\ session # "none" /\ conn' = conn /\ uci_socket_id' = uci_socket_id
           /\ (short => short') /\ (session' = "open" => session = "open")
  <2>1. /\ session = "open" /\ (pc = "idle" \/ call # "send") => Len(wire) = asked
        /\ call = "send" /\ pc \in {"wait"} \cup Writing \cup Owning =>
              /\ arg.uci_send_ptr + arg.uci_send_rem = asked
              /\ Len(wire) = arg.uci_send_ptr + Counted
    BY <1>4 DEF SendInv, Sent
  <2>2. CASE Program
    <3>1. dev' = dev /\ pc = "idle" /\ Counted' = 0
      <4>1. dev' = dev /\ pc = "idle"
        BY <2>2 DEF Program, NetInit, NetDhcpAcquire, NetTcpConnect, NetPoll, NetTcpSend,
           NetTcpClose, NetRecvByte, Enter
      <4> QED BY <4>1 DEF Counted, BaseInv, TransactInv, Owning
    <3>2. CASE NetInit \/ NetDhcpAcquire \/ NetTcpConnect \/ NetPoll \/ NetTcpClose
      <4>1. call' # "send" /\ asked' = asked
        BY <1>4, <3>2 DEF NetInit, NetDhcpAcquire, NetTcpConnect, NetPoll, NetTcpClose, Enter,
           histVars, BetweenFetches
      <4> QED BY <1>4, <2>1, <3>1, <4>1
    <3>3. CASE NetRecvByte
      <4>1. UNCHANGED <<call, pc, asked>>
        BY <3>3 DEF NetRecvByte, callVars
      <4> QED BY <1>4, <2>1, <3>1, <4>1 DEF Writing, Owning
    <3>4. ASSUME NEW n \in 1..MaxSend, NetTcpSend(n)
          PROVE  /\ call' = "send" /\ pc' = "wait"
                 /\ arg'.uci_send_ptr + arg'.uci_send_rem = asked'
                 /\ Len(wire) = arg'.uci_send_ptr + Counted'
      <4>1. /\ call' = "send" /\ pc' = "wait" /\ session = "open" /\ asked' = asked + n
            /\ arg'.uci_send_ptr = asked /\ arg'.uci_send_rem = n
        BY <3>4 DEF NetTcpSend, Enter, NoArg
      <4>2. asked \in Nat
        BY DEF BaseInv, TypeInv
      <4> QED BY <2>1, <3>1, <4>1, <4>2
    <3> QED BY <2>2, <3>2, <3>3, <3>4 DEF Program
  <2>3. CASE EntryPasses \/ (\E part \in 1..2 : WriteCommand(part)) \/ UciPushWait \/ ReplyComes
             \/ UciAbort
    <3>1. /\ UNCHANGED <<call, asked, arg>> /\ pc # "idle" /\ pc' # "idle"
          /\ pc' \in {"wait"} \cup Writing \cup Owning => pc \in {"wait"} \cup Writing \cup Owning
      BY <2>3 DEF EntryPasses, WriteCommand, UciPushWait, ReplyComes, UciAbort, GoOn, histVars,
         Writing, Owning
    <3>2. CASE dev'.mine /\ dev'.state = "valid"
      <4>1. Counted' = Counted
        BY <3>2, AsideReply DEF Counted
      <4> QED BY <1>4, <2>1, <3>1, <4>1
    <3>3. CASE ~(dev'.mine /\ dev'.state = "valid")
      <4>1. Counted' = 0
        BY <3>3 DEF Counted
      <4>2. dev' = dev \/ ~dev.mine
        BY <2>3 DEF EntryPasses, WriteCommand, UciPushWait, ReplyComes, UciAbort, BaseInv,
           TransactInv, Owning
      <4>3. Counted = 0
        BY <3>3, <4>2 DEF Counted
      <4> QED BY <1>4, <2>1, <3>1, <4>1, <4>3
    <3> QED BY <3>2, <3>3
  <2>4. CASE EntryExpires \/ ReplyExpires
    <3>1. /\ UNCHANGED <<call, asked>> /\ pc' \in {"idle", "abort"}
          /\ pc' = "idle" /\ call = "send" => session' = "broken"
      BY <2>4 DEF EntryExpires, ReplyExpires, Return, Bail, histVars
    <3> QED BY <1>4, <2>1, <3>1 DEF Writing, Owning
  <2>5. CASE AbortLands \/ AbortExpires
    <3>1. /\ UNCHANGED <<call, asked>>
          /\ call = "send" => session' = "broken" /\ pc' = "idle"
      BY <2>5 DEF AbortLands, AbortExpires, Return, GoOn, histVars, BaseInv, CallInv
    <3> QED BY <1>4, <2>1, <3>1 DEF Writing, Owning
  <2>6. ASSUME NEW w, PollReply(w) \/ CloseReply(w) \/ DhcpReply(w)
        PROVE  UNCHANGED <<call, asked>> /\ call # "send"
    BY <2>6 DEF PollReply, CloseReply, DhcpReply, Return, Bail, GoOn, histVars
  <2>7. CASE \E w \in {FALSE, Wedges} : PollReply(w) \/ CloseReply(w) \/ DhcpReply(w)
    BY <1>4, <2>1, <2>6, <2>7
  <2>8. ASSUME NEW w, SendReply(w)
        PROVE  /\ session' = "open" /\ (pc' = "idle" \/ call' # "send") => Len(wire) = asked'
               /\ call' = "send" /\ pc' \in {"wait"} \cup Writing \cup Owning =>
                      /\ arg'.uci_send_ptr + arg'.uci_send_rem = asked'
                      /\ Len(wire) = arg'.uci_send_ptr + Counted'
    <3>1. call' = "send"
      BY <2>8 DEF SendReply, Return, Bail, GoOn
    <3> QED BY <1>1, <2>8, <3>1, SentReply DEF Writing, Owning
  <2>9. CASE UNCHANGED vars
    BY <1>4, <2>1, <2>9 DEF vars, callVars, histVars, progVars, Counted
  <2>10. ~Restart
    BY DEF Restart, Booted
  <2> QED BY <1>3, <2>2, <2>3, <2>4, <2>5, <2>7, <2>8, <2>9, <2>10 DEF Aside, Adapter
<1> QED BY <1>3, <1>4, AsideSession

\* n bytes written behind m make m + n in order.
LEMMA WriteOn ==
    ASSUME NEW s \in Nat, NEW w \in Seq(Nat \X Nat), NEW n \in Nat
    PROVE  LET v == w \o [i \in 1..n |-> <<s, Len(w) + i>>]
           IN  /\ v \in Seq(Nat \X Nat) /\ Len(v) = Len(w) + n
               /\ (\A i \in 1..Len(w) : w[i] = <<s, i>>) => \A i \in 1..Len(v) : v[i] = <<s, i>>
<1> DEFINE t == [i \in 1..n |-> <<s, Len(w) + i>>]
           v == w \o t
<1>1. Len(w) \in Nat
    OBVIOUS
<1>2. t \in Seq(Nat \X Nat) /\ Len(t) = n
  <2>1. \A i \in 1..n : <<s, Len(w) + i>> \in Nat \X Nat
    BY <1>1
  <2> QED BY <2>1
<1>3. \A i \in 1..n : t[i] = <<s, Len(w) + i>>
    OBVIOUS
<1> HIDE DEF t
<1>4. v \in Seq(Nat \X Nat)
    BY <1>2, ConcatProperties
<1>5. Len(v) = Len(w) + n
    BY <1>2, ConcatProperties
<1>6. \A i \in 1..Len(w) + n : v[i] = IF i <= Len(w) THEN w[i] ELSE t[i - Len(w)]
    BY <1>2, ConcatProperties
<1> HIDE DEF v
<1>7. ASSUME \A i \in 1..Len(w) : w[i] = <<s, i>>, NEW i \in 1..Len(v)
      PROVE  v[i] = <<s, i>>
  <2>1. CASE i <= Len(w)
    <3>1. i \in 1..Len(w) /\ i \in 1..Len(w) + n
      BY <1>1, <1>5, <2>1
    <3>2. v[i] = w[i]
      BY <1>6, <2>1, <3>1
    <3> QED BY <1>7, <3>1, <3>2
  <2>2. CASE i > Len(w)
    <3>1. i - Len(w) \in 1..n /\ Len(w) + (i - Len(w)) = i
      BY <1>1, <1>5, <2>2
    <3>2. v[i] = t[i - Len(w)]
      BY <1>1, <1>5, <1>6, <2>2
    <3>3. t[i - Len(w)] = <<s, Len(w) + (i - Len(w))>>
      BY <1>3, <3>1
    <3> QED BY <3>1, <3>2, <3>3
  <2> QED BY <1>1, <1>5, <2>1, <2>2
<1>8. v \in Seq(Nat \X Nat) /\ Len(v) = Len(w) + n
    BY <1>4, <1>5
<1> QED BY <1>7, <1>8 DEF t, v

\* Taking a command writes nothing.
LEMMA SentTakes ==
    ASSUME BaseInv, SendInv, TaskTakes
    PROVE  Sent'
<1>1. /\ Pending' \subseteq Pending /\ dev'.state # "valid"
      /\ UNCHANGED <<wire, call, pc, arg, session, conn, asked, short>>
    BY TakesFacts
<1>2. ~(dev.mine /\ dev.state = "valid")
    BY DEF TaskTakes, TaskFree, BaseInv, TransactInv, Coherent
<1>3. Counted' = 0 /\ Counted = 0
    BY <1>1, <1>2 DEF Counted
<1> QED BY <1>1, <1>3 DEF SendInv, Sent

\* A reply that is no write's leaves the wire and the count alone.
LEMMA SentStays ==
    ASSUME BaseInv, SendInv, dev.exec # <<>>, NEW kind, NEW val, dev' = Validate(dev, kind, val),
           Untouched, wire' = wire, kind # "count"
    PROVE  Sent'
<1>1. /\ Pending' = {} /\ dev'.reply.kind = kind
      /\ UNCHANGED <<call, pc, arg, session, conn, asked, short>>
    BY TaskFacts
<1>2. dev.state = "busy"
    BY DEF BaseInv, Coherent
<1>3. Counted' = 0 /\ Counted = 0
    BY <1>1, <1>2 DEF Counted
<1> QED BY <1>1, <1>3 DEF SendInv, Sent

\* SOCKET_WRITE goes on where the wire ends.
LEMMA SentWrites ==
    ASSUME BaseInv, SocketInv, SendInv, TaskWrites
    PROVE  wire' \in Seq(Nat \X Nat) /\ Sent'
<1> DEFINE c == dev.exec[1]
<1>1. dev.exec # <<>> /\ c.op = "send" /\ Untouched
    BY DEF TaskWrites, Task
<1>2. CASE dev' = Validate(dev, "failed", <<>>) /\ UNCHANGED fwVars
  <2>1. wire' = wire
    BY <1>2 DEF fwVars
  <2> QED BY <1>1, <1>2, <2>1, SentStays DEF SendInv
<1>3. ASSUME NEW n \in 0..c.arg, Serial # 0, dev' = Validate(dev, "count", <<n>>),
             wire' = wire \o [i \in 1..n |-> <<Serial, c.from + i>>]
      PROVE  wire' \in Seq(Nat \X Nat) /\ Sent'
  <2>1. /\ Pending' = {} /\ dev'.state = "valid" /\ dev'.mine = dev.mine
        /\ dev'.reply.kind = "count" /\ dev'.reply.val = <<n>> /\ c \in Pending /\ c \in Commands
        /\ (dev.mine => c = Command /\ Command.op = call)
        /\ UNCHANGED <<call, pc, arg, session, conn, asked, short>>
    BY <1>1, <1>3, TaskFacts
  <2>2. n \in Nat /\ c.from \in Nat /\ Serial \in Nat
    BY <2>1, <1>3, SMTT(30) DEF Commands, Serial, BaseInv, TypeInv
  <2>3. wire \in Seq(Nat \X Nat)
    BY DEF SendInv
  <2>4. wire' \in Seq(Nat \X Nat)
    <3> DEFINE t == [i \in 1..n |-> <<Serial, c.from + i>>]
    <3>1. \A i \in 1..n : <<Serial, c.from + i>> \in Nat \X Nat
      BY <2>2
    <3>2. t \in Seq(Nat \X Nat)
      BY <2>2, <3>1
    <3>3. wire' = wire \o t
      BY <1>3
    <3> HIDE DEF t
    <3> QED BY <2>3, <3>2, <3>3, ConcatProperties
  <2>5. ASSUME session # "none", ~short PROVE Sent'
    <3>1. c.from = Len(wire) /\ c.id = uci_socket_id
      BY <1>1, <2>1, <2>5 DEF SendInv, Sent, SocketInv, SessionSocket
    <3>2. Serial = conn
      BY <1>3, <2>5, <3>1 DEF Serial, SocketInv, SessionSocket
    <3>3. wire' = wire \o [i \in 1..n |-> <<conn, Len(wire) + i>>]
      BY <1>3, <3>1, <3>2
    <3>4. conn \in Nat
      BY <2>2, <3>2
    <3>5. Len(wire') = Len(wire) + n
      BY <2>2, <2>3, <3>3, <3>4, WriteOn
    <3>6. (\A i \in 1..Len(wire) : wire[i] = <<conn, i>>)
             => \A i \in 1..Len(wire') : wire'[i] = <<conn, i>>
      BY <2>2, <2>3, <3>3, <3>4, WriteOn
    <3>7. \A i \in 1..Len(wire') : wire'[i] = <<conn', i>>
      BY <2>1, <2>5, <3>6 DEF SendInv, Sent
    <3>8. ~(session = "open" /\ (call # "send" \/ pc \in {"idle", "wait"} \cup Writing))
      BY <1>1, <2>1 DEF SendInv, NoSendLeft
    <3>9. ASSUME call = "send", pc \in {"wait"} \cup Writing \cup Owning
          PROVE  /\ arg.uci_send_ptr + arg.uci_send_rem = asked
                 /\ Len(wire') = arg.uci_send_ptr + Counted'
      <4>1. session = "open"
        BY <3>9 DEF BaseInv, CallInv, Writing, Owning
      <4>2. pc \in Owning /\ dev.mine
        BY <3>8, <3>9, <4>1 DEF BaseInv, TransactInv
      <4>3. arg.uci_send_ptr + arg.uci_send_rem = asked
        BY <2>5, <3>9 DEF SendInv, Sent
      <4>4. Len(wire) = arg.uci_send_ptr
        BY <3>1, <3>9, <4>2, <2>1 DEF Command
      <4>5. Counted' = n
        BY <2>1, <4>2 DEF Counted
      <4> QED BY <3>5, <4>3, <4>4, <4>5
    <3> QED BY <2>1, <3>7, <3>8, <3>9 DEF Sent
  <2> QED BY <2>1, <2>4, <2>5 DEF Sent
<1> QED BY <1>2, <1>3 DEF TaskWrites

\* Every step keeps the account of what was sent.
LEMMA SendStep ==
    ASSUME BaseInv, BaseInv', SocketInv, SendInv, [Next]_vars
    PROVE  SendInv'
<1>1. Fresh' /\ NoSendLeft'
    BY FreshStep, NoSendStep DEF SendInv
<1>2. CASE Aside
    BY <1>1, <1>2, SentAside, AsideSockets DEF SendInv, fwVars
<1>3. CASE TaskTakes
    BY <1>1, <1>3, SentTakes, TakesFacts DEF SendInv
<1>4. CASE TaskConnects
  <2>1. dev.exec # <<>> /\ dev.exec[1].op = "connect" /\ Untouched
        /\ \E kind, val : dev' = Validate(dev, kind, val)
    BY <1>4 DEF TaskConnects, Task
  <2>2. dev.exec[1] \in Pending /\ session' = session
    BY <2>1, TaskFacts
  <2>3. session' = "none"
    BY <2>1, <2>2 DEF SocketInv, SessionSocket
  <2>4. wire' \in Seq(Nat \X Nat)
    <3>1. wire' = wire \/ wire' = <<>>
      BY <1>4 DEF TaskConnects, fwVars
    <3>2. <<>> \in Seq(Nat \X Nat)
      OBVIOUS
    <3> QED BY <3>1, <3>2 DEF SendInv
  <2> QED BY <1>1, <2>3, <2>4 DEF SendInv, Sent
<1>5. CASE TaskWrites
    BY <1>1, <1>5, SentWrites DEF SendInv
<1>6. CASE TaskReads \/ TaskCloses \/ TaskTellsLease
  <2>1. dev.exec # <<>> /\ Untouched /\ wire' = wire
    BY <1>6 DEF TaskReads, TaskCloses, TaskTellsLease, Task, fwVars
  <2>2. CASE TaskReads
    <3>1. \E kind \in {"dead", "idle", "eof", "data"} : \E val : dev' = Validate(dev, kind, val)
      BY <2>2 DEF TaskReads
    <3> QED BY <1>1, <2>1, <3>1, SentStays DEF SendInv
  <2>3. CASE TaskCloses
    <3>1. dev' = Validate(dev, "done", <<>>)
      BY <2>3 DEF TaskCloses
    <3> QED BY <1>1, <2>1, <3>1, SentStays DEF SendInv
  <2>4. CASE TaskTellsLease
    <3>1. \E kind \in {"lease", "zero", "empty"} : dev' = Validate(dev, kind, <<>>)
      BY <2>4 DEF TaskTellsLease
    <3> QED BY <1>1, <2>1, <3>1, SentStays DEF SendInv
  <2> QED BY <1>6, <2>2, <2>3, <2>4
<1> QED BY <1>2, <1>3, <1>4, <1>5, <1>6 DEF Next, Aside, Firmware

\* The account of what was sent, throughout.
LEMMA SendInvariant == Spec => []SendInv
<1>1. Init => SendInv
    BY DEF Init, SendInv, Fresh, NoSendLeft, Sent
<1>2. SocketsInv /\ SocketsInv' /\ SendInv /\ [Next]_vars => SendInv'
    BY SendStep DEF SocketsInv
<1> QED BY <1>1, <1>2, SocketsInvariant, PTL DEF Spec

\* What the peer got is what the program sent, in order and once each.
THEOREM EachByteOnce == Spec => []SentOnce
<1>1. SendInv => SentOnce
  <2> SUFFICES ASSUME SendInv, session # "none", ~short
               PROVE  /\ wire = [i \in 1..Len(wire) |-> <<conn, i>>]
                      /\ (session = "open" /\ pc = "idle") => Len(wire) = asked
    BY DEF SentOnce
  <2>1. /\ wire \in Seq(Nat \X Nat) /\ \A i \in 1..Len(wire) : wire[i] = <<conn, i>>
        /\ (session = "open" /\ pc = "idle") => Len(wire) = asked
    BY DEF SendInv, Sent
  <2>2. wire = [i \in 1..Len(wire) |-> wire[i]]
    BY <2>1
  <2> QED BY <2>1, <2>2
<1> QED BY <1>1, SendInvariant, PTL

----------------------------------------------------------------------------
(* The ring, without the remainders.                                        *)

\* A remainder below two turns.
LEMMA Wrap ==
    ASSUME NEW a \in Nat, a < RingSize + RingSize
    PROVE  a % RingSize = IF a < RingSize THEN a ELSE a - RingSize
<1>1. RingSize \in Nat /\ RingSize > 0
    BY Sizes
<1>2. CASE a < RingSize
    BY <1>1, <1>2
<1>3. CASE a >= RingSize
  <2>1. (a - RingSize) % RingSize = a - RingSize
    BY <1>1, <1>3
  <2>2. a % RingSize = (a - RingSize) % RingSize
    BY <1>1, <1>3
  <2> QED BY <1>1, <1>3, <2>1, <2>2
<1> QED BY <1>1, <1>2, <1>3

\* h and t are head and tail.
LEMMA RingIs ==
    ASSUME NEW h \in 0..RingSize-1, NEW t \in 0..RingSize-1
    PROVE  /\ (t + RingSize - h) % RingSize = IF t >= h THEN t - h ELSE t + RingSize - h
           /\ (h + RingSize - t - 1) % RingSize = IF t >= h THEN h + RingSize - t - 1 ELSE h - t - 1
           /\ \A i \in 0..RingSize-1 :
                 (h + i) % RingSize = IF h + i < RingSize THEN h + i ELSE h + i - RingSize
<1>1. RingSize \in Nat /\ RingSize > 0 /\ h \in Nat /\ t \in Nat /\ h < RingSize /\ t < RingSize
    BY Sizes
<1>2. (t + RingSize - h) % RingSize = IF t >= h THEN t - h ELSE t + RingSize - h
  <2>1. t + RingSize - h \in Nat /\ t + RingSize - h < RingSize + RingSize
    BY <1>1
  <2> DEFINE a == t + RingSize - h
  <2>2. a % RingSize = IF a < RingSize THEN a ELSE a - RingSize
    <3> HIDE DEF a
    <3> QED BY <2>1, Wrap DEF a
  <2> QED BY <1>1, <2>2
<1>3. (h + RingSize - t - 1) % RingSize = IF t >= h THEN h + RingSize - t - 1 ELSE h - t - 1
  <2>1. h + RingSize - t - 1 \in Nat /\ h + RingSize - t - 1 < RingSize + RingSize
    BY <1>1
  <2> DEFINE a == h + RingSize - t - 1
  <2>2. a % RingSize = IF a < RingSize THEN a ELSE a - RingSize
    <3> HIDE DEF a
    <3> QED BY <2>1, Wrap DEF a
  <2> QED BY <1>1, <2>2
<1>4. ASSUME NEW i \in 0..RingSize-1
      PROVE  (h + i) % RingSize = IF h + i < RingSize THEN h + i ELSE h + i - RingSize
  <2> DEFINE a == h + i
  <2>1. a \in Nat /\ a < RingSize + RingSize
    BY <1>1
  <2>2. a % RingSize = IF a < RingSize THEN a ELSE a - RingSize
    <3> HIDE DEF a
    <3> QED BY <2>1, Wrap
  <2> QED BY <1>1, <2>1, <2>2
<1> QED BY <1>2, <1>3, <1>4

\* What the ring holds and what it has room for make up its size less one.
LEMMA UsedRoom ==
    ASSUME head \in 0..RingSize-1, tail \in 0..RingSize-1
    PROVE  /\ Used = (IF tail >= head THEN tail - head ELSE tail + RingSize - head)
           /\ Used \in 0..RingSize-1 /\ Room = RingSize - 1 - Used
<1>1. Used = (IF tail >= head THEN tail - head ELSE tail + RingSize - head)
    BY RingIs DEF Used
<1>2. Room = (IF tail >= head THEN head + RingSize - tail - 1 ELSE head - tail - 1)
    BY RingIs DEF Room
<1> QED BY <1>1, <1>2, Sizes

\* The oldest byte is taken: the others move up by one.
LEMMA RingTaken ==
    ASSUME head \in 0..RingSize-1, tail \in 0..RingSize-1, head # tail,
           head' = (head + 1) % RingSize, UNCHANGED <<tail, tcp_recv_buf>>
    PROVE  /\ Used' = Used - 1 /\ Used \in Nat
           /\ \A i \in 0..Used'-1 : RingAt(i)' = RingAt(i + 1)
<1>0. RingSize \in Nat /\ RingSize > 1
    BY Sizes
<1>1. head' = (IF head + 1 < RingSize THEN head + 1 ELSE head + 1 - RingSize)
    BY <1>0, RingIs
<1>2. head' \in 0..RingSize-1 /\ tail' \in 0..RingSize-1
    BY <1>0, <1>1
<1>3. Used = (IF tail >= head THEN tail - head ELSE tail + RingSize - head)
    BY UsedRoom
<1>4. Used' = (IF tail' >= head' THEN tail' - head' ELSE tail' + RingSize - head')
    BY <1>2, RingIs DEF Used
<1>5. Used' = Used - 1 /\ Used \in Nat /\ Used \in 0..RingSize-1
    BY <1>0, <1>1, <1>3, <1>4
<1>6. ASSUME NEW i \in 0..Used'-1 PROVE RingAt(i)' = RingAt(i + 1)
  <2>1. i \in 0..RingSize-1 /\ i + 1 \in 0..RingSize-1
    BY <1>0, <1>5
  <2>2. (head' + i) % RingSize = IF head' + i < RingSize THEN head' + i ELSE head' + i - RingSize
    BY <1>2, <2>1, RingIs
  <2>3. (head + (i + 1)) % RingSize
          = IF head + (i + 1) < RingSize THEN head + (i + 1) ELSE head + (i + 1) - RingSize
    BY <2>1, RingIs
  <2>4. (head' + i) % RingSize = (head + (i + 1)) % RingSize
    BY <1>0, <1>1, <2>1, <2>2, <2>3
  <2> QED BY <2>4 DEF RingAt
<1> QED BY <1>5, <1>6

\* Bytes the ring has room for are stored behind those it holds.
LEMMA RingStored ==
    ASSUME TypeInv, NEW S, NEW bytes \in Seq(S), RingStore(bytes), head' = head,
           Len(bytes) <= arg.uci_req_len, Len(bytes) <= Room
    PROVE  /\ Used' = Used + Len(bytes) /\ Used \in Nat
           /\ \A i \in 0..Used'-1 :
                 RingAt(i)' = IF i < Used THEN RingAt(i) ELSE bytes[i - Used + 1]
<1> DEFINE n == Len(bytes)
<1>1. /\ head \in 0..RingSize-1 /\ tail \in 0..RingSize-1 /\ arg.uci_req_len \in Nat
      /\ RingSize \in Nat /\ RingSize > 1 /\ n \in Nat
  <2>1. head \in 0..RingSize-1 /\ tail \in 0..RingSize-1
    BY DEF TypeInv
  <2>2. arg.uci_req_len \in Nat
    BY DEF TypeInv
  <2>3. RingSize \in Nat /\ RingSize > 1
    BY Sizes
  <2>4. n \in Nat
    OBVIOUS
  <2> QED BY <2>1, <2>2, <2>3, <2>4
<1>2. Used = (IF tail >= head THEN tail - head ELSE tail + RingSize - head)
    BY <1>1, UsedRoom
<1>3. Used \in 0..RingSize-1 /\ Room = RingSize - 1 - Used
    BY <1>1, UsedRoom
<1>4. Least(Least(n, arg.uci_req_len), Room) = n
    BY <1>1, <1>3 DEF Least
<1>5. /\ tail' = (tail + n) % RingSize
      /\ tcp_recv_buf' = [i \in 0..RingSize-1 |->
             IF (i + RingSize - tail) % RingSize < n
             THEN bytes[((i + RingSize - tail) % RingSize) + 1] ELSE tcp_recv_buf[i]]
    BY <1>4 DEF RingStore
<1> HIDE DEF n
<1>6. n \in 0..RingSize-1 /\ n <= RingSize - 1 - Used
    BY <1>1, <1>3 DEF n
<1>7. tail' = (IF tail + n < RingSize THEN tail + n ELSE tail + n - RingSize)
    BY <1>1, <1>5, <1>6, RingIs
<1>8. tail' \in 0..RingSize-1 /\ head' \in 0..RingSize-1
    BY <1>1, <1>6, <1>7
<1>9. Used' = (IF tail' >= head' THEN tail' - head' ELSE tail' + RingSize - head')
    BY <1>8, RingIs DEF Used
<1>10. Used' = Used + n
    BY <1>1, <1>2, <1>6, <1>7, <1>9
<1>11. ASSUME NEW i \in 0..(Used + n - 1)
       PROVE  RingAt(i)' = IF i < Used THEN RingAt(i) ELSE bytes[i - Used + 1]
  <2> DEFINE at == (head + i) % RingSize
             off == (at + RingSize - tail) % RingSize
  <2>1. i \in 0..RingSize-1
    BY <1>1, <1>3, <1>6
  <2>2. at = (IF head + i < RingSize THEN head + i ELSE head + i - RingSize)
    BY <1>1, <2>1, RingIs
  <2>3. at \in 0..RingSize-1
    BY <1>1, <2>1, <2>2
  <2>4. off = (IF at >= tail THEN at - tail ELSE at + RingSize - tail)
    <3> HIDE DEF at
    <3> QED BY <1>1, <2>3, RingIs
  <2>5. RingAt(i)' = IF off < n THEN bytes[off + 1] ELSE tcp_recv_buf[at]
    <3>1. RingAt(i)' = tcp_recv_buf'[at]
      BY DEF RingAt
    <3> HIDE DEF at
    <3> QED BY <1>5, <2>3, <3>1
  <2> HIDE DEF at, off
  <2>6. CASE i < Used
    <3>1. off >= n
      BY <1>1, <1>2, <1>3, <1>6, <2>1, <2>2, <2>4, <2>6
    <3>2. off \in Nat
      BY <1>1, <2>3, <2>4
    <3> QED BY <1>1, <2>5, <2>6, <3>1, <3>2 DEF RingAt, at
  <2>7. CASE i >= Used
    <3>1. off = i - Used /\ off < n
      BY <1>1, <1>2, <1>3, <1>6, <2>1, <2>2, <2>4, <2>7
    <3> QED BY <1>3, <2>1, <2>5, <2>7, <3>1
  <2> QED BY <1>3, <2>1, <2>6, <2>7
<1> QED BY <1>3, <1>10, <1>11 DEF n

----------------------------------------------------------------------------
(* The bytes received.                                                      *)

\* A poll asks for what the ring has room for.
PollFits == call = "poll" /\ pc # "idle" => arg.uci_req_len \in 1..Room

\* In a session without an error no read is in hand but the poll's own.
NoPollLeft ==
    session # "none" /\ ~dev.mine /\ net_tcp_state # "error" => \A c \in Pending : c.op # "poll"

\* What the firmware has read and the adapter has not copied yet.
Incoming ==
    IF call = "poll" /\ dev.mine /\ dev.state = "valid" /\ dev.reply.kind = "data"
    THEN Len(dev.reply.val) ELSE 0

\* The ring holds the stream's next bytes, and what the firmware counts as read was taken,
\* is in the ring or is in the reply.
Stream ==
    session # "none" =>
        /\ \A i \in 0..Used-1 : RingAt(i) = <<conn, taken + i + 1>>
        /\ net_tcp_state \in {"connected", "closed"} => got = taken + Used + Incoming

\* A reply to a poll goes on where the ring ends.
NextBytes ==
    call = "poll" /\ dev.mine /\ dev.state = "valid" /\ dev.reply.kind = "data" =>
        /\ Len(dev.reply.val) <= arg.uci_req_len
        /\ \A i \in 1..Len(dev.reply.val) : dev.reply.val[i] = <<conn, taken + Used + i>>

StreamInv == taken \in Nat /\ PollFits /\ NoPollLeft /\ Stream /\ NextBytes

----------------------------------------------------------------------------
\* A step of the adapter that is not a poll's end.
LEMMA AsideRing ==
    ASSUME BaseInv, Aside, session' # "none", ~NetRecvByte,
           \A w \in {FALSE, Wedges} : ~PollReply(w) /\ ~ConnectReply(w)
    PROVE  /\ UNCHANGED <<head, tail, tcp_recv_buf, taken>>
           /\ net_tcp_state' \in {net_tcp_state, "error"}
<1>1. CASE Program
    BY <1>1 DEF Program, NetInit, NetDhcpAcquire, NetTcpConnect, NetPoll, NetTcpClose, NetTcpSend,
       Enter, BetweenFetches, tcpVars, ringVars, histVars, progVars
<1>2. CASE Restart \/ UNCHANGED vars
    BY <1>2 DEF Restart, Booted, vars, tcpVars, ringVars, histVars, progVars
<1>3. CASE EntryPasses \/ (\E part \in 1..2 : WriteCommand(part)) \/ UciPushWait \/ ReplyComes
           \/ UciAbort
    BY <1>3 DEF EntryPasses, WriteCommand, UciPushWait, ReplyComes, UciAbort, tcpVars, ringVars,
       histVars
<1>4. CASE EntryExpires
    BY <1>4 DEF EntryExpires, Return, Bail, BaseInv, CallInv, histVars, progVars, ringVars
<1>5. CASE ReplyExpires
    BY <1>5 DEF ReplyExpires, Return, Bail, BaseInv, CallInv, histVars, progVars, ringVars
<1>6. CASE AbortLands
  <2>1. pc = "abort_wait" /\ UNCHANGED <<head, tail, tcp_recv_buf, taken>>
    BY <1>6 DEF AbortLands, ringVars, histVars
  <2>2. why = "init" => session' = session /\ session = "none"
    BY <1>6, <2>1 DEF AbortLands, Return, BaseInv, CallInv
  <2>3. why = "bail" /\ call = "close" => session' = "none"
    BY <1>6 DEF AbortLands, Return
  <2> QED BY <1>6, <2>1, <2>2, <2>3 DEF AbortLands
<1>7. CASE AbortExpires
    BY <1>7 DEF AbortExpires, Return, ringVars, histVars
<1>8. ASSUME NEW w, SendReply(w) \/ CloseReply(w) \/ DhcpReply(w)
      PROVE  /\ UNCHANGED <<head, tail, tcp_recv_buf, taken>>
             /\ net_tcp_state' \in {net_tcp_state, "error"}
    BY <1>8 DEF SendReply, CloseReply, DhcpReply, Return, Bail, ringVars, histVars
<1> QED BY <1>1, <1>2, <1>3, <1>4, <1>5, <1>6, <1>7, <1>8 DEF Aside, Adapter

\* The ring does not fill while a poll is under way.
LEMMA PollFitsStep ==
    ASSUME BaseInv, PollFits, [Next]_vars
    PROVE  PollFits'
<1> SUFFICES ASSUME call' = "poll", pc' # "idle" PROVE arg'.uci_req_len \in 1..Room'
    BY DEF PollFits
<1>1. CASE NetPoll
  <2>1. Room \in Nat /\ Room > 0 /\ ReadChunk \in Nat /\ ReadChunk > 0
    BY <1>1, RoomType, Sizes DEF NetPoll, BaseInv, TypeInv
  <2>2. Least(Room, ReadChunk) \in 1..Room
    BY <2>1 DEF Least
  <2>3. Room' = Room /\ arg'.uci_req_len = Least(Room, ReadChunk)
    BY <1>1 DEF NetPoll, Enter, NoArg, Room, ringVars
  <2> QED BY <2>2, <2>3
<1>2. CASE UNCHANGED <<call, arg, head, tail>> /\ pc # "idle"
    BY <1>2 DEF PollFits, Room
<1>3. CASE Program /\ ~NetPoll
    BY <1>3 DEF Program, NetInit, NetDhcpAcquire, NetTcpConnect, NetTcpClose, NetTcpSend,
       NetRecvByte, Enter, callVars
<1>4. CASE EntryPasses \/ (\E part \in 1..2 : WriteCommand(part)) \/ UciPushWait \/ ReplyComes
    BY <1>2, <1>4 DEF EntryPasses, WriteCommand, UciPushWait, ReplyComes, GoOn, ringVars
<1>5. ~Restart /\ ~EntryExpires /\ ~ReplyExpires
    BY DEF Restart, Booted, EntryExpires, ReplyExpires, Return, Bail
<1>6. ~(UciAbort \/ AbortLands \/ AbortExpires)
    BY DEF UciAbort, AbortLands, AbortExpires, Return, GoOn, BaseInv, CallInv
<1>7. \A w : ~(PollReply(w) \/ ConnectReply(w) \/ SendReply(w) \/ CloseReply(w) \/ DhcpReply(w))
    BY DEF PollReply, ConnectReply, SendReply, CloseReply, DhcpReply, Return, Bail, GoOn
<1>8. CASE Firmware \/ UNCHANGED vars
  <2>1. UNCHANGED <<call, pc, arg, head, tail>>
    BY <1>8 DEF Firmware, TaskTakes, TaskConnects, TaskReads, TaskWrites, TaskCloses,
       TaskTellsLease, Untouched, vars, callVars, ringVars
  <2> QED BY <1>2, <2>1
<1> QED BY <1>1, <1>3, <1>4, <1>5, <1>6, <1>7, <1>8 DEF Next, Adapter

\* A poll that gives up reports an error.
LEMMA NoPollAside ==
    ASSUME BaseInv, BaseInv', NoPollLeft, Aside
    PROVE  NoPollLeft'
<1> SUFFICES ASSUME session' # "none", ~dev'.mine, net_tcp_state' # "error"
             PROVE  \A c \in Pending' : c.op # "poll"
    BY DEF NoPollLeft
<1>1. CASE \E w \in {FALSE, Wedges} : pc = "read" /\ Drained(w)
    BY <1>1, DrainedFacts DEF Pending
<1>2. CASE ~(\E w \in {FALSE, Wedges} : pc = "read" /\ Drained(w))
  <2>1. ~UciPushWait
    BY DEF UciPushWait, GoOn, BaseInv, TransactInv, Owning
  <2>2. Pending' \subseteq Pending
    BY <2>1, PendingAside
  <2>3. \A w \in {FALSE, Wedges} : ~PollReply(w) /\ ~ConnectReply(w)
    BY <1>2 DEF PollReply, ConnectReply
  <2>4. session # "none"
    BY <2>3, AsideSession
  <2>5. CASE ~dev.mine
    <3>1. net_tcp_state # "error"
      BY <2>3, AsideRing DEF NetRecvByte, tcpVars
    <3> QED BY <2>2, <2>4, <2>5, <3>1 DEF NoPollLeft
  <2>6. CASE dev.mine
    <3>1. \A c \in Pending : c = Command
      BY <2>6 DEF Pending, BaseInv, TransactInv
    <3>2. ReplyExpires
      <4>1. pc \in Owning /\ pc' \notin Owning
        BY <2>6 DEF BaseInv, TransactInv
      <4>2. ~Program /\ ~Restart /\ ~UNCHANGED vars
        BY <4>1 DEF Program, NetInit, NetDhcpAcquire, NetTcpConnect, NetPoll, NetTcpClose,
           NetTcpSend, NetRecvByte, Enter, Owning, Restart, Booted, vars, callVars
      <4>3. ~(EntryPasses \/ EntryExpires \/ (\E part \in 1..2 : WriteCommand(part)) \/ ReplyComes
              \/ UciAbort \/ AbortLands \/ AbortExpires)
        BY <4>1 DEF EntryPasses, EntryExpires, WriteCommand, ReplyComes, UciAbort, AbortLands,
           AbortExpires, GoOn, Owning
      <4>4. \A w \in {FALSE, Wedges} : ~(PollReply(w) \/ ConnectReply(w) \/ SendReply(w)
                                         \/ CloseReply(w) \/ DhcpReply(w))
        BY <1>2 DEF PollReply, ConnectReply, SendReply, CloseReply, DhcpReply
      <4> QED BY <2>1, <4>2, <4>3, <4>4 DEF Aside, Adapter
    <3>3. call # "poll"
      BY <3>2 DEF ReplyExpires
    <3> QED BY <2>2, <3>1, <3>3 DEF Command
  <2> QED BY <2>5, <2>6
<1> QED BY <1>1, <1>2

\* The poll's end: the reply's bytes move into the ring.
LEMMA StreamPolled ==
    ASSUME BaseInv, StreamInv, NEW w, PollReply(w)
    PROVE  Stream'
<1> DEFINE bytes == IF dev.reply.kind # "data" THEN <<>> ELSE dev.reply.val
<1>1. /\ pc = "read" /\ call = "poll" /\ call' = call /\ pc' = "idle" /\ Drained(w)
      /\ UNCHANGED <<got, head, conn, taken, session>>
    BY DEF PollReply, Return, fwVars, histVars
<1>2. Rejected = FALSE /\ Reply = dev.reply /\ dev.mine /\ dev.state = "valid"
    BY <1>1, ReadFacts
<1>3. RingStore(bytes)
    BY <1>2 DEF PollReply
<1>4. bytes \in Seq(Nat \X Nat) /\ Incoming = Len(bytes)
    BY <1>1, <1>2 DEF BaseInv, ReplyInv, Incoming
<1>5. arg.uci_req_len \in 1..Room
    BY <1>1 DEF StreamInv, PollFits
<1>6. Room \in Nat /\ arg.uci_req_len \in Nat
    BY RoomType DEF BaseInv, TypeInv
<1>7. Len(bytes) \in Nat /\ Len(bytes) <= arg.uci_req_len
  <2>1. CASE dev.reply.kind = "data"
    BY <1>1, <1>2, <1>4, <2>1 DEF StreamInv, NextBytes
  <2>2. CASE dev.reply.kind # "data"
    <3>1. bytes = <<>>
      BY <2>2
    <3> QED BY <1>6, <3>1
  <2> QED BY <2>1, <2>2
<1>8. \A i \in 1..Len(bytes) : bytes[i] = <<conn, taken + Used + i>>
    BY <1>1, <1>2 DEF StreamInv, NextBytes
<1> HIDE DEF bytes
<1>9. Len(bytes) <= Room
    BY <1>5, <1>6, <1>7
<1>10. /\ Used' = Used + Len(bytes) /\ Used \in Nat
       /\ \A i \in 0..Used'-1 : RingAt(i)' = IF i < Used THEN RingAt(i) ELSE bytes[i - Used + 1]
    BY <1>1, <1>3, <1>4, <1>7, <1>9, RingStored DEF BaseInv
<1>11. session = "open" /\ net_tcp_state = "connected" /\ taken \in Nat
    BY <1>1 DEF BaseInv, CallInv, StreamInv
<1>12. ASSUME NEW i \in 0..Used'-1 PROVE RingAt(i)' = <<conn', taken' + i + 1>>
  <2>1. i \in Nat /\ i < Used + Len(bytes)
    BY <1>7, <1>10
  <2>2. CASE i < Used
    <3>1. i \in 0..Used-1
      BY <1>10, <2>1, <2>2
    <3> QED BY <1>1, <1>10, <1>11, <2>2, <3>1 DEF StreamInv, Stream
  <2>3. CASE ~(i < Used)
    <3>1. i - Used + 1 \in 1..Len(bytes) /\ taken + Used + (i - Used + 1) = taken + i + 1
      BY <1>7, <1>10, <1>11, <2>1, <2>3
    <3>2. RingAt(i)' = bytes[i - Used + 1]
      BY <1>10, <2>3
    <3>3. bytes[i - Used + 1] = <<conn, taken + Used + (i - Used + 1)>>
      BY <1>8, <3>1
    <3> QED BY <1>1, <3>1, <3>2, <3>3
  <2> QED BY <2>2, <2>3
<1>13. got = taken + Used + Len(bytes)
    BY <1>4, <1>11 DEF StreamInv, Stream
<1>14. Incoming' = 0
  <2>1. ~dev'.mine
    BY <1>1, DrainedFacts
  <2> QED BY <2>1 DEF Incoming
<1>15. got' = taken' + Used' + Incoming'
    BY <1>1, <1>7, <1>10, <1>11, <1>13, <1>14
<1> QED BY <1>12, <1>15 DEF Stream

\* The adapter's steps keep the stream whole.
LEMMA StreamAside ==
    ASSUME BaseInv, BaseInv', SocketInv, SendInv, StreamInv, Aside
    PROVE  taken' \in Nat /\ Stream'
<1>0. head \in 0..RingSize-1 /\ tail \in 0..RingSize-1 /\ taken \in Nat
    BY DEF BaseInv, TypeInv, StreamInv
<1>1. ASSUME NEW w, ConnectReply(w), session' # "none" PROVE taken' = taken /\ Stream'
  <2>1. /\ pc = "read" /\ call = "connect" /\ call' = call /\ Drained(w) /\ session = "none"
        /\ UNCHANGED <<got, head, tail, taken>>
    BY <1>1 DEF ConnectReply, Return, Bail, BaseInv, CallInv, fwVars, ringVars
  <2>2. Rejected = FALSE /\ Reply = dev.reply /\ dev.mine /\ dev.state = "valid"
    BY <2>1, ReadFacts
  <2>3. dev.reply.kind = "socket"
    BY <1>1, <2>1, <2>2 DEF ConnectReply, Bail, Return, progVars
  <2>4. got = 0 /\ head = 0 /\ tail = 0 /\ taken = 0
    BY <2>1, <2>2, <2>3 DEF SocketInv, ConnectSocket, SendInv, Fresh
  <2>5. Used' = Used /\ Used = 0
    BY <1>0, <2>1, <2>4, UsedRoom DEF Used
  <2>6. Incoming' = 0
    BY <2>1 DEF Incoming
  <2> QED BY <2>1, <2>4, <2>5, <2>6 DEF Stream
<1>2. CASE NetRecvByte
  <2>1. /\ pc = "idle" /\ session = "open" /\ head # tail /\ head' = (head + 1) % RingSize
        /\ taken' = taken + 1
        /\ UNCHANGED <<dev, got, net_tcp_state, tail, tcp_recv_buf, call, conn, session>>
    BY <1>2 DEF NetRecvByte, fwVars, tcpVars, callVars, progVars
  <2>2. /\ Used' = Used - 1 /\ Used \in Nat
        /\ \A i \in 0..Used'-1 : RingAt(i)' = RingAt(i + 1)
    BY <1>0, <2>1, RingTaken
  <2>3. Incoming' = 0 /\ Incoming = 0
    BY <2>1 DEF Incoming, BaseInv, TransactInv, Owning
  <2>4. ASSUME NEW i \in 0..Used'-1 PROVE RingAt(i)' = <<conn', taken' + i + 1>>
    <3>1. i + 1 \in 0..Used-1 /\ taken + (i + 1) + 1 = taken' + i + 1
      BY <1>0, <2>1, <2>2
    <3>2. RingAt(i + 1) = <<conn, taken + (i + 1) + 1>>
      BY <2>1, <3>1 DEF StreamInv, Stream
    <3> QED BY <2>1, <2>2, <3>1, <3>2
  <2>5. net_tcp_state' \in {"connected", "closed"} => got' = taken' + Used' + Incoming'
    <3>1. net_tcp_state \in {"connected", "closed"} => got = taken + Used + Incoming
      BY <2>1 DEF StreamInv, Stream
    <3> QED BY <1>0, <2>1, <2>2, <2>3, <3>1
  <2>6. taken' \in Nat
    BY <1>0, <2>1
  <2> QED BY <2>4, <2>5, <2>6 DEF Stream
<1>3. ASSUME session' # "none", ~NetRecvByte,
             \A w \in {FALSE, Wedges} : ~PollReply(w) /\ ~ConnectReply(w)
      PROVE  taken' = taken /\ Stream'
  <2>1. UNCHANGED <<head, tail, tcp_recv_buf, taken>> /\ net_tcp_state' \in {net_tcp_state, "error"}
    BY <1>3, AsideRing
  <2>2. session # "none" /\ conn' = conn
    BY <1>3, AsideSession
  <2>3. got' = got
    BY AsideSockets DEF fwVars
  <2>4. Used' = Used /\ \A i : RingAt(i)' = RingAt(i)
    BY <2>1 DEF Used, RingAt
  <2>5. Incoming' = Incoming
    <3>1. CASE dev'.mine /\ dev'.state = "valid"
      BY <3>1, AsideReply DEF Incoming
    <3>2. CASE ~(dev'.mine /\ dev'.state = "valid") /\ ~(dev.mine /\ dev.state = "valid")
      BY <3>2 DEF Incoming
    <3>3. CASE ~(dev'.mine /\ dev'.state = "valid") /\ dev.mine /\ dev.state = "valid"
               /\ call = "poll"
      <4>1. pc \in Owning
        BY <3>3 DEF BaseInv, TransactInv
      <4>2. ~Program /\ ~Restart
        BY <1>3, <4>1 DEF Program, NetInit, NetDhcpAcquire, NetTcpConnect, NetPoll, NetTcpClose,
           NetTcpSend, NetRecvByte, Enter, Owning, Restart, Booted
      <4>3. \A w \in {FALSE, Wedges} : ~(SendReply(w) \/ CloseReply(w) \/ DhcpReply(w))
        BY <3>3 DEF SendReply, CloseReply, DhcpReply
      <4>4. ~(EntryPasses \/ EntryExpires \/ (\E part \in 1..2 : WriteCommand(part))
              \/ UciPushWait \/ UciAbort \/ AbortLands \/ AbortExpires)
        BY <4>1 DEF EntryPasses, EntryExpires, WriteCommand, UciPushWait, UciAbort, AbortLands,
           AbortExpires, Owning
      <4>5. ReplyComes \/ ReplyExpires \/ UNCHANGED vars
        BY <1>3, <4>2, <4>3, <4>4 DEF Aside, Adapter
      <4>6. ~ReplyExpires
        BY <3>3 DEF ReplyExpires, Expired, ReplySeen, Answered
      <4>7. dev' = dev
        BY <4>5, <4>6 DEF ReplyComes, vars
      <4> QED BY <3>3, <4>7
    <3>4. CASE ~(dev'.mine /\ dev'.state = "valid") /\ call # "poll"
      BY <3>4 DEF Incoming
    <3> QED BY <3>1, <3>2, <3>3, <3>4
  <2> QED BY <2>1, <2>2, <2>3, <2>4, <2>5 DEF StreamInv, Stream
<1>4. ASSUME NEW w, PollReply(w) PROVE taken' = taken /\ Stream'
    BY <1>4, StreamPolled DEF PollReply, histVars
<1>5. CASE session' = "none"
  <2>1. taken' \in Nat
    <3>1. taken' \in {taken, 0, taken + 1}
      BY DEF Aside, Program, Adapter, Restart, Booted, vars, NetInit, NetDhcpAcquire,
         NetTcpConnect, NetPoll, NetTcpClose, NetTcpSend, NetRecvByte, EntryPasses, EntryExpires,
         WriteCommand, UciPushWait, ReplyComes, ReplyExpires, PollReply, ConnectReply, SendReply,
         CloseReply, DhcpReply, UciAbort, AbortLands, AbortExpires, histVars
    <3> QED BY <1>0, <3>1
  <2> QED BY <1>5, <2>1 DEF Stream
<1> QED BY <1>0, <1>1, <1>2, <1>3, <1>4, <1>5

\* A reply that brings no bytes.
LEMMA StreamStays ==
    ASSUME BaseInv, StreamInv, dev.exec # <<>>, NEW kind, NEW val, dev' = Validate(dev, kind, val),
           Untouched, got' = got, kind # "data"
    PROVE  Stream' /\ NextBytes'
<1>1. /\ dev'.reply.kind = kind
      /\ UNCHANGED <<call, session, conn, net_tcp_state, taken, head, tail, tcp_recv_buf>>
    BY TaskFacts
<1>2. Incoming' = 0 /\ Incoming = 0
    BY <1>1 DEF Incoming, BaseInv, Coherent
<1>3. Used' = Used /\ \A i : RingAt(i)' = RingAt(i)
    BY <1>1 DEF Used, RingAt
<1>4. Stream'
    BY <1>1, <1>2, <1>3 DEF StreamInv, Stream
<1>5. NextBytes'
    BY <1>1 DEF NextBytes
<1> QED BY <1>4, <1>5

\* SOCKET_READ: the bytes it counts are the next ones, and no more than were asked for.
LEMMA StreamReads ==
    ASSUME BaseInv, SocketInv, StreamInv, TaskReads
    PROVE  Stream' /\ NextBytes'
<1> DEFINE c == dev.exec[1]
<1>1. dev.exec # <<>> /\ c.op = "poll" /\ Untouched
    BY DEF TaskReads, Task
<1>2. CASE got' = got /\ \E kind \in {"dead", "idle", "eof"} : dev' = Validate(dev, kind, <<>>)
    BY <1>1, <1>2, StreamStays
<1>3. ASSUME NEW n \in 1..c.arg, Serial # 0, got' = got + n,
             dev' = Validate(dev, "data", [i \in 1..n |-> <<Serial, got + i>>])
      PROVE  Stream' /\ NextBytes'
  <2> DEFINE val == [i \in 1..n |-> <<Serial, got + i>>]
  <2>1. /\ dev'.state = "valid" /\ dev'.mine = dev.mine /\ dev'.reply.kind = "data"
        /\ dev'.reply.val = val /\ c \in Pending /\ c \in Commands
        /\ (dev.mine => c = Command /\ Command.op = call)
        /\ UNCHANGED <<call, pc, arg, session, conn, uci_socket_id, net_tcp_state, taken,
                       head, tail, tcp_recv_buf>>
    BY <1>1, <1>3, TaskFacts
  <2>2. Used' = Used /\ \A i : RingAt(i)' = RingAt(i)
    BY <2>1 DEF Used, RingAt
  <2>3. /\ n \in Nat /\ got \in Nat /\ taken \in Nat /\ Used \in Nat /\ c.arg \in Nat
        /\ arg.uci_req_len \in Nat
    BY <2>1, <1>3, UsedRoom, Sizes, SMTT(30) DEF Commands, BaseInv, TypeInv, StreamInv
  <2>4. Incoming = 0
    BY <1>1 DEF Incoming, BaseInv, Coherent
  <2>5. Len(val) = n /\ \A i \in 1..n : val[i] = <<Serial, got + i>>
    BY <2>3
  <2> HIDE DEF val
  <2>6. ASSUME session # "none", net_tcp_state \in {"connected", "closed"}
        PROVE  dev.mine /\ call = "poll" /\ got = taken + Used
    <3>1. dev.mine
      BY <1>1, <2>1, <2>6 DEF StreamInv, NoPollLeft
    <3>2. got = taken + Used + Incoming
      BY <2>6 DEF StreamInv, Stream
    <3> QED BY <1>1, <2>1, <2>3, <2>4, <3>1, <3>2
  <2>7. Stream'
    <3>1. ASSUME session # "none", net_tcp_state \in {"connected", "closed"}
          PROVE  got' = taken + Used + Incoming'
      <4>1. Incoming' = n
        BY <2>1, <2>5, <2>6, <3>1 DEF Incoming
      <4> QED BY <1>3, <2>6, <3>1, <4>1
    <3> QED BY <2>1, <2>2, <3>1 DEF StreamInv, Stream
  <2>8. NextBytes'
    <3> SUFFICES ASSUME call = "poll", dev.mine
                 PROVE  n <= arg.uci_req_len /\ \A i \in 1..n : val[i] = <<conn, taken + Used + i>>
      BY <2>1, <2>2, <2>5 DEF NextBytes
    <3>1. n <= arg.uci_req_len
      BY <2>1, <1>3, <2>3 DEF Command
    <3>2. session = "open" /\ net_tcp_state = "connected"
      BY SMTT(30) DEF BaseInv, TransactInv, CallInv, Owning
    <3>3. c.id = uci_socket_id /\ Serial = conn
      BY <1>3, <2>1, <3>2 DEF Serial, SocketInv, SessionSocket
    <3> QED BY <2>5, <2>6, <3>1, <3>2, <3>3
  <2> QED BY <2>7, <2>8
<1> QED BY <1>2, <1>3 DEF TaskReads, fwVars

\* Every step keeps the stream whole.
LEMMA StreamStep ==
    ASSUME BaseInv, BaseInv', SocketInv, SendInv, StreamInv, [Next]_vars
    PROVE  StreamInv'
<1>1. PollFits'
    BY PollFitsStep DEF StreamInv
<1>2. CASE Aside
  <2>1. NextBytes'
    <3> SUFFICES ASSUME dev'.mine, dev'.state = "valid" PROVE NextBytes'
      BY DEF NextBytes
    <3>1. /\ dev.mine /\ dev.state = "valid" /\ dev'.reply = dev.reply
          /\ UNCHANGED <<call, arg, conn, taken, head, tail>>
      BY <1>2, AsideReply
    <3>2. Used' = Used
      BY <3>1 DEF Used
    <3> QED BY <3>1, <3>2 DEF StreamInv, NextBytes
  <2>2. NoPollLeft'
    BY <1>2, NoPollAside DEF StreamInv
  <2> QED BY <1>1, <1>2, <2>1, <2>2, StreamAside DEF StreamInv
<1>3. CASE TaskTakes
  <2>1. /\ Pending' \subseteq Pending /\ dev'.state # "valid" /\ dev'.mine = dev.mine
        /\ UNCHANGED <<got, call, session, conn, net_tcp_state, taken, head, tail, tcp_recv_buf>>
    BY <1>3, TakesFacts
  <2>2. ~(dev.mine /\ dev.state = "valid")
    BY <1>3 DEF TaskTakes, TaskFree, BaseInv, TransactInv, Coherent
  <2>3. Incoming' = 0 /\ Incoming = 0
    BY <2>1, <2>2 DEF Incoming
  <2>4. Used' = Used /\ \A i : RingAt(i)' = RingAt(i)
    BY <2>1 DEF Used, RingAt
  <2>5. Stream'
    BY <2>1, <2>3, <2>4 DEF StreamInv, Stream
  <2>6. NextBytes' /\ NoPollLeft' /\ taken' \in Nat
    BY <2>1 DEF StreamInv, NextBytes, NoPollLeft
  <2> QED BY <1>1, <2>5, <2>6 DEF StreamInv
<1>4. CASE Firmware /\ ~TaskTakes
  <2>1. dev.exec # <<>> /\ Untouched /\ \E kind, val : dev' = Validate(dev, kind, val)
    BY <1>4 DEF Firmware, TaskConnects, TaskReads, TaskWrites, TaskCloses, TaskTellsLease, Task
  <2>2. /\ Pending' = {} /\ UNCHANGED <<session, taken>> /\ dev.exec[1] \in Pending
        /\ dev'.mine = dev.mine /\ call' = call /\ (dev.mine => dev.exec[1].op = call)
    BY <2>1, TaskFacts
  <2>3. taken' \in Nat /\ NoPollLeft'
    BY <2>2 DEF StreamInv, NoPollLeft
  <2>4. CASE TaskConnects
    <3>1. dev.exec[1].op = "connect"
      BY <2>4 DEF TaskConnects, Task
    <3>2. session = "none"
      BY <2>2, <3>1 DEF SocketInv, SessionSocket
    <3>3. Stream' /\ NextBytes'
      BY <2>2, <3>1, <3>2 DEF Stream, NextBytes
    <3> QED BY <1>1, <2>3, <3>3 DEF StreamInv
  <2>5. CASE TaskReads
    BY <1>1, <2>3, <2>5, StreamReads DEF StreamInv
  <2>6. CASE TaskWrites
    <3>1. got' = got
      BY <2>6 DEF TaskWrites, fwVars
    <3>2. \E kind \in {"failed", "count"} : \E val : dev' = Validate(dev, kind, val)
      BY <2>6 DEF TaskWrites
    <3> QED BY <1>1, <2>1, <2>3, <3>1, <3>2, StreamStays DEF StreamInv
  <2>7. CASE TaskCloses
    <3>1. got' = got /\ dev' = Validate(dev, "done", <<>>)
      BY <2>7 DEF TaskCloses
    <3> QED BY <1>1, <2>1, <2>3, <3>1, StreamStays DEF StreamInv
  <2>8. CASE TaskTellsLease
    <3>1. got' = got
      BY <2>8 DEF TaskTellsLease, fwVars
    <3>2. \E kind \in {"lease", "zero", "empty"} : dev' = Validate(dev, kind, <<>>)
      BY <2>8 DEF TaskTellsLease
    <3> QED BY <1>1, <2>1, <2>3, <3>1, <3>2, StreamStays DEF StreamInv
  <2> QED BY <1>4, <2>4, <2>5, <2>6, <2>7, <2>8 DEF Firmware
<1> QED BY <1>2, <1>3, <1>4 DEF Next, Aside

\* The stream, throughout.
LEMMA StreamInvariant == Spec => []StreamInv
<1>1. Init => StreamInv
    BY DEF Init, Quiet, StreamInv, PollFits, NoPollLeft, Stream, NextBytes
<1>2. SocketsInv /\ SocketsInv' /\ SendInv /\ StreamInv /\ [Next]_vars => StreamInv'
    BY StreamStep DEF SocketsInv
<1> QED BY <1>1, <1>2, SocketsInvariant, SendInvariant, PTL DEF Spec

\* The ring carries the connection's bytes in order and without a hole.
THEOREM InOrder == Spec => []StreamIntact
<1>1. BaseInv /\ StreamInv => StreamIntact
  <2> SUFFICES ASSUME BaseInv, StreamInv, session # "none"
               PROVE  /\ \A i \in 0..Used-1 : RingAt(i) = <<conn, taken + i + 1>>
                      /\ (net_tcp_state \in {"connected", "closed"} /\ ~Polling)
                            => got = taken + Used
    BY DEF StreamIntact
  <2>1. ~Polling => Incoming = 0
    BY DEF Polling, Incoming, BaseInv, TransactInv, Owning
  <2>2. taken \in Nat /\ Used \in Nat
    BY UsedRoom, Sizes DEF BaseInv, TypeInv, StreamInv
  <2>3. /\ \A i \in 0..Used-1 : RingAt(i) = <<conn, taken + i + 1>>
        /\ net_tcp_state \in {"connected", "closed"} => got = taken + Used + Incoming
    BY DEF StreamInv, Stream
  <2> QED BY <2>1, <2>2, <2>3
<1> QED BY <1>1, BaseInvariant, StreamInvariant, PTL
=============================================================================
