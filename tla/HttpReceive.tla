----------------------------- MODULE HttpReceive -----------------------------
(***************************************************************************)
(* One fetch after another as http.s sees it: the three receive loops      *)
(* (http_recv_body over TLS, its uci-m3 form over the firmware's TLS, and  *)
(* http_get_plain) around the one parser of HttpParser.  The peer sends a  *)
(* response of Responses, in pieces of any size, and the stream may stop,  *)
(* fail or be closed at any point of it.                                   *)
(***************************************************************************)
EXTENDS HttpParser

CONSTANTS
    Responses,    \* [status, n (body bytes), framed, stream (the tokens sent), whole (all of it)]
    Byte(_, _),   \* Byte(r, i): the i-th byte of r's body as a token
    Builds,       \* names of the builds
    Setup,        \* of a build: its loops (arms: "tls", "plain", "m3"), HTTPS_BODY_TO_REU
                  \* (toReu: HTTPS fetches turn the sink on), the values http_reu_body_base
                  \* may have (bases), the banks the REU may have, 0 for none (reus), and
                  \* the responses it meets (responses)
    Table,        \* what the low banks hold
    Budget,       \* 65536 ticks, or the uci-m3 idle deadline
    MaxSpan,      \* bound on the tokens of one record or poll
    MaxFetches    \* bound on the fetches

ASSUME Setting ==
    /\ Builds # {} /\ \A r \in Responses : r.n \in Nat /\ r.status \in Nat \ {0}
    /\ \A x \in Builds :
         LET b == Setup[x] IN
         /\ b.arms # {} /\ b.arms \subseteq {"tls", "plain", "m3"} /\ b.toReu \in BOOLEAN
         /\ b.responses # {} /\ b.responses \subseteq Responses
         /\ b.bases \subseteq 0..Mod - 1 /\ b.reus \subseteq Nat
         /\ \A n \in b.reus \ {0} : n * Bank <= Mod /\ \E k \in 0..8 : n = 2^k
    /\ Budget \in Nat \ {0} /\ MaxSpan \in Nat \ {0} /\ MaxFetches \in Nat

\* A response begins with its status line, and every text before the first end
\* of a line is that line's; a server that sends no status is not modelled.
ASSUME StatusLine ==
    \A r \in Responses :
        /\ r.stream \in Seq({r.stream[i] : i \in DOMAIN r.stream}) \ {<<>>}
        /\ IsText(r.stream[1])
        /\ \A i \in DOMAIN r.stream :
             IsText(r.stream[i]) /\ (\A j \in 1..i : r.stream[j] # LF)
                 => r.stream[i].v = r.status

VARIABLES
    pc,         \* "boot", "menu", "recv" (in a receive loop), "parse", "done"
    machine,    \* the build, the REU, the probe's result, http_body_sink and its base
    http,       \* the parser, the buffer, the sink and the REU's contents
    arm, resp,  \* this fetch's loop and what its server sends
    arrived,    \* tokens of resp.stream the receive path has been given
    taken,      \* tokens of it the parser has read
    mark,       \* uci-m3: `arrived` when the deadline was last armed
    eof,        \* the connection: "open", "clean", "cut" (no close_notify), "dead"
    ticks,      \* http_recv_ticks, @poll_timeout, the deadline
    verdict,    \* the last fetch's carry: "none", "complete", "short"
    fetches

vars == <<pc, machine, http, arm, resp, arrived, taken, mark, eof, ticks, verdict, fetches>>
----------------------------------------------------------------------------
Init ==
    /\ pc = "boot"
    /\ \E x \in Builds : \E b \in Setup[x].bases, n \in Setup[x].reus :
         /\ arm = CHOOSE a \in Setup[x].arms : TRUE
         /\ resp = CHOOSE r \in Setup[x].responses : TRUE
         /\ machine = [build |-> x, sink |-> FALSE, base |-> b, banks |-> n, ok |-> FALSE, top |-> 0]
         /\ http = [status |-> 0, state |-> "status", line |-> NoLine, done |-> FALSE,
                    clValid |-> FALSE, length |-> 0, chunked |-> FALSE, chunk |-> "size",
                    rem |-> 0, buf |-> <<>>, total |-> 0, cursor |-> 0, flushed |-> FALSE,
                    full |-> FALSE, room |-> 0, reu |-> [a \in 0..n * Bank - 1 |-> Table]]
    /\ arrived = 0 /\ taken = 0 /\ mark = 0 /\ eof = "open"
    /\ ticks = 0 /\ verdict = "none" /\ fetches = 0

(* reu_probe_size: bank x of 1, 2, 4 ... exists if it holds a byte and is   *)
(* not bank 0 again; a transfer that was never confirmed leaves the size    *)
(* unknown.                                                                 *)
Powers == {x \in 1..Mod \div Bank : \E k \in 0..8 : x = 2^k}
Missing(x) == IF machine.banks = 0 THEN TRUE ELSE x % machine.banks = 0
ProbeSize(confirmed) ==
    /\ pc = "boot"
    /\ \E x \in Powers :
         /\ Missing(x) /\ \A y \in Powers : Missing(y) => x <= y
         /\ machine' = [machine EXCEPT !.ok = confirmed, !.top = x - 1]
    /\ pc' = "menu"
    /\ UNCHANGED <<http, arm, resp, arrived, taken, mark, eof, ticks, verdict, fetches>>
----------------------------------------------------------------------------
(* The start of a fetch.  http_body_sink is the caller's and is never       *)
(* cleared: an HTTPS fetch of a BodyToReu build leaves it on.               *)
Build == Setup[machine.build]
Fetching(a, r) ==
    /\ pc = "menu" /\ fetches < MaxFetches
    /\ fetches' = fetches + 1
    /\ arm' = a /\ resp' = r
    /\ http' = RespInit(machine, http)
    /\ arrived' = 0 /\ taken' = 0 /\ mark' = 0 /\ eof' = "open" /\ ticks' = 0

HttpGet(a, r) ==
    /\ Fetching(a, r)
    /\ machine' = [machine EXCEPT !.sink = @ \/ (a # "plain" /\ Build.toReu)]
    /\ verdict' = "none" /\ pc' = "recv"

\* No address, no connection, no handshake, or the request not sent.
FetchFails(a, r) ==
    /\ Fetching(a, r)
    /\ verdict' = "short" /\ pc' = "menu"
    /\ UNCHANGED machine

\* The end of the receive loop: the body is finished off and C returned.
Return(complete) ==
    /\ pc' = "menu"
    /\ http' = BodyFinish(machine, http)
    /\ verdict' = IF complete THEN "complete" ELSE "short"
    /\ UNCHANGED <<machine, arm, resp, arrived, taken, mark, ticks, fetches>>

\* The sink's last blit may be refused after the framing is satisfied.
Verdict(clean) == Return(Whole(BodyFinish(machine, http), clean))

(* A peer may close a framed body early.  Without framing the close is the  *)
(* end of the body, so closing early is sending a shorter one.              *)
MayClose == resp.framed \/ arrived = Len(resp.stream)
----------------------------------------------------------------------------
(* http_recv_body over TLS: tls_recv delivers a record, an alert, nothing,  *)
(* or the record layer's abort.                                             *)
TlsRecord(n) ==
    /\ pc = "recv" /\ arm = "tls"
    /\ arrived + n <= Len(resp.stream)
    /\ arrived' = arrived + n /\ pc' = "parse"
    /\ UNCHANGED <<machine, http, arm, resp, taken, mark, eof, ticks, verdict, fetches>>

TlsClose ==
    /\ pc = "recv" /\ arm = "tls" /\ MayClose
    /\ eof' = "clean" /\ Verdict(TRUE)

\* Any other alert, one that is not two bytes long, or tls_state = ERROR.
TlsAborts ==
    /\ pc = "recv" /\ arm = "tls"
    /\ eof' = "dead" /\ Return(FALSE)

\* Mutant of TlsTick: the counter wraps unnoticed.
TickForever ==
    /\ pc = "recv" /\ arm = "tls"
    /\ ticks' = (ticks + 1) % Budget
    /\ UNCHANGED <<pc, machine, http, arm, resp, arrived, taken, mark, eof, verdict, fetches>>

TlsTick ==
    /\ pc = "recv" /\ arm = "tls"
    /\ UNCHANGED eof
    /\ IF ticks + 1 = Budget THEN Verdict(FALSE)
       ELSE /\ ticks' = ticks + 1
            /\ UNCHANGED <<pc, machine, http, arm, resp, arrived, taken, mark, verdict, fetches>>
----------------------------------------------------------------------------
\* net_poll of the loops that read the ring: bytes, and perhaps the end.
Poll(n, e) ==
    /\ pc = "recv" /\ arm # "tls"
    /\ arrived + n <= Len(resp.stream)
    /\ arrived' = arrived + n
    /\ e # "open" => eof = "open"
    /\ e = "cut" => arm = "m3"
    /\ e = "clean" => resp.framed \/ arrived + n = Len(resp.stream)
    /\ eof' = IF e = "open" THEN eof ELSE e
    /\ eof # "open" => n = 0
    /\ pc' = "parse"
    /\ UNCHANGED <<machine, http, arm, resp, taken, mark, ticks, verdict, fetches>>

\* The parser reads the next byte of the record or of the ring.
ParseByte ==
    /\ pc = "parse" /\ taken < arrived
    /\ http' = RecvResponse(machine, http, resp.stream[taken + 1])
    /\ taken' = taken + 1
    /\ pc' = IF http'.done THEN "done" ELSE pc
    /\ UNCHANGED <<machine, arm, resp, arrived, mark, eof, ticks, verdict, fetches>>

\* C=0 from the parser: @recv_complete, @m3_complete and @plain_done.
Framed(h) == h.clValid \/ h.chunked
SinkRefused == arm # "plain" /\ http.full
Complete == pc = "done" /\ Return(~SinkRefused) /\ UNCHANGED eof

Dry == pc = "parse" /\ taken = arrived /\ UNCHANGED eof

Again(t) ==
    /\ pc' = "recv" /\ ticks' = t
    /\ UNCHANGED <<machine, http, arm, resp, arrived, taken, fetches, verdict>>

TlsDry ==
    /\ arm = "tls" /\ Dry
    /\ \/ http.full /\ Return(FALSE)
       \/ ~http.full /\ Again(0) /\ UNCHANGED mark

\* http_get_plain's loop: an unframed body ends with the connection, or is cut
\* off when the buffer is full; the budget is for the whole fetch.
PlainDry ==
    /\ arm = "plain" /\ Dry
    /\ LET unframed == http.state = "body" /\ ~Framed(http)
           closed   == eof = "clean"
           full     == Len(http.buf) >= Bounce
       IN  \/ unframed /\ closed /\ Return(TRUE)
           \/ unframed /\ ~closed /\ full /\ Return(FALSE)
           \/ /\ ~(unframed /\ (closed \/ full))
              /\ IF ticks + 1 = Budget THEN Return(FALSE) ELSE Again(ticks + 1) /\ UNCHANGED mark

\* The uci-m3 loop: "01" and "05" end the stream, bytes rearm the deadline.
M3Dry ==
    /\ arm = "m3" /\ Dry
    /\ \/ http.full /\ Return(FALSE)
       \/ ~http.full /\ eof = "dead" /\ Return(FALSE)
       \/ ~http.full /\ eof = "cut" /\ ~Framed(http) /\ Return(FALSE)
       \/ ~http.full /\ eof = "cut" /\ Framed(http) /\ Verdict(TRUE)
       \/ ~http.full /\ eof = "clean" /\ Verdict(TRUE)
       \/ ~http.full /\ eof = "open" /\ arrived # mark /\ Again(0) /\ mark' = arrived
       \/ /\ ~http.full /\ eof = "open" /\ arrived = mark
          /\ IF ticks + 1 = Budget THEN Verdict(FALSE) ELSE Again(ticks + 1) /\ UNCHANGED mark

Receive ==
    \/ \E n \in 1..MaxSpan : TlsRecord(n)
    \/ TlsClose \/ TlsAborts \/ TlsTick
    \/ \E n \in 0..MaxSpan, e \in {"open", "clean", "cut", "dead"} : Poll(n, e)
    \/ ParseByte \/ Complete \/ TlsDry \/ PlainDry \/ M3Dry

\* The menu waits for a key.
MainLoop == pc = "menu" /\ UNCHANGED vars

Next ==
    \/ MainLoop
    \/ \E ok \in BOOLEAN : ProbeSize(ok)
    \/ \E a \in Build.arms, r \in Build.responses : HttpGet(a, r) \/ FetchFails(a, r)
    \/ Receive

Spec == Init /\ [][Next]_vars
\* The loops run: each pass polls, and a pass that brings nothing is counted.
FairSpec == Spec /\ WF_vars(Receive)
----------------------------------------------------------------------------
(* C=0 is returned only for a body that is all there and stored as sent:    *)
(* its length is counted, its first bytes are in http_resp_buf and, with    *)
(* the sink on, every byte of it is in the REU in order.                    *)
StoredIsBody ==
    verdict = "complete" =>
        /\ http.total = resp.n
        /\ http.buf = [i \in 1..Least(Bounce, resp.n) |-> Byte(resp, i)]
        /\ machine.sink => \A i \in 1..resp.n : http.reu[machine.base + i - 1] = Byte(resp, i)

(* A response that arrived whole is reported whole: C=1 after its last byte *)
(* (and, without framing, a clean end) only when the sink had no room.      *)
WholeIsComplete ==
    /\ verdict = "short" /\ arrived = Len(resp.stream) /\ arrived = taken
    /\ resp.whole /\ (resp.framed \/ eof = "clean")
    => http.full

(* No body, however long, and no REU, however small, brings the sink to     *)
(* write over the tables and the code in the low banks.                     *)
LowBanksIntact ==
    \A a \in DOMAIN http.reu : a < Floor * Bank => http.reu[a] = Table

(* A fetch that fails, wherever it fails, leaves no status, and no body     *)
(* count, of an earlier response: what can be read is this response's.      *)
NothingOfTheLast ==
    /\ http.status \in {0, resp.status}
    /\ pc # "boot" /\ http.status = 0 => http.total = 0 /\ http.buf = <<>>

\* Every fetch returns to the menu, whatever the peer does or does not send.
FetchEnds == pc = "recv" ~> pc = "menu"
=============================================================================
