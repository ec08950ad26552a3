------------------------------ MODULE BodyPoll -------------------------------
(* How rig_https_banner decides whether a body is complete: it polls the       *)
(* parser state of the C64 over DMA (http_body_checks) while the C64 dials,    *)
(* receives, parses and closes.  Every read is a step of its own and the C64   *)
(* moves between them, so each verdict is about what was seen a moment ago.    *)
EXTENDS Integers

CONSTANTS
    Lengths,      \* body sizes a server may have
    Radix,        \* a byte of http_body_total: 256
    Room,         \* bytes the REU region of the sink takes
    Budget,       \* FETCH_TIMEOUT, in polls
    StallAbort,   \* STALL_ABORT, in polls
    StallGrace,   \* STALL_GRACE, in polls
    CloseBudget,  \* looks at the screen after Q
    Prompt        \* the C64 parses what it has received before the next poll

\* stall_config_error, checked before the lock is taken.
ASSUME StallConfig ==
    /\ StallAbort \in Nat \ {0} /\ StallGrace \in Nat /\ StallGrace < StallAbort
    /\ Budget \in Nat \ {0} /\ CloseBudget \in Nat /\ Prompt \in BOOLEAN
    /\ Lengths \subseteq Nat /\ Radix \in Nat \ {0} /\ Room \in Nat

VARIABLES
    resp,       \* what the server answers: status, framing, n
    run,        \* the run: viewer build, banner named the target
    ph,         \* where do_https_get is
    tcp, tls,   \* net_tcp_state, tls_state
    sock,       \* the firmware has a socket for the C64
    sent,       \* parts of the response that are in the ring or were
    taken,      \* parts of it the parser has read
    step,       \* inside body_append: "read" (outside), "carry", "blit"
    full,       \* http_sink_full
    closed,     \* CONNECTION CLOSED is on the screen
    q,          \* Q is in the keyboard buffer
    pc,         \* where the rig is
    now,        \* polls since the fetch began
    seen,       \* the BodyState of the last poll
    last, moved,        \* StallTracker: last_total (-1: None), last_moved
    body, settled,      \* the two verdicts kept for decide_exit
    early, before,      \* stopped_early, closed_before
    looks,      \* looks at the screen since Q
    fif,        \* fetch_in_flight
    kex,        \* check_kex_group's verdict; "pass" when REQUIRE_KEX is not set
    code,       \* the exit code; -1 while it runs
    grew,       \* history: `counted` at the last poll that did not fall between two INCs
    counted     \* history: `now` when a body byte was last counted

c64 == <<ph, tcp, tls, sock, sent, taken, step, full, closed, counted>>
rig == <<pc, now, seen, last, moved, body, settled, early, before, looks, fif, kex, code, grew>>
vars == <<resp, run, c64, q, rig>>

-----------------------------------------------------------------------------
(* The C64.  A response is its status line, the rest of its head, n bytes and, *)
(* when chunked, the last chunk.                                               *)

Parts == 2 + resp.n + (IF resp.framing = "chunked" THEN 1 ELSE 0)
Total(k) == IF k <= 2 THEN 0 ELSE IF k - 2 > resp.n THEN resp.n ELSE k - 2

\* http_parse_state, http_status and http_chunk_state follow from what was read.
ParseState == IF taken = 0 THEN 0 ELSE IF taken = 1 THEN 1 ELSE 2
Terminal == resp.framing = "chunked" /\ taken = Parts

\* http_body_total as DMA finds it: between the INCs of body_append the low
\* byte has wrapped and the next one has not been counted up.
BodyTotal == IF step = "carry" THEN Total(taken) - Radix ELSE Total(taken)

RigIdle == UNCHANGED <<resp, run, q, rig>>

\* do_https_get up to tls_connect.
DialFails ==
    /\ ph = "dial"
    /\ \E t \in {"CLOSED", "CONNECT_FAIL"} : tcp' = t
    /\ ph' = "menu"
    /\ RigIdle /\ UNCHANGED <<tls, sock, sent, taken, step, full, closed, counted>>
DialOk ==
    /\ ph = "dial"
    /\ ph' = "tls" /\ tcp' = "CONNECTED" /\ sock' = TRUE
    /\ RigIdle /\ UNCHANGED <<tls, sent, taken, step, full, closed, counted>>
TlsConnect ==
    /\ ph = "tls"
    /\ \/ ph' \in {"recv", "close"} /\ UNCHANGED <<tls, tcp>>     \* or tls_send failed
       \/ ph' = "tls_failed" /\ tls' = "ERROR" /\ tcp' \in {"CONNECTED", "ERROR"}
    /\ RigIdle /\ UNCHANGED <<sock, sent, taken, step, full, closed, counted>>

\* net_poll: bytes (and, when the reply cannot be drained, ERROR with them),
\* an error, or the peer's EOF, at which the firmware closes the socket.
NetPoll ==
    /\ ph = "recv" /\ step = "read" /\ tcp = "CONNECTED"
    /\ \/ \E k \in sent + 1 .. Parts, t \in {"CONNECTED", "ERROR"} :
            sent' = k /\ tcp' = t /\ UNCHANGED sock
       \/ tcp' = "ERROR" /\ UNCHANGED <<sent, sock>>
       \/ tcp' = "CLOSED" /\ sock' = FALSE /\ UNCHANGED sent
    /\ RigIdle /\ UNCHANGED <<ph, tls, taken, step, full, closed, counted>>

\* The parser reads a part; a byte of the body goes through body_append, which
\* counts it and, in the viewer build, sends it to the REU.
Parse ==
    /\ ph = "recv" /\ step = "read" /\ taken < sent /\ tls # "ERROR"
    /\ taken' = taken + 1
    /\ IF taken \in 2 .. resp.n + 1
       THEN /\ counted' = now
            /\ step' = IF Total(taken + 1) % Radix = 0 THEN "carry" ELSE "blit"
       ELSE UNCHANGED <<counted, step>>
    /\ RigIdle /\ UNCHANGED <<ph, tcp, tls, sock, sent, full, closed>>
BodyAppend ==
    /\ \/ step = "carry" /\ step' = "blit" /\ UNCHANGED full
       \/ step = "blit" /\ step' = "read" /\ full' = (full \/ (run.viewer /\ Total(taken) > Room))
    /\ RigIdle /\ UNCHANGED <<ph, tcp, tls, sock, sent, taken, closed, counted>>

\* http_recv_body returns: framing satisfied, sink refused, a record that does
\* not open, or the tick budget, whatever net_tcp_state says.  A body in the
\* REU goes to the viewer, complete or not.
Complete == taken = Parts /\ resp.framing # "unframed"
RecvEnds ==
    /\ ph = "recv" /\ step = "read"
    /\ \/ /\ Complete \/ full \/ taken = sent
          /\ UNCHANGED tls
       \/ ~Complete /\ tls' = "ERROR"
    /\ ph' = IF run.viewer /\ ~full THEN "viewer" ELSE "close"
    /\ RigIdle /\ UNCHANGED <<tcp, sock, sent, taken, step, full, closed, counted>>
Viewer ==
    /\ ph = "viewer" /\ q
    /\ ph' = "close" /\ q' = FALSE
    /\ UNCHANGED <<resp, run, rig, tcp, tls, sock, sent, taken, step, full, closed, counted>>

\* net_tcp_close, and then the message; after a failed handshake no message.
TcpClose ==
    /\ ph \in {"close", "tls_failed"}
    /\ ph' = IF ph = "close" THEN "done" ELSE "menu"
    /\ tcp' = "CLOSED" /\ sock' = FALSE
    /\ RigIdle /\ UNCHANGED <<tls, sent, taken, step, full, closed, counted>>
DoneMsg ==
    /\ ph = "done"
    /\ ph' = "menu" /\ closed' = TRUE
    /\ RigIdle /\ UNCHANGED <<tcp, tls, sock, sent, taken, step, full, counted>>

\* Q at the menu ends in BASIC, whose ROM is banked in over the shadow RAM.
MenuQuit ==
    /\ ph = "menu" /\ q
    /\ ph' = "basic" /\ q' = FALSE
    /\ UNCHANGED <<resp, run, rig, tcp, tls, sock, sent, taken, step, full, closed, counted>>

C64Step == \/ DialFails \/ DialOk \/ TlsConnect \/ NetPoll \/ Parse \/ BodyAppend \/ RecvEnds
           \/ Viewer \/ TcpClose \/ DoneMsg \/ MenuQuit

-----------------------------------------------------------------------------
(* The rig's checks. *)

\* Mutant of CheckBodyComplete: a body of a plausible size will do (#210).
CompleteEnough(s) ==
    IF ~s.full /\ s.parse = 2 /\ (s.total > 1 \/ s.terminal) THEN "pass" ELSE "fail"

\* check_body_complete
CheckBodyComplete(s) ==
    CASE s.full -> "fail"
      [] ~s.full /\ s.parse < 2 -> "fail"
      [] ~s.full /\ s.parse = 2 /\ resp.framing = "length" ->
           IF s.total = resp.n THEN "pass" ELSE "fail"
      [] ~s.full /\ s.parse = 2 /\ resp.framing = "chunked" ->
           IF s.terminal THEN "pass" ELSE "fail"
      [] OTHER -> "inconclusive"

\* check_http_status
CheckHttpStatus(s) == IF s.parse = 2 /\ resp.status = 200 THEN "pass" ELSE "fail"

\* Mutant of Observe: the time is measured from the start of the loop.
ObserveNothing(total) == moved

\* StallTracker.observe: when the count last moved, and frozen_for.
Observe(total) == IF total # last THEN now ELSE moved
FrozenFor(m) == now - m
\* check_fetch_settled
CheckFetchSettled(frozen) == IF frozen < StallGrace THEN "inconclusive" ELSE "pass"
\* handshake_failed, given tls_state as just read
HandshakeFailed(t) == t = "ERROR" /\ seen.parse < 2
\* Mutant of SocketGone: an errored socket is taken for a closed one.
SocketDead(t) == t \in {"CLOSED", "ERROR"}

\* What early_stop_step asks of net_tcp_state after a failed handshake.
SocketGone(t) == t = "CLOSED"

\* Mutant of ShouldStopEarly: a stall on a connected socket is enough.
StopOnStall(t) ==
    /\ seen.parse = 2 /\ CheckBodyComplete(seen) = "fail"
    /\ FrozenFor(moved) >= StallAbort

\* should_stop_early, given net_tcp_state as just read
ShouldStopEarly(t) ==
    /\ seen.parse = 2 /\ CheckBodyComplete(seen) = "fail"
    /\ t \in {"ERROR", "CLOSED"}
    /\ FrozenFor(moved) >= StallAbort
\* The shadow RAM is readable: BASIC is banked out.
ShadowOk == ph # "basic"

\* decide_exit; the shadow check is always good before Q.
DecideExit(k) ==
    LET checks == {CheckHttpStatus(seen), body, k}
    IN CASE ~run.banner -> 1
         [] run.banner /\ settled = "inconclusive" -> 78
         [] run.banner /\ settled # "inconclusive" /\ "fail" \in checks -> 1
         [] run.banner /\ settled # "inconclusive" /\ "fail" \notin checks
              /\ "inconclusive" \in checks -> 78
         [] OTHER -> 0

-----------------------------------------------------------------------------
(* The poll loop of main(). *)

C64Idle == UNCHANGED <<resp, run, c64>>
\* No early-stop condition is looked at before the counter has stood still.
AfterTls(m) == IF FrozenFor(m) >= StallAbort THEN "tcp" ELSE "sleep"

\* read_state: one DMA read of the parser state.
ReadState ==
    /\ pc = "top"
    /\ seen' = [parse |-> ParseState, total |-> BodyTotal, terminal |-> Terminal, full |-> FALSE]
    /\ grew' = IF step = "carry" THEN grew ELSE counted
    /\ pc' = "sink"
    /\ C64Idle /\ UNCHANGED <<q, now, last, moved, body, settled, early, before, looks, fif, kex, code>>

\* A second read for http_sink_full; then the verdict, and StallTracker.observe.
ReadSinkFull ==
    /\ pc = "sink"
    /\ LET s == [seen EXCEPT !.full = full]
           m == Observe(s.total)
       IN /\ seen' = s
          /\ body' = CheckBodyComplete(s)
          /\ IF body' = "pass"
             THEN pc' = "press" /\ UNCHANGED <<last, moved>>
             ELSE /\ last' = s.total /\ moved' = m
                  /\ pc' = IF s.parse < 2 THEN "tls" ELSE AfterTls(m)
    /\ C64Idle /\ UNCHANGED <<q, now, settled, early, before, looks, fif, kex, code, grew>>

\* early_stop_step below the body: the handshake's failure.
ReadTlsState ==
    /\ pc = "tls"
    /\ pc' = IF HandshakeFailed(tls) THEN "tcp_failed" ELSE AfterTls(moved)
    /\ C64Idle /\ UNCHANGED <<q, now, seen, last, moved, body, settled, early, before, looks, fif,
                              kex, code, grew>>

\* The two reads of net_tcp_state that may end the loop.
ReadTcpState ==
    /\ pc \in {"tcp", "tcp_failed"}
    /\ LET stop == IF pc = "tcp_failed" THEN SocketGone(tcp) ELSE ShouldStopEarly(tcp)
       IN IF stop
          THEN /\ early' = TRUE /\ before' = (seen.parse < 2)
               /\ settled' = "pass" /\ pc' = "press"
          ELSE pc' = "sleep" /\ UNCHANGED <<early, before, settled>>
    /\ C64Idle /\ UNCHANGED <<q, now, seen, last, moved, body, looks, fif, kex, code, grew>>

\* Mutant of Sleep: the deadline is set again at every poll.
SleepUncounted ==
    /\ pc = "sleep"
    /\ pc' = "top"
    /\ C64Idle /\ UNCHANGED <<q, now, settled, seen, last, moved, body, early, before, looks, fif, kex,
                              code, grew>>

\* The next poll, or the deadline and the question whether the body still grew.
Sleep ==
    /\ pc = "sleep"
    /\ Prompt => taken = sent /\ step = "read"
    /\ now' = now + 1
    /\ IF now' < Budget THEN pc' = "top" /\ UNCHANGED settled
       ELSE pc' = "press" /\ settled' = CheckFetchSettled(now' - moved)
    /\ C64Idle /\ UNCHANGED <<q, seen, last, moved, body, early, before, looks, fif, kex, code, grew>>

\* Q leaves the viewer, so that the socket closes.
PressQ ==
    /\ pc = "press"
    /\ q' = TRUE /\ pc' = "look"
    /\ C64Idle /\ UNCHANGED <<now, seen, last, moved, body, settled, early, before, looks, fif, kex, code,
                              grew>>

\* poll_until with close_confirmed: the screen, then closed_before, then, only
\* after an early stop, the shadow check and net_tcp_state.
Confirmed == pc' = "judge" /\ fif' = FALSE

\* Mutant of NotYet: one look past the deadline.
LookOnceMore(n) ==
    /\ pc' = IF n <= CloseBudget + 1 THEN "look" ELSE "judge"
    /\ UNCHANGED fif

NotYet(n) ==
    /\ pc' = IF n <= CloseBudget THEN "look" ELSE "judge"
    /\ UNCHANGED fif
Look ==
    /\ pc = "look"
    /\ looks' = looks + 1
    /\ IF closed \/ before THEN Confirmed
       ELSE IF early THEN pc' = "shadow" /\ UNCHANGED fif ELSE NotYet(looks + 1)
    /\ C64Idle /\ UNCHANGED <<q, now, seen, last, moved, body, settled, early, before, kex, code, grew>>
RereadShadow ==
    /\ pc = "shadow"
    /\ IF ShadowOk THEN pc' = "confirm" /\ UNCHANGED fif ELSE NotYet(looks)
    /\ C64Idle /\ UNCHANGED <<q, now, seen, last, moved, body, settled, early, before, looks, kex, code,
                              grew>>
\* By now BASIC may be banked in, and the byte be one of its ROM.
RereadTcp ==
    /\ pc = "confirm"
    /\ \E t \in IF ShadowOk THEN {tcp} ELSE {"CONNECTED", "CLOSED"} :
         IF t = "CLOSED" THEN Confirmed ELSE NotYet(looks)
    /\ C64Idle /\ UNCHANGED <<q, now, seen, last, moved, body, settled, early, before, looks, kex, code,
                              grew>>

\* tls_kex_group is read last, for REQUIRE_KEX.
Judge ==
    /\ pc = "judge"
    /\ \E k \in {"pass", "fail"} : kex' = k /\ code' = DecideExit(k)
    /\ pc' = "end"
    /\ C64Idle /\ UNCHANGED <<q, now, seen, last, moved, body, settled, early, before, looks, fif, grew>>

RigStep == \/ ReadState \/ ReadSinkFull \/ ReadTlsState \/ ReadTcpState \/ Sleep \/ PressQ
           \/ Look \/ RereadShadow \/ RereadTcp \/ Judge

-----------------------------------------------------------------------------
Init ==
    /\ resp \in [status : {200, 404}, framing : {"length", "chunked", "unframed"}, n : Lengths]
    /\ run \in [viewer : BOOLEAN, banner : BOOLEAN]
    /\ ph = "dial" /\ tcp = "CLOSED" /\ tls = "NONE" /\ sock = FALSE
    /\ sent = 0 /\ taken = 0 /\ step = "read" /\ full = FALSE /\ closed = FALSE /\ q = FALSE
    /\ pc = "top" /\ now = 0
    /\ seen = [parse |-> 0, total |-> 0, terminal |-> FALSE, full |-> FALSE]
    /\ last = -1 /\ moved = 0 /\ body = "none" /\ settled = "pass"
    /\ early = FALSE /\ before = FALSE /\ looks = 0 /\ fif = TRUE /\ kex = "none" /\ code = -1
    /\ grew = 0 /\ counted = 0

Next == C64Step \/ RigStep
\* The rig process runs and time passes; of the C64 nothing is assumed.
Spec == Init /\ [][Next]_vars /\ WF_vars(RigStep)

-----------------------------------------------------------------------------
(* Properties *)

Verdicts == {"pass", "fail", "inconclusive"}
TypeC64 ==
    /\ ph \in {"dial", "tls", "tls_failed", "recv", "viewer", "close", "done", "menu", "basic"}
    /\ tcp \in {"CLOSED", "CONNECTED", "ERROR", "CONNECT_FAIL"} /\ tls \in {"NONE", "ERROR"}
    /\ sock \in BOOLEAN /\ full \in BOOLEAN /\ closed \in BOOLEAN /\ q \in BOOLEAN
    /\ sent \in 0 .. Parts /\ taken \in 0 .. sent
    /\ step \in {"read", "carry", "blit"}
    /\ counted \in 0 .. now
TypeRig ==
    /\ pc \in {"top", "sink", "tls", "tcp", "tcp_failed", "sleep", "press", "look", "shadow",
               "confirm", "judge", "end"}
    /\ now \in 0 .. Budget /\ moved \in 0 .. now /\ grew \in 0 .. now
    /\ seen \in [parse : 0 .. 2, total : Nat, terminal : BOOLEAN, full : BOOLEAN]
    /\ last \in Nat \cup {-1} /\ looks \in 0 .. CloseBudget + 1
    /\ body \in Verdicts \cup {"none"} /\ settled \in {"pass", "inconclusive"}
    /\ early \in BOOLEAN /\ before \in BOOLEAN /\ fif \in BOOLEAN
    /\ kex \in {"none", "pass", "fail"} /\ code \in {-1, 0, 1, 78}
\* The bounds are part of it: no poll after the budget, no look after its own,
\* and no torn counter that would read as a negative number.
TypeOK ==
    /\ resp \in [status : {200, 404}, framing : {"length", "chunked", "unframed"}, n : Lengths]
    /\ run \in [viewer : BOOLEAN, banner : BOOLEAN]
    /\ TypeC64 /\ TypeRig

\* Exit 0 only for a response whose every byte the client has consumed, with
\* the status that was asked for, whatever the C64 did between the reads
\* (#210: a truncated body was a pass).
PassIsWhole ==
    code = 0 => resp.status = 200 /\ resp.framing # "unframed" /\ taken = Parts

\* A body that had still grown in the last StallGrace polls is never called
\* truncated: that is the budget's fault, and exit 78 (check_fetch_settled).
NoCryWolf ==
    code = 1 /\ ~early /\ run.banner /\ kex = "pass" /\ resp.status = 200 /\ seen.parse = 2
      => seen.full \/ Budget - grew >= StallGrace

\* After an early stop "no further byte can arrive": the rig gives up only on a
\* connection that is over for the C64 as well (should_stop_early's condition
\* 3, early_stop_step's CLOSED).
NothingMoreArrives == [][early => sent' = sent]_vars

\* What should_stop_early says of itself: it stops only when the verdict the
\* budget would reach is fixed, so that a body on which the rig has given up is
\* never found complete afterwards.
EarlyStopIsFinal ==
    early =>
      CheckBodyComplete([parse |-> ParseState, total |-> BodyTotal, terminal |-> Terminal,
                         full |-> full]) # "pass"

\* fetch_in_flight is cleared only when the firmware has no socket left that a
\* reset by the next rig could hit (#234), even if the byte was read from ROM.
ClearedIsClosed == ~fif => ~sock

\* The loop and the wait for the close end, whatever the C64 does.
PollEnds == <>(pc = "end")
=============================================================================
