------------------------------ MODULE HttpParser ------------------------------
(***************************************************************************)
(* The HTTP response parser and the body's storage (http.s).  The parser   *)
(* is called once for each record or poll and keeps its place in memory    *)
(* between the calls, so it is one function of a state `h` and a byte.     *)
(* A status line's or a header line's text is one token; a chunk size is   *)
(* one token for each digit; every other byte is a token.                  *)
(***************************************************************************)
EXTENDS Integers, Sequences

CONSTANTS
    Mod,        \* 2^24: the width of the lengths, counters and REU addresses
    Radix,      \* 16: chunk sizes are hexadecimal
    Bounce,     \* 512: the size of http_resp_buf
    Bank,       \* 65536: bytes in a bank of the REU
    Floor       \* SINK_FLOOR_BANK: the banks below hold tables and code

ASSUME Widths ==
    /\ Radix \in Nat \ {0} /\ Mod \in Nat /\ Radix < Mod
    /\ Bounce \in Nat \ {0} /\ Bank \in Nat \ {0} /\ Floor \in Nat \ {0}

Least(a, b) == IF a < b THEN a ELSE b

\* The end of a line, and a line that has no text (http_line_idx = 0).
LF == [k |-> "lf", v |-> 0]
NoLine == [k |-> "none", v |-> 0]
IsText(t) == t.k \notin {"lf", "cr"}
----------------------------------------------------------------------------
(* The REU behind the sink.  The machine's expansion wraps at its size and  *)
(* a machine without one ignores the transfer.  m is the machine:           *)
(* sink (http_body_sink), base (http_reu_body_base), banks fitted, and what *)
(* reu_probe_size found: ok (reu_size_ok), top (reu_top_bank).              *)
Address(m, a) == (m.base + a) % (m.banks * Bank)

Stash(m, h) ==
    IF m.banks = 0 THEN h.reu
    ELSE LET From(a) == {j \in 1..Len(h.buf) : a = Address(m, h.cursor + j - 1)}
         IN  [a \in DOMAIN h.reu |->
                IF From(a) = {} THEN h.reu[a] ELSE h.buf[CHOOSE j \in From(a) : TRUE]]

\* Bytes a transfer did not bring: whatever the buffer held.
Fetch(m, h, n) ==
    [i \in 1..n |-> IF m.banks = 0 THEN NoLine ELSE h.reu[Address(m, i - 1)]]

\* Mutant of SinkRoom: a 16 MB REU is taken for granted.
RoomToTheTop(m) == Mod - m.base

\* sink_room_init: the body's region ends where the REU does; none below the floor.
SinkRoom(m) ==
    IF ~m.ok \/ m.base < Floor * Bank \/ m.base >= (m.top + 1) * Bank
    THEN 0 ELSE (m.top + 1) * Bank - m.base

SinkFits(h) ==
    /\ ~h.full
    /\ h.cursor + Len(h.buf) < Mod
    /\ h.cursor + Len(h.buf) <= h.room

\* http_sink_blit: a blit that does not fit writes nothing and latches http_sink_full.
SinkBlit(m, h) ==
    IF h.buf = <<>> THEN h
    ELSE IF SinkFits(h)
         THEN [h EXCEPT !.reu = Stash(m, h), !.cursor = @ + Len(h.buf)]
         ELSE [h EXCEPT !.full = TRUE]

\* http_body_finish, once for each body: the rest of the buffer goes out and
\* the first bytes of the body come back.
BodyFinish(m, h) ==
    IF ~m.sink \/ h.flushed THEN h
    ELSE LET out == SinkBlit(m, [h EXCEPT !.flushed = TRUE])
         IN  [out EXCEPT !.buf = Fetch(m, out, Least(Bounce, out.total))]
----------------------------------------------------------------------------
HdrInit(h) == [h EXCEPT !.clValid = FALSE, !.chunked = FALSE,
                        !.chunk = "size", !.rem = 0]

BodyBegin(m, h) == [h EXCEPT !.buf = <<>>, !.total = 0, !.cursor = 0,
                             !.flushed = FALSE, !.full = FALSE, !.room = SinkRoom(m)]

\* Mutant of RespInit: the status is left for the next status line to replace.
StatusStays(m, h) ==
    BodyBegin(m, HdrInit([h EXCEPT !.state = "status", !.line = NoLine, !.done = FALSE]))

\* http_resp_init: nothing of an earlier response is left.
RespInit(m, h) ==
    BodyBegin(m, HdrInit([h EXCEPT !.status = 0, !.state = "status", !.line = NoLine,
                                   !.done = FALSE]))

\* Mutant of DoneCheck: the bytes stored are compared, not the bytes consumed.
DoneByStored(h) == h.clValid /\ Len(h.buf) = h.length

DoneCheck(h) == h.clValid /\ h.total = h.length

\* C=0 to the caller, after sink_finish_done.
Finished(m, h) == [BodyFinish(m, h) EXCEPT !.done = TRUE]

\* body_append: every byte is counted; past the buffer it is stored only by the sink.
BodyAppend(m, h, t) ==
    LET counted == [h EXCEPT !.total = (@ + 1) % Mod]
        stored  == [counted EXCEPT !.buf = Append(@, t)]
    IN  IF Len(h.buf) >= Bounce THEN counted
        ELSE IF m.sink /\ Len(stored.buf) >= Bounce
             THEN [SinkBlit(m, stored) EXCEPT !.buf = <<>>]
             ELSE stored
----------------------------------------------------------------------------
StatusByte(h, t) ==
    IF IsText(t) THEN [h EXCEPT !.line = t]
    ELSE IF t = LF
         THEN HdrInit([h EXCEPT !.state = "headers", !.status = h.line.v, !.line = NoLine])
         ELSE h

(* check_content_length: the name and one space, then digits; the number    *)
(* wraps at 24 bits.  With two spaces the value has no digit where it is    *)
(* looked for; with none the name does not match.                           *)
ContentLength(h) ==
    IF h.line.k # "cl" \/ h.line.v.spaces = 0 THEN h
    ELSE [h EXCEPT !.clValid = TRUE,
                   !.length = IF h.line.v.spaces = 1 THEN h.line.v.n % Mod ELSE 0]

TransferEncoding(h) == [h EXCEPT !.chunked = @ \/ h.line.k = "te"]

PlainEnd(m, h) == IF ~h.chunked /\ DoneCheck(h) THEN Finished(m, h) ELSE h

HeaderByte(m, h, t) ==
    IF IsText(t) THEN [h EXCEPT !.line = t]
    ELSE IF t # LF THEN h
    ELSE IF h.line = NoLine
         THEN PlainEnd(m, BodyBegin(m, [h EXCEPT !.state = "body"]))
         ELSE [TransferEncoding(ContentLength(h)) EXCEPT !.line = NoLine]

PlainByte(m, h, t) == PlainEnd(m, BodyAppend(m, h, t))
----------------------------------------------------------------------------
(* Chunked bodies.  A size that does not fit saturates.                     *)
SizeDigit(h, d) ==
    IF h.rem >= Mod \div Radix THEN [h EXCEPT !.rem = Mod - 1, !.chunk = "skip"]
    ELSE [h EXCEPT !.rem = @ * Radix + d]

SizeEnd(h) ==
    IF h.rem = 0 THEN [h EXCEPT !.chunk = "final", !.line = NoLine]
    ELSE [h EXCEPT !.chunk = "data"]

SizeByte(h, t) ==
    IF t = LF THEN SizeEnd(h)
    ELSE IF t.k = "hex" THEN SizeDigit(h, t.v)
    ELSE [h EXCEPT !.chunk = "skip"]

DataByte(m, h, t) ==
    [BodyAppend(m, h, t) EXCEPT !.rem = @ - 1,
                                !.chunk = IF h.rem = 1 THEN "crlf" ELSE @]

\* Trailer lines are passed over; an empty line ends the response.
FinalByte(m, h, t) ==
    IF t = LF THEN IF h.line = NoLine THEN Finished(m, h) ELSE [h EXCEPT !.line = NoLine]
    ELSE IF IsText(t) THEN [h EXCEPT !.line = t] ELSE h

ChunkedByte(m, h, t) ==
    IF h.chunk = "size" THEN SizeByte(h, t)
    ELSE IF h.chunk = "skip" THEN (IF t = LF THEN SizeEnd(h) ELSE h)
    ELSE IF h.chunk = "data" THEN DataByte(m, h, t)
    ELSE IF h.chunk = "crlf" THEN (IF t = LF THEN [h EXCEPT !.chunk = "size"] ELSE h)
    ELSE FinalByte(m, h, t)

\* http_recv_response on one byte of its input.
RecvResponse(m, h, t) ==
    IF h.state = "status" THEN StatusByte(h, t)
    ELSE IF h.state = "headers" THEN HeaderByte(m, h, t)
    ELSE IF h.chunked THEN ChunkedByte(m, h, t)
    ELSE PlainByte(m, h, t)

\* Mutant of Whole: whatever has arrived when the stream ends is the body.
WholeAsReceived(h, clean) == ~h.full /\ h.state = "body"

(* What a stream that ended means (http_recv_close_verdict: clean;          *)
(* http_recv_timeout_verdict: not): the response's own framing decides.     *)
Whole(h, clean) ==
    /\ ~h.full /\ h.state = "body"
    /\ IF h.clValid THEN DoneCheck(h) ELSE ~h.chunked /\ clean
=============================================================================
