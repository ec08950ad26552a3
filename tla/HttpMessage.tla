----------------------------- MODULE HttpMessage -----------------------------
(* What an HTTP/1.1 server sends: a status line, the framing headers, an     *)
(* empty line and the body, plain or in chunks, as the tokens of HttpParser. *)
EXTENDS Integers, Sequences

Token(k, v) == [k |-> k, v |-> v]
Crlf == <<Token("cr", 0), Token("lf", 0)>>
Line(k, v) == <<Token(k, v)>> \o Crlf

\* The bytes of one response's body are told apart from any other's.
BodyByte(r, i) == Token("byte", <<r.status, i>>)
Bytes(status, from, to) == [i \in 1..to - from + 1 |-> Token("byte", <<status, from + i - 1>>)]

\* A chunk: the digits of its size and the bytes of it that are sent.
Chunk(status, digits, from, to) ==
    [i \in 1..Len(digits) |-> Token("hex", digits[i])] \o Crlf
        \o Bytes(status, from, to) \o Crlf

Terminal(trailer) ==
    <<Token("hex", 0)>> \o Crlf \o (IF trailer THEN Line("field", 0) ELSE <<>>) \o Crlf

Response(status, n, framed, headers, body) ==
    [status |-> status, n |-> n, framed |-> framed, whole |-> TRUE,
     stream |-> Line("status", status) \o headers \o Crlf \o body]

Length(n) == Line("cl", [spaces |-> 1, n |-> n])
Chunked == Line("te", 0)

WithLength(status, n) == Response(status, n, TRUE, Length(n), Bytes(status, 1, n))
Unframed(status, n) == Response(status, n, FALSE, Line("field", 0), Bytes(status, 1, n))
\* Two chunks, of a and b bytes, each one digit.
InChunks(status, a, b, headers) ==
    Response(status, a + b, TRUE, headers,
             Chunk(status, <<a>>, 1, a) \o Chunk(status, <<b>>, a + 1, a + b) \o Terminal(b = 1))
=============================================================================
