--------------------------- MODULE MCHttpReceive ----------------------------
(* The receive loops for TLC: counters of 16 values instead of 2^24, a      *)
(* buffer of two bytes, banks of two, chunk sizes in base 4.                *)
EXTENDS HttpReceive, HttpMessage

MCByte(r, i) == BodyByte(r, i)

\* A chunk whose size does not fit (16 of 16), of which three bytes arrive.
Oversize(status) ==
    [Response(status, 16, TRUE, Chunked, Chunk(status, <<1, 0, 0>>, 1, 3)) EXCEPT !.whole = FALSE]

Shapes == {WithLength(1, 0), WithLength(2, 5), Unframed(3, 0), Unframed(4, 3),
           InChunks(5, 3, 2, Chunked), InChunks(6, 1, 2, Chunked \o Length(3)), Oversize(7)}
Bodies == {WithLength(1, 7), InChunks(3, 3, 3, Chunked)}

\* The shapes through every loop; the bodies through the sink, with an REU that
\* is missing, too small or just large enough.
MCSetup ==
  [shapes |-> [arms |-> {"tls", "plain", "m3"}, toReu |-> FALSE, bases |-> {6}, reus |-> {8},
               responses |-> Shapes],
   sink |-> [arms |-> {"tls", "m3"}, toReu |-> TRUE, bases |-> {2, 10},
             reus |-> {0, 4, 8}, responses |-> Bodies]]
MCBuilds == DOMAIN MCSetup
MCResponses == Shapes \cup Bodies
=============================================================================
