--------------------------- MODULE BodyPollProofs ----------------------------
(* The safety properties of the poll loop, for every budget, stall limit, body *)
(* size and byte width.  Two invariants carry them: what the C64's own steps   *)
(* keep (Machine), and how the rig's memory of its last reads relates to a C64 *)
(* that has moved on since (Memory).                                           *)
EXTENDS BodyPoll, TLAPS

\* The C64: a counter between two INCs has a byte's worth to lose; nothing is
\* received before the handshake; a socket that is gone stays gone.
Machine ==
    /\ step = "carry" => Total(taken) >= Radix
    /\ ph \in {"dial", "tls"} => sent = 0
    /\ ph = "dial" => ~sock
    /\ ph \in {"done", "menu", "basic"} => ~sock
    /\ tcp = "CLOSED" /\ ph # "dial" => ~sock
    /\ tls = "ERROR" => ph \notin {"dial", "tls"}
    /\ closed => ph \in {"menu", "basic"}

Polling == {"top", "sink", "tls", "tcp", "tcp_failed", "sleep"}

\* The rig: its deadlines, and what the values it keeps still say.
Bounds ==
    /\ pc \in Polling => now < Budget /\ ~early /\ ~before /\ fif
    /\ pc \in Polling \cup {"press"} => looks = 0
    /\ pc = "look" => looks <= CloseBudget
    /\ pc \in {"shadow", "confirm"} => early
    /\ pc \in Polling => body # "pass"
    /\ pc \notin {"top", "sink"} => body # "none"
    /\ pc # "end" => code = -1
Seen ==
    /\ seen.parse = 2 => taken >= 2
    /\ seen.terminal => resp.framing = "chunked" /\ taken = Parts
    /\ seen.total <= Total(taken)
    /\ body = "pass" => resp.framing # "unframed" /\ taken = Parts
Gone ==
    /\ pc = "tcp_failed" => tls = "ERROR"
    /\ early => tcp # "CONNECTED" /\ ph \notin {"dial", "tls"}
    /\ before => ph # "dial" /\ ~sock
    /\ ~fif => ph # "dial" /\ ~sock
Stall ==
    /\ last <= Total(taken)
    /\ last = Total(taken) => counted <= moved
    /\ pc = "sink" /\ seen.total = last => grew <= moved
    /\ pc # "sink" /\ body # "pass" => grew <= moved
    /\ pc \notin Polling /\ ~early /\ body # "pass" /\ settled = "pass"
         => Budget - moved >= StallGrace
Verdict ==
    /\ code = 0 => resp.status = 200 /\ body = "pass"
    /\ code = 1 /\ run.banner /\ kex = "pass" /\ resp.status = 200 /\ seen.parse = 2
         => body = "fail" /\ settled = "pass" /\ pc = "end"
Memory == Bounds /\ Seen /\ Gone /\ Stall /\ Verdict

IndInv == TypeOK /\ Machine /\ Memory

-----------------------------------------------------------------------------
(* Arithmetic of the body counter. *)

\* A positive number that Radix divides is at least Radix.
LEMMA Carries ==
    ASSUME NEW k \in Nat, k > 0, k % Radix = 0
    PROVE k >= Radix
  <1>1. Radix \in Nat /\ Radix > 0
    BY StallConfig
  <1>2. SUFFICES ASSUME k < Radix PROVE FALSE
    BY <1>1
  <1>3. k % Radix = k
    BY <1>1, <1>2
  <1> QED
    BY <1>3

Answers == [status : {200, 404}, framing : {"length", "chunked", "unframed"}, n : Lengths]

\* A response has a natural number of body bytes, and so of parts.
LEMMA Sizes ==
    ASSUME resp \in Answers
    PROVE resp.n \in Nat /\ Parts \in Nat
  <1>1. resp.n \in Lengths
    BY DEF Answers
  <1>2. \A n \in Lengths : n \in Nat
    BY StallConfig
  <1>3. resp.n \in Nat
    BY ONLY <1>1, <1>2
  <1> QED
    BY ONLY <1>3 DEF Parts

\* The number of body bytes among k parts is a natural number, at most n, and
\* all n of them once 2 + n parts are in.
LEMMA Counting ==
    ASSUME resp.n \in Nat, NEW k \in Nat
    PROVE /\ Total(k) \in Nat /\ Total(k) <= resp.n
          /\ k >= 2 /\ Total(k) >= resp.n => k >= 2 + resp.n
          /\ k \in 2 .. resp.n + 1 => Total(k + 1) > Total(k)
          /\ k \notin 2 .. resp.n + 1 => Total(k + 1) = Total(k)
  BY DEF Total

-----------------------------------------------------------------------------
(* The initial states. *)

LEMMA InitInv == Init => IndInv
  <1> SUFFICES ASSUME Init PROVE IndInv
    OBVIOUS
  <1>1. TypeOK
    <2>1. resp \in Answers
      BY DEF Init, Answers
    <2>2. Parts \in Nat
      BY <2>1, Sizes
    <2>3. TypeC64
      <3>1. sent \in 0 .. Parts /\ taken \in 0 .. sent /\ counted \in 0 .. now
        BY <2>2 DEF Init
      <3>2. sock \in BOOLEAN /\ full \in BOOLEAN /\ closed \in BOOLEAN /\ q \in BOOLEAN
        BY DEF Init
      <3>3. /\ ph \in {"dial", "tls", "tls_failed", "recv", "viewer", "close", "done", "menu",
                       "basic"}
            /\ tcp \in {"CLOSED", "CONNECTED", "ERROR", "CONNECT_FAIL"}
            /\ tls \in {"NONE", "ERROR"} /\ step \in {"read", "carry", "blit"}
        BY DEF Init
      <3> QED
        BY <3>1, <3>2, <3>3 DEF TypeC64
    <2>4. seen \in [parse : 0 .. 2, total : Nat, terminal : BOOLEAN, full : BOOLEAN]
      BY DEF Init
    <2>5. TypeRig
      <3>1. /\ now \in 0 .. Budget /\ moved \in 0 .. now /\ grew \in 0 .. now
            /\ last \in Nat \cup {-1} /\ looks \in 0 .. CloseBudget + 1
            /\ code \in {-1, 0, 1, 78}
        BY StallConfig DEF Init
      <3>2. early \in BOOLEAN /\ before \in BOOLEAN /\ fif \in BOOLEAN
        BY DEF Init
      <3>3. /\ pc \in {"top", "sink", "tls", "tcp", "tcp_failed", "sleep", "press", "look",
                       "shadow", "confirm", "judge", "end"}
            /\ body \in Verdicts \cup {"none"} /\ settled \in {"pass", "inconclusive"}
            /\ kex \in {"none", "pass", "fail"}
        BY DEF Init
      <3> QED
        BY <2>4, <3>1, <3>2, <3>3 DEF TypeRig
    <2> QED
      BY <2>1, <2>3, <2>5 DEF Init, TypeOK, Answers
  <1>2. Total(0) = 0
    BY DEF Total
  <1>3. Machine
    BY <1>2 DEF Init, Machine
  <1>4. Memory
    BY <1>2, StallConfig DEF Init, Memory, Bounds, Seen, Gone, Stall, Verdict, Polling
  <1> QED
    BY <1>1, <1>3, <1>4 DEF IndInv


-----------------------------------------------------------------------------
(* Steps of the C64. *)

\* The C64 leaves the response and the rig's variables alone.
LEMMA C64Frame == C64Step => UNCHANGED <<resp, run, rig>>
  BY DEF C64Step, DialFails, DialOk, TlsConnect, NetPoll, Parse, BodyAppend, RecvEnds, Viewer,
         TcpClose, DoneMsg, MenuQuit, RigIdle

LEMMA C64Types ==
    ASSUME TypeOK, C64Step
    PROVE TypeOK'
  <1>1. UNCHANGED <<resp, run, rig>>
    BY C64Frame
  <1>2. resp.n \in Nat /\ Parts \in Nat /\ Parts' = Parts /\ now' = now /\ now \in Nat
    BY <1>1, Sizes, StallConfig DEF TypeOK, TypeRig, Answers, Parts, rig
  <1>3. TypeRig'
    BY <1>1 DEF TypeOK, TypeRig, rig
  <1>4. TypeC64
    BY DEF TypeOK
  <1>5. TypeC64'
    <2>1. CASE DialFails \/ DialOk
      BY <1>2, <1>4, <2>1 DEF DialFails, DialOk, TypeC64, RigIdle
    <2>2. CASE TlsConnect
      BY <1>2, <1>4, <2>2 DEF TlsConnect, TypeC64, RigIdle
    <2>3. CASE NetPoll
      <3>1. sent' \in 0 .. Parts' /\ taken' \in 0 .. sent' /\ counted' \in 0 .. now'
        BY <1>2, <1>4, <2>3 DEF NetPoll, TypeC64
      <3>2. tcp' \in {"CLOSED", "CONNECTED", "ERROR", "CONNECT_FAIL"} /\ sock' \in BOOLEAN
        BY <1>4, <2>3 DEF NetPoll, TypeC64
      <3> QED
        BY <1>4, <2>3, <3>1, <3>2 DEF NetPoll, TypeC64, RigIdle
    <2>4. CASE Parse
      BY <1>2, <1>4, <2>4 DEF Parse, TypeC64, RigIdle
    <2>5. CASE BodyAppend
      BY <1>2, <1>4, <2>5 DEF BodyAppend, TypeC64, RigIdle
    <2>6. CASE RecvEnds
      BY <1>2, <1>4, <2>6 DEF RecvEnds, TypeC64, RigIdle
    <2>7. CASE Viewer \/ TcpClose \/ DoneMsg \/ MenuQuit
      BY <1>2, <1>4, <2>7 DEF Viewer, TcpClose, DoneMsg, MenuQuit, TypeC64, RigIdle
    <2> QED
      BY <2>1, <2>2, <2>3, <2>4, <2>5, <2>6, <2>7 DEF C64Step
  <1> QED
    BY <1>1, <1>3, <1>5 DEF TypeOK

\* What the parser has taken only grows, and a body byte is counted when it does.
LEMMA C64Counts ==
    ASSUME TypeOK, Machine, C64Step
    PROVE /\ taken' \in Nat /\ taken <= taken' /\ Total(taken)' >= Total(taken)
          /\ Total(taken)' = Total(taken) => counted' = counted
          /\ Parts' = Parts /\ Total(taken) \in Nat /\ Total(taken)' \in Nat
          /\ (step = "carry" => Total(taken) >= Radix)'
  <1>1. /\ UNCHANGED <<resp, run, rig>> /\ resp.n \in Nat /\ taken \in Nat
        /\ Parts' = Parts /\ Total(taken)' = Total(taken')
    BY C64Frame, Sizes DEF TypeOK, TypeC64, Answers, Parts, Total
  <1>2. Total(taken) \in Nat /\ Total(taken + 1) \in Nat
    BY <1>1, Counting
  <1>3. CASE Parse
    <2>1. taken' = taken + 1
      BY <1>3 DEF Parse
    <2>2. CASE taken \in 2 .. resp.n + 1
      <3>1. Total(taken + 1) > Total(taken)
        BY <1>1, <2>2, Counting
      <3>2. step' = IF Total(taken + 1) % Radix = 0 THEN "carry" ELSE "blit"
        BY <1>3, <2>2 DEF Parse
      <3>3. step' = "carry" => Total(taken + 1) >= Radix
        BY <1>2, <3>1, <3>2, Carries
      <3> QED
        BY <1>1, <1>2, <2>1, <3>1, <3>3
    <2>3. CASE taken \notin 2 .. resp.n + 1
      <3>1. Total(taken + 1) = Total(taken)
        BY <1>1, <2>3, Counting
      <3>2. counted' = counted /\ step' = step /\ step = "read"
        BY <1>3, <2>3 DEF Parse
      <3> QED
        BY <1>1, <1>2, <2>1, <3>1, <3>2
    <2> QED
      BY <2>2, <2>3
  <1>4. CASE ~Parse
    <2>1. taken' = taken /\ counted' = counted /\ (step' = "carry" => step = "carry")
      BY <1>4 DEF C64Step, DialFails, DialOk, TlsConnect, NetPoll, BodyAppend, RecvEnds, Viewer,
                  TcpClose, DoneMsg, MenuQuit
    <2> QED
      BY <1>1, <1>2, <2>1 DEF Machine
  <1> QED
    BY <1>3, <1>4

\* The connection: nothing is received on one that is over, and one that is over
\* does not come back.
LEMMA C64Connection ==
    ASSUME TypeOK, Machine, C64Step
    PROVE /\ Machine'
          /\ tls = "ERROR" => tls' = "ERROR"
          /\ ph \notin {"dial", "tls"} => ph' \notin {"dial", "tls"}
          /\ ph # "dial" => ph' # "dial"
          /\ ph # "dial" /\ ~sock => ~sock'
          /\ tcp # "CONNECTED" /\ ph \notin {"dial", "tls"} => tcp' # "CONNECTED" /\ sent' = sent
  <1>1. (step = "carry" => Total(taken) >= Radix)'
    BY C64Counts
  <1> USE DEF Machine, TypeOK, TypeC64
  <1>2. CASE DialFails \/ DialOk
    BY <1>1, <1>2 DEF DialFails, DialOk
  <1>3. CASE TlsConnect
    BY <1>1, <1>3 DEF TlsConnect
  <1>4. CASE NetPoll
    BY <1>1, <1>4 DEF NetPoll
  <1>5. CASE Parse \/ BodyAppend
    BY <1>1, <1>5 DEF Parse, BodyAppend
  <1>6. CASE RecvEnds
    BY <1>1, <1>6 DEF RecvEnds
  <1>7. CASE Viewer \/ TcpClose \/ DoneMsg \/ MenuQuit
    BY <1>1, <1>7 DEF Viewer, TcpClose, DoneMsg, MenuQuit
  <1> QED
    BY <1>2, <1>3, <1>4, <1>5, <1>6, <1>7 DEF C64Step

\* What the rig remembers stays true while the C64 moves on.
LEMMA C64Memory ==
    ASSUME IndInv, C64Step
    PROVE Memory'
  <1>1. UNCHANGED <<resp, run, rig>>
    BY C64Frame
  <1>2. /\ taken \in Nat /\ taken' \in Nat /\ taken <= taken' /\ Total(taken)' >= Total(taken)
        /\ Total(taken)' = Total(taken) => counted' = counted
        /\ Parts' = Parts /\ Total(taken) \in Nat /\ Total(taken)' \in Nat /\ Parts \in Nat
    BY C64Counts, Sizes DEF IndInv, TypeOK, TypeC64, Answers
  <1>3. taken' <= Parts /\ TypeOK'
    <2>1. TypeOK'
      BY C64Types DEF IndInv
    <2> QED
      BY <1>2, <2>1 DEF TypeOK, TypeC64
  <1>4. TypeRig /\ Bounds /\ Seen /\ Gone /\ Stall /\ Verdict
    BY DEF IndInv, Memory, TypeOK
  <1>5. Bounds' /\ Verdict'
    BY <1>1, <1>4 DEF Bounds, Verdict, rig
  <1>6. Seen'
    BY <1>1, <1>2, <1>3, <1>4 DEF Seen, TypeRig, rig
  <1>7. Gone'
    BY <1>1, <1>4, C64Connection DEF Gone, IndInv, rig
  <1>8. Stall'
    BY <1>1, <1>2, <1>4 DEF Stall, TypeRig, rig
  <1> QED
    BY <1>5, <1>6, <1>7, <1>8 DEF Memory

-----------------------------------------------------------------------------
(* Steps of the rig. *)

\* The rig only reads; the one thing it writes into the C64 is the key.
LEMMA RigFrame == RigStep => UNCHANGED <<resp, run, c64>>
  BY DEF RigStep, ReadState, ReadSinkFull, ReadTlsState, ReadTcpState, Sleep, PressQ, Look,
         RereadShadow, RereadTcp, Judge, C64Idle

\* A read of the counter finds a natural number, between two INCs too, and never
\* more than there is.
LEMMA TornRead ==
    ASSUME TypeOK, Machine
    PROVE /\ BodyTotal \in Nat /\ BodyTotal <= Total(taken) /\ Total(taken) \in Nat
          /\ step = "carry" => BodyTotal < Total(taken)
  <1>1. Total(taken) \in Nat
    BY Sizes, Counting DEF TypeOK, TypeC64, Answers
  <1> QED
    BY <1>1, StallConfig DEF BodyTotal, Machine

LEMMA RigTypes ==
    ASSUME IndInv, RigStep
    PROVE TypeOK'
  <1>1. UNCHANGED <<resp, run, c64>> /\ TypeRig /\ TypeC64 /\ Bounds
    BY RigFrame DEF IndInv, TypeOK, Memory
  <1>2. Parts' = Parts
    BY <1>1 DEF Parts
  <1>3. TypeRig' /\ q' \in BOOLEAN /\ now' >= now
    <2>1. CASE ReadState
      <3>1. seen' \in [parse : 0 .. 2, total : Nat, terminal : BOOLEAN, full : BOOLEAN]
        BY <2>1, TornRead DEF ReadState, ParseState, Terminal, IndInv
      <3> QED
        BY <1>1, <2>1, <3>1 DEF ReadState, TypeRig, TypeC64
    <2>2. CASE ReadSinkFull
      BY <1>1, <2>2 DEF ReadSinkFull, TypeRig, TypeC64, Observe, CheckBodyComplete, AfterTls,
                        FrozenFor, Verdicts
    <2>3. CASE ReadTlsState
      BY <1>1, <2>3 DEF ReadTlsState, TypeRig, TypeC64, AfterTls
    <2>4. CASE ReadTcpState
      <3>1. early' \in BOOLEAN
        BY <1>1, <2>4 DEF ReadTcpState, TypeRig
      <3>2. before' = TRUE \/ before' = FALSE \/ before' = before
        BY <2>4 DEF ReadTcpState
      <3>3. before' \in BOOLEAN
        BY <1>1, <3>2, Zenon DEF TypeRig
      <3>4. settled' \in {"pass", "inconclusive"} /\ pc' \in {"press", "sleep"}
        BY <1>1, <2>4 DEF ReadTcpState, TypeRig
      <3> QED
        BY <1>1, <2>4, <3>1, <3>3, <3>4 DEF ReadTcpState, TypeRig, TypeC64
    <2>5. CASE Sleep
      BY <1>1, <2>5, StallConfig DEF Sleep, TypeRig, TypeC64, Bounds, Polling, CheckFetchSettled
    <2>6. CASE PressQ
      BY <1>1, <2>6 DEF PressQ, TypeRig, TypeC64
    <2>7. CASE Look
      <3>1. fif' \in BOOLEAN
        BY <1>1, <2>7 DEF Look, TypeRig, NotYet, Confirmed
      <3>2. pc' \in {"judge", "look", "shadow"}
        BY <2>7 DEF Look, NotYet, Confirmed
      <3>3. looks' \in 0 .. CloseBudget + 1
        BY <1>1, <2>7, StallConfig DEF Look, TypeRig, Bounds
      <3> QED
        BY <1>1, <2>7, <3>1, <3>2, <3>3 DEF Look, TypeRig, TypeC64
    <2>8. CASE RereadShadow
      BY <1>1, <2>8 DEF RereadShadow, TypeRig, TypeC64, NotYet
    <2>9. CASE RereadTcp
      <3>1. fif' \in BOOLEAN /\ pc' \in {"judge", "look"}
        BY <1>1, <2>9 DEF RereadTcp, TypeRig, NotYet, Confirmed
      <3> QED
        BY <1>1, <2>9, <3>1 DEF RereadTcp, TypeRig, TypeC64
    <2>10. CASE Judge
      BY <1>1, <2>10 DEF Judge, TypeRig, TypeC64, DecideExit
    <2> QED
      BY <2>1, <2>2, <2>3, <2>4, <2>5, <2>6, <2>7, <2>8, <2>9, <2>10 DEF RigStep
  <1>4. TypeC64'
    BY <1>1, <1>2, <1>3 DEF TypeC64, TypeRig, c64
  <1> QED
    BY <1>1, <1>3, <1>4 DEF IndInv, TypeOK

LEMMA RigMachine ==
    ASSUME IndInv, RigStep
    PROVE Machine'
  BY RigFrame DEF IndInv, Machine, Total, c64

\* Deadlines: no poll at the budget, no look past its own, no code before the end.
LEMMA RigBounds ==
    ASSUME IndInv, RigStep
    PROVE Bounds'
  <1>1. Bounds /\ TypeRig
    BY DEF IndInv, TypeOK, Memory
  <1> USE <1>1 DEF Bounds, Polling
  <1>2. CASE ReadState
    BY <1>2 DEF ReadState
  <1>3. CASE ReadSinkFull
    <2>1. body' # "none"
      BY <1>3 DEF ReadSinkFull, CheckBodyComplete
    <2> QED
      BY <1>3, <2>1 DEF ReadSinkFull, AfterTls
  <1>4. CASE ReadTlsState \/ ReadTcpState
    BY <1>4 DEF ReadTlsState, ReadTcpState, AfterTls
  <1>5. CASE Sleep
    BY <1>5 DEF Sleep
  <1>6. CASE PressQ
    <2>1. looks' = looks /\ pc' = "look" /\ code' = code
      BY <1>6 DEF PressQ
    <2> QED
      BY <1>6, <2>1, StallConfig DEF PressQ
  <1>7. CASE Look
    BY <1>7 DEF Look, NotYet, Confirmed
  <1>8. CASE RereadShadow \/ RereadTcp
    BY <1>8 DEF RereadShadow, RereadTcp, NotYet, Confirmed
  <1>9. CASE Judge
    BY <1>9 DEF Judge
  <1> QED
    BY <1>2, <1>3, <1>4, <1>5, <1>6, <1>7, <1>8, <1>9 DEF RigStep

\* A snapshot says of the C64 what is still true of it.
LEMMA RigSeen ==
    ASSUME IndInv, RigStep
    PROVE Seen'
  <1>1. /\ UNCHANGED <<resp, run, c64>> /\ TypeRig /\ Seen
        /\ taken \in Nat /\ taken <= Parts /\ Parts \in Nat /\ resp.n \in Nat
        /\ Total(taken) \in Nat
    BY RigFrame, Sizes, Counting DEF IndInv, TypeOK, TypeC64, Memory, Answers
  <1>2. /\ taken' = taken /\ resp' = resp /\ Parts' = Parts /\ Total(taken)' = Total(taken)
    BY <1>1 DEF c64, Parts, Total
  <1>3. CASE ReadState
    <2>1. /\ seen' = [parse |-> ParseState, total |-> BodyTotal, terminal |-> Terminal,
                      full |-> FALSE]
          /\ body' = body
      BY <1>3 DEF ReadState
    <2>2. (ParseState = 2 => taken >= 2) /\ (Terminal => resp.framing = "chunked" /\ taken = Parts)
      BY <1>1 DEF ParseState, Terminal
    <2>3. BodyTotal <= Total(taken)
      BY TornRead DEF IndInv
    <2> QED
      BY <1>1, <1>2, <2>1, <2>2, <2>3 DEF Seen
  <1>4. CASE ReadSinkFull
    <2>1. /\ seen' = [seen EXCEPT !.full = full]
          /\ body' = CheckBodyComplete([seen EXCEPT !.full = full])
      BY <1>4 DEF ReadSinkFull
    <2>2. /\ seen'.parse = seen.parse /\ seen'.total = seen.total
          /\ seen'.terminal = seen.terminal
      BY <1>1, <2>1 DEF TypeRig
    <2>3. body' = "pass" => /\ seen.parse = 2
                            /\ \/ resp.framing = "length" /\ seen.total = resp.n
                               \/ resp.framing = "chunked" /\ seen.terminal
      BY <1>1, <2>1 DEF CheckBodyComplete, TypeRig
    <2>4. taken >= 2 /\ Total(taken) >= resp.n => taken >= 2 + resp.n
      BY <1>1, Counting
    <2>5. body' = "pass" => resp.framing # "unframed" /\ taken = Parts
      BY <1>1, <2>3, <2>4 DEF Seen, Parts
    <2> QED
      BY <1>1, <1>2, <2>2, <2>5 DEF Seen
  <1>5. CASE ~ReadState /\ ~ReadSinkFull
    <2>1. seen' = seen /\ body' = body
      BY <1>5 DEF RigStep, ReadTlsState, ReadTcpState, Sleep, PressQ, Look, RereadShadow,
                  RereadTcp, Judge
    <2> QED
      BY <1>1, <1>2, <2>1 DEF Seen
  <1> QED
    BY <1>3, <1>4, <1>5

\* The rig gives up, and clears fetch_in_flight, only on a connection that is over.
LEMMA RigGone ==
    ASSUME IndInv, RigStep
    PROVE Gone'
  <1>1. UNCHANGED c64 /\ TypeOK /\ Machine /\ Gone /\ Seen /\ Bounds
    BY RigFrame DEF IndInv, Memory
  <1>2. tcp' = tcp /\ tls' = tls /\ ph' = ph /\ sock' = sock
    BY <1>1 DEF c64
  <1>3. seen.parse = 2 => ph \notin {"dial", "tls"}
    BY <1>1 DEF Machine, Seen, TypeOK, TypeC64
  <1> USE <1>1, <1>2 DEF Gone
  <1>4. CASE ReadState \/ ReadSinkFull \/ Sleep \/ PressQ \/ Judge
    BY <1>4 DEF ReadState, ReadSinkFull, AfterTls, Sleep, PressQ, Judge
  <1>5. CASE ReadTlsState
    BY <1>5 DEF ReadTlsState, AfterTls, HandshakeFailed
  <1>6. CASE ReadTcpState
    <2>1. CASE pc = "tcp_failed" /\ SocketGone(tcp)
      <3>1. tcp = "CLOSED" /\ tls = "ERROR"
        BY <2>1 DEF SocketGone
      <3>2. ph \notin {"dial", "tls"} /\ ~sock
        BY <3>1 DEF Machine
      <3> QED
        BY <1>6, <2>1, <3>1, <3>2 DEF ReadTcpState
    <2>2. CASE pc = "tcp" /\ ShouldStopEarly(tcp)
      <3>1. seen.parse = 2 /\ tcp # "CONNECTED"
        BY <2>2 DEF ShouldStopEarly
      <3>2. before' = (seen.parse < 2) /\ pc' = "press" /\ fif' = fif
        BY <1>6, <2>2 DEF ReadTcpState
      <3>3. ~(seen.parse < 2)
        BY <3>1
      <3>4. ~before'
        BY ONLY <3>2, <3>3, Zenon
      <3> QED
        BY <1>3, <3>1, <3>2, <3>4
    <2>3. CASE /\ ~(pc = "tcp_failed" /\ SocketGone(tcp))
               /\ ~(pc = "tcp" /\ ShouldStopEarly(tcp))
      BY <1>6, <2>3 DEF ReadTcpState
    <2> QED
      BY <2>1, <2>2, <2>3
  <1>7. CASE Look
    <2>1. closed => ph # "dial" /\ ~sock
      BY DEF Machine
    <2> QED
      BY <1>7, <2>1 DEF Look, NotYet, Confirmed
  <1>8. CASE RereadShadow
    BY <1>8 DEF RereadShadow, NotYet
  <1>9. CASE RereadTcp
    <2>1. ph = "basic" => ~sock
      BY DEF Machine
    <2>2. early => ph # "dial"
      OBVIOUS
    <2>3. early
      BY <1>9 DEF RereadTcp, Bounds
    <2>4. tcp = "CLOSED" => ~sock
      BY <2>2, <2>3 DEF Machine
    <2> QED
      BY <1>9, <2>1, <2>2, <2>3, <2>4 DEF RereadTcp, NotYet, Confirmed, ShadowOk
  <1> QED
    BY <1>4, <1>5, <1>6, <1>7, <1>8, <1>9 DEF RigStep

\* The stall clock: what grew is never younger than the time it was seen to move.
LEMMA RigStall ==
    ASSUME IndInv, RigStep
    PROVE Stall'
  <1>1. /\ UNCHANGED <<resp, c64>> /\ TypeRig /\ Bounds /\ Seen /\ Stall
        /\ Total(taken) \in Nat /\ counted \in Nat /\ counted <= now
    BY RigFrame, TornRead DEF IndInv, TypeOK, TypeC64, TypeRig, Memory
  <1>2. Total(taken)' = Total(taken) /\ counted' = counted
    BY <1>1 DEF c64, Total
  <1>3. CASE ReadState
    <2>1. /\ seen'.total = BodyTotal /\ pc = "top" /\ pc' = "sink"
          /\ last' = last /\ moved' = moved /\ body' = body
          /\ grew' = IF step = "carry" THEN grew ELSE counted
      BY <1>3 DEF ReadState
    <2>2. step # "carry" => BodyTotal = Total(taken)
      BY DEF BodyTotal
    <2>3. CASE step # "carry"
      <3>1. seen'.total = last => grew' <= moved
        BY <1>1, <2>1, <2>2, <2>3 DEF Stall
      <3> QED
        BY <1>1, <1>2, <2>1, <3>1 DEF Stall, Polling
    <2>4. CASE step = "carry"
      <3>1. body # "pass"
        BY <1>1, <2>1 DEF Bounds, Polling
      <3> QED
        BY <1>1, <1>2, <2>1, <2>4, <3>1 DEF Stall, Polling
    <2> QED
      BY <2>3, <2>4
  <1>4. CASE ReadSinkFull
    <2>1. grew' = grew /\ seen'.total = seen.total /\ pc = "sink" /\ pc' # "sink"
      BY <1>1, <1>4 DEF ReadSinkFull, AfterTls, TypeRig
    <2>2. CASE body' = "pass"
      <3>1. last' = last /\ moved' = moved
        BY <1>4, <2>2 DEF ReadSinkFull
      <3> QED
        BY <1>1, <1>2, <2>1, <2>2, <3>1 DEF Stall
    <2>3. CASE body' # "pass"
      <3>1. last' = seen.total /\ moved' = (IF seen.total # last THEN now ELSE moved)
        BY <1>1, <1>4, <2>3 DEF ReadSinkFull, Observe, TypeRig
      <3>2. pc' \in Polling
        BY <1>4, <2>3 DEF ReadSinkFull, AfterTls, Polling
      <3> QED
        BY <1>1, <1>2, <2>1, <2>3, <3>1, <3>2 DEF Stall, Seen, TypeRig
    <2> QED
      BY <2>2, <2>3
  <1>5. CASE ReadTlsState
    BY <1>1, <1>2, <1>5 DEF ReadTlsState, Stall, Polling, AfterTls
  <1>6. CASE ReadTcpState
    BY <1>1, <1>2, <1>6 DEF ReadTcpState, Stall, Polling
  <1>7. CASE Sleep
    <2>1. /\ now' = now + 1 /\ pc' # "sink" /\ pc = "sleep"
          /\ UNCHANGED <<last, moved, grew, body, early, seen>>
          /\ pc' \notin Polling => now' >= Budget /\ settled' = CheckFetchSettled(now' - moved)
      BY <1>1, <1>7, StallConfig DEF Sleep, Polling, TypeRig
    <2>2. pc' \notin Polling /\ settled' = "pass" => Budget - moved >= StallGrace
      BY <1>1, <2>1, StallConfig DEF CheckFetchSettled, Bounds, TypeRig, Polling
    <2> QED
      BY <1>1, <1>2, <2>1, <2>2 DEF Stall
  <1>8. CASE PressQ \/ Look \/ RereadShadow \/ RereadTcp \/ Judge
    <2>1. /\ pc \notin Polling /\ pc' \notin Polling /\ pc' # "sink" /\ pc # "sink"
          /\ UNCHANGED <<last, moved, grew, body, early, settled, seen>>
      BY <1>8 DEF PressQ, Look, RereadShadow, RereadTcp, Judge, NotYet, Confirmed, Polling
    <2> QED
      BY <1>1, <1>2, <2>1 DEF Stall
  <1> QED
    BY <1>3, <1>4, <1>5, <1>6, <1>7, <1>8 DEF RigStep

\* The exit code says of the verdicts what decide_exit made of them.
LEMMA RigVerdict ==
    ASSUME IndInv, RigStep
    PROVE Verdict'
  <1>1. UNCHANGED <<resp, run>> /\ TypeRig /\ Bounds /\ Verdict
    BY RigFrame DEF IndInv, TypeOK, Memory
  <1>2. CASE Judge
    <2>1. PICK k \in {"pass", "fail"} : kex' = k /\ code' = DecideExit(k)
      BY <1>2 DEF Judge
    <2>2. pc' = "end" /\ UNCHANGED <<seen, body, settled>>
      BY <1>2 DEF Judge
    <2>3. DecideExit(k) = 0 => resp.status = 200 /\ body = "pass"
      BY <1>1, <1>2 DEF Judge, Bounds, DecideExit, CheckHttpStatus, TypeRig, Verdicts
    <2>4. DecideExit(k) = 1 /\ run.banner /\ k = "pass" /\ resp.status = 200 /\ seen.parse = 2
            => body = "fail" /\ settled = "pass"
      BY <1>1 DEF DecideExit, CheckHttpStatus, TypeRig
    <2> QED
      BY <1>1, <2>1, <2>2, <2>3, <2>4 DEF Verdict
  <1>3. CASE ~Judge
    <2>1. code' = code /\ pc # "end"
      BY <1>3 DEF RigStep, ReadState, ReadSinkFull, ReadTlsState, ReadTcpState, Sleep, PressQ,
                  Look, RereadShadow, RereadTcp
    <2> QED
      BY <1>1, <2>1 DEF Verdict, Bounds
  <1> QED
    BY <1>2, <1>3

-----------------------------------------------------------------------------
(* The theorems. *)

\* The inductive invariant: at every point of the poll loop, what the rig keeps
\* from its earlier reads (the snapshot, the two verdicts, the stall clock,
\* stopped_early and fetch_in_flight) is still a true statement about the C64.
THEOREM Inductive == Spec => []IndInv
  <1>1. Init => IndInv
    BY InitInv
  <1>2. IndInv /\ [Next]_vars => IndInv'
    <2> SUFFICES ASSUME IndInv, [Next]_vars PROVE IndInv'
      OBVIOUS
    <2>1. CASE C64Step
      BY <2>1, C64Types, C64Connection, C64Memory DEF IndInv
    <2>2. CASE RigStep
      BY <2>2, RigTypes, RigMachine, RigBounds, RigSeen, RigGone, RigStall, RigVerdict
         DEF IndInv, Memory
    <2>3. CASE UNCHANGED vars
      <3>1. UNCHANGED <<resp, run, c64, q, rig>>
        BY <2>3 DEF vars
      <3>2. TypeOK'
        BY <3>1 DEF IndInv, TypeOK, TypeC64, TypeRig, Parts, c64, rig
      <3>3. Machine'
        BY <3>1 DEF IndInv, Machine, Total, c64, rig
      <3>4. Memory'
        BY <3>1 DEF IndInv, Memory, Bounds, Seen, Gone, Stall, Verdict, Total, Parts, c64, rig
      <3> QED
        BY <3>2, <3>3, <3>4 DEF IndInv
    <2> QED
      BY <2>1, <2>2, <2>3 DEF Next
  <1> QED
    BY <1>1, <1>2, PTL DEF Spec

\* Every variable keeps its type: the budgets of the loop and of the wait for the
\* close are kept, and a counter read between two INCs of body_append is still a
\* natural number (read_state, poll_until).
THEOREM TypeCorrect == Spec => []TypeOK
  <1>1. IndInv => TypeOK
    BY DEF IndInv
  <1> QED
    BY <1>1, Inductive, PTL

\* Exit 0 of rig_https_banner means a 200 whose framing was satisfied and whose
\* every part the C64 had consumed, for bodies of any length (check_body_complete,
\* decide_exit).
THEOREM PassedWhole == Spec => []PassIsWhole
  <1>1. IndInv => PassIsWhole
    BY DEF IndInv, Memory, Verdict, Seen, PassIsWhole
  <1> QED
    BY <1>1, Inductive, PTL

\* A body that grew within the last STALL_GRACE before the budget ran out is never
\* a FAIL, for any budget, grace and abort times (StallTracker, check_fetch_settled).
THEOREM NeverCryWolf == Spec => []NoCryWolf
  <1>1. IndInv => NoCryWolf
    <2> SUFFICES ASSUME IndInv, code = 1, ~early, run.banner, kex = "pass",
                        resp.status = 200, seen.parse = 2
                 PROVE Budget - grew >= StallGrace
      BY DEF NoCryWolf
    <2>1. body = "fail" /\ settled = "pass" /\ pc = "end"
      BY DEF IndInv, Memory, Verdict
    <2>2. grew <= moved /\ Budget - moved >= StallGrace
      BY <2>1 DEF IndInv, Memory, Stall, Polling
    <2>3. grew \in Nat /\ moved \in Nat /\ Budget \in Nat /\ StallGrace \in Nat
      BY StallConfig DEF IndInv, TypeOK, TypeRig
    <2> QED
      BY <2>2, <2>3
  <1> QED
    BY <1>1, Inductive, PTL

\* fetch_in_flight is cleared only when the firmware holds no socket of the C64,
\* by whichever of the three ways the close was confirmed (close_confirmed).
THEOREM ClearedClosed == Spec => []ClearedIsClosed
  <1>1. IndInv => ClearedIsClosed
    BY DEF IndInv, Memory, Gone, ClearedIsClosed
  <1> QED
    BY <1>1, Inductive, PTL

\* Once the rig has stopped early no further byte reaches the C64's ring
\* (should_stop_early, early_stop_step).
THEOREM QuietAfterStop == Spec => NothingMoreArrives
  <1>1. IndInv /\ [Next]_vars => [early => sent' = sent]_vars
    <2> SUFFICES ASSUME IndInv, Next, early PROVE sent' = sent
      OBVIOUS
    <2>1. tcp # "CONNECTED" /\ ph \notin {"dial", "tls"}
      BY DEF IndInv, Memory, Gone
    <2>2. CASE C64Step
      BY <2>1, <2>2, C64Connection DEF IndInv
    <2>3. CASE RigStep
      BY <2>3, RigFrame DEF c64
    <2> QED
      BY <2>2, <2>3 DEF Next
  <1> QED
    BY <1>1, Inductive, PTL DEF Spec, NothingMoreArrives

=============================================================================
