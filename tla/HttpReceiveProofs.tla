-------------------------- MODULE HttpReceiveProofs --------------------------
(***************************************************************************)
(* What holds of the receive path for every width, buffer, REU, build,     *)
(* response, record and number of fetches: the sink never writes below its *)
(* floor, and nothing of an earlier response can be read.                  *)
(***************************************************************************)
EXTENDS HttpReceive, TLAPS

----------------------------------------------------------------------------
(* Arithmetic and sequences. *)

LEMMA Products ==
    ASSUME NEW a \in Nat, NEW b \in Nat, NEW c \in Nat, a <= b
    PROVE  a * c \in Nat /\ a * c <= b * c
  <1>1. PICK d \in Nat : b = a + d
    BY b - a \in Nat
  <1>2. b * c = a * c + d * c
    BY <1>1
  <1>. QED
    BY <1>2

LEMMA Below ==
    ASSUME NEW a \in Nat, NEW b \in Nat, a < b
    PROVE  a % b = a
  OBVIOUS

\* The j-th of len bytes that go to base + cursor lies between floor and size.
LEMMA Within ==
    ASSUME NEW base \in Nat, NEW cursor \in Nat, NEW len \in Nat, NEW room \in Nat,
           NEW floor \in Nat, NEW size \in Nat, NEW j \in 1..len,
           base >= floor, base + room <= size, cursor + len <= room
    PROVE  /\ base + (cursor + j - 1) \in Nat
           /\ base + (cursor + j - 1) < size
           /\ base + (cursor + j - 1) >= floor
  OBVIOUS

\* A string of cells of any kind.
IsSeq(s) == \E S : s \in Seq(S)

LEMMA SeqLen ==
    ASSUME NEW s, IsSeq(s)
    PROVE  Len(s) \in Nat /\ (Len(s) = 0 <=> s = <<>>)
  BY DEF IsSeq

LEMMA SeqAppend ==
    ASSUME NEW s, NEW t, IsSeq(s)
    PROVE  IsSeq(Append(s, t))
  <1>1. PICK S : s \in Seq(S)
    BY DEF IsSeq
  <1>2. s \in Seq(S \cup {t})
    BY <1>1
  <1>3. Append(s, t) \in Seq(S \cup {t})
    BY <1>2
  <1>. QED
    BY <1>3 DEF IsSeq

LEMMA SeqEmpty == IsSeq(<<>>)
  <1>1. <<>> \in Seq({})
    OBVIOUS
  <1>. QED
    BY <1>1 DEF IsSeq
----------------------------------------------------------------------------
(* The invariant. *)

\* What the probe leaves: a size it vouches for is at most the REU's.
Probed(m) ==
    /\ m \in [build : {m.build}, sink : {m.sink}, base : {m.base}, banks : {m.banks},
              ok : {m.ok}, top : {m.top}]
    /\ m.base \in Nat /\ m.banks \in Nat /\ m.top \in Nat
    /\ m.ok /\ m.banks # 0 => m.top + 1 <= m.banks

Fields(h) ==
    h \in [status : {h.status}, state : {h.state}, line : {h.line}, done : {h.done},
           clValid : {h.clValid}, length : {h.length}, chunked : {h.chunked},
           chunk : {h.chunk}, rem : {h.rem}, buf : {h.buf}, total : {h.total},
           cursor : {h.cursor}, flushed : {h.flushed}, full : {h.full}, room : {h.room},
           reu : {h.reu}]

\* The body's region, while there is one, lies between the floor and the REU's end.
Region(m, h) ==
    /\ h.room \in Nat /\ h.cursor \in Nat
    /\ h.room > 0 => /\ m.base >= Floor * Bank
                     /\ m.banks # 0 => m.base + h.room <= m.banks * Bank

Reu(m, h) ==
    /\ h.reu = [a \in 0..m.banks * Bank - 1 |-> h.reu[a]]
    /\ \A a \in DOMAIN h.reu : a < Floor * Bank => h.reu[a] = Table

Stored(m, h) ==
    /\ Fields(h)
    /\ IsSeq(h.buf) /\ h.total \in Nat
    /\ Region(m, h)
    /\ Reu(m, h)

\* Before the end of the status line nothing of a response has been kept but its
\* text; after it the status is the response's.
Place ==
    /\ resp \in Responses
    /\ arrived \in Nat /\ taken \in Nat /\ taken <= arrived /\ arrived <= Len(resp.stream)
    /\ http.state = "status" =>
         /\ http.status = 0 /\ http.total = 0 /\ http.buf = <<>>
         /\ \A j \in 1..taken : resp.stream[j] # LF
         /\ taken = 0 => http.line = NoLine
         /\ taken > 0 => http.line.v = resp.status
    /\ http.state # "status" => http.status = resp.status

\* A build of the project, as booted.
Booted ==
    /\ machine.build \in Builds
    /\ machine.banks \in Setup[machine.build].reus

ReceiveInv ==
    /\ Booted
    /\ Probed(machine)
    /\ Stored(machine, http)
    /\ Place
----------------------------------------------------------------------------
(* The sink. *)

\* What the sink and the body's storage never touch.
Same(g, h) == g.status = h.status /\ g.state = h.state /\ g.line = h.line

LEMMA Sizes ==
    /\ Floor * Bank \in Nat /\ Mod \in Nat /\ Bank \in Nat \ {0} /\ Bounce \in Nat \ {0}
    /\ \A n \in Nat : n * Bank \in Nat
  <1>1. Floor \in Nat /\ Bank \in Nat /\ Bank # 0
    BY Widths
  <1>2. Floor * Bank \in Nat
    BY <1>1
  <1>3. \A n \in Nat : n * Bank \in Nat
    BY <1>1
  <1>. QED
    BY <1>1, <1>2, <1>3, Widths

LEMMA RoomRegion ==
    ASSUME NEW m, Probed(m)
    PROVE  /\ SinkRoom(m) \in Nat
           /\ SinkRoom(m) > 0 => /\ m.base >= Floor * Bank
                                 /\ m.banks # 0 => m.base + SinkRoom(m) <= m.banks * Bank
  <1>. DEFINE end == (m.top + 1) * Bank
  <1>1. m.base \in Nat /\ m.banks \in Nat /\ m.top + 1 \in Nat /\ end \in Nat
    BY Sizes DEF Probed
  <1>2. m.ok /\ m.banks # 0 => end <= m.banks * Bank
    BY <1>1, Products, Widths DEF Probed
  <1>3. SinkRoom(m) = IF ~m.ok \/ m.base < Floor * Bank \/ m.base >= end THEN 0 ELSE end - m.base
    BY DEF SinkRoom
  <1>. HIDE DEF end
  <1>. QED
    BY <1>1, <1>2, <1>3, Sizes

LEMMA StashLow ==
    ASSUME NEW m, NEW h, Probed(m), Stored(m, h), h.buf # <<>>, SinkFits(h)
    PROVE  Reu(m, [h EXCEPT !.reu = Stash(m, h), !.cursor = @ + Len(h.buf)])
  <1>. DEFINE g == [h EXCEPT !.reu = Stash(m, h), !.cursor = @ + Len(h.buf)]
  <1>1. g.reu = Stash(m, h)
    BY DEF Stored, Fields
  <1>2. CASE m.banks = 0
    BY <1>1, <1>2 DEF Stash, Reu, Stored
  <1>3. CASE m.banks # 0
    <2>. DEFINE From(a) == {j \in 1..Len(h.buf) : a = Address(m, h.cursor + j - 1)}
    <2>1. Stash(m, h) = [a \in DOMAIN h.reu |->
                IF From(a) = {} THEN h.reu[a] ELSE h.buf[CHOOSE j \in From(a) : TRUE]]
      BY <1>3 DEF Stash
    <2>2. DOMAIN h.reu = 0..m.banks * Bank - 1
      BY DEF Stored, Reu
    <2>3. ASSUME NEW j \in 1..Len(h.buf)
          PROVE  Address(m, h.cursor + j - 1) >= Floor * Bank
      <3>1. Len(h.buf) \in Nat
        BY SeqLen DEF Stored
      <3>2. m.base \in Nat /\ h.cursor \in Nat /\ h.room \in Nat /\ m.banks * Bank \in Nat
        BY Sizes DEF Probed, Stored, Region
      <3>3. h.cursor + Len(h.buf) <= h.room
        BY DEF SinkFits
      <3>4. h.room > 0
        BY <3>1, <3>2, <3>3, <2>3
      <3>5. m.base >= Floor * Bank /\ m.base + h.room <= m.banks * Bank
        BY <3>4, <1>3 DEF Stored, Region
      <3>. DEFINE at == m.base + (h.cursor + j - 1)
      <3>6. at \in Nat /\ at < m.banks * Bank /\ at >= Floor * Bank
        <4>. DEFINE size == m.banks * Bank
                    floor == Floor * Bank
        <4>1. /\ size \in Nat /\ floor \in Nat /\ m.base >= floor /\ m.base + h.room <= size
              /\ h.cursor + Len(h.buf) <= h.room
          BY <3>2, <3>3, <3>5, Sizes
        <4>. HIDE DEF size, floor
        <4>2. at \in Nat /\ at < size /\ at >= floor
          BY <3>1, <3>2, <4>1, Within
        <4>. QED
          BY <4>2 DEF size, floor
      <3>7. at % (m.banks * Bank) = at
        <4>. HIDE DEF at
        <4>. QED
          BY <3>2, <3>6, Below
      <3>. QED
        BY <3>6, <3>7 DEF Address
    <2>4. ASSUME NEW a \in 0..m.banks * Bank - 1, a < Floor * Bank
          PROVE  From(a) = {}
      <3>1. SUFFICES ASSUME NEW j \in 1..Len(h.buf), a = Address(m, h.cursor + j - 1)
                     PROVE  FALSE
        OBVIOUS
      <3>2. a >= Floor * Bank
        BY <3>1, <2>3
      <3>. QED
        BY <3>2, <2>4, Sizes DEF Probed
    <2>5. g.reu = [a \in 0..m.banks * Bank - 1 |->
                IF From(a) = {} THEN h.reu[a] ELSE h.buf[CHOOSE j \in From(a) : TRUE]]
      BY <1>1, <2>1, <2>2
    <2>6. ASSUME NEW a \in 0..m.banks * Bank - 1, a < Floor * Bank
          PROVE  g.reu[a] = Table
      <3>1. g.reu[a] = h.reu[a]
        <4>. HIDE DEF g
        <4>. QED
          BY <2>4, <2>5, <2>6
      <3>2. h.reu[a] = Table
        BY <2>2, <2>6 DEF Stored, Reu
      <3>. QED
        BY <3>1, <3>2
    <2>. HIDE DEF g, From
    <2>7. DOMAIN g.reu = 0..m.banks * Bank - 1 /\ g.reu = [a \in 0..m.banks * Bank - 1 |-> g.reu[a]]
      BY <2>5
    <2>. QED
      BY <2>6, <2>7 DEF Reu, g
  <1>. QED
    BY <1>2, <1>3

\* http_sink_blit writes to its region or not at all.
LEMMA BlitStored ==
    ASSUME NEW m, NEW h, Probed(m), Stored(m, h)
    PROVE  /\ Stored(m, SinkBlit(m, h)) /\ Same(SinkBlit(m, h), h)
           /\ SinkBlit(m, h).total = h.total /\ SinkBlit(m, h).buf = h.buf
  <1>1. CASE h.buf = <<>>
    BY <1>1 DEF SinkBlit, Same
  <1>2. CASE h.buf # <<>> /\ SinkFits(h)
    <2>. DEFINE g == [h EXCEPT !.reu = Stash(m, h), !.cursor = @ + Len(h.buf)]
    <2>1. SinkBlit(m, h) = g
      BY <1>2 DEF SinkBlit
    <2>2. Reu(m, g)
      BY <1>2, StashLow
    <2>3. /\ Fields(g) /\ g.cursor = h.cursor + Len(h.buf)
          /\ g.room = h.room /\ g.buf = h.buf /\ g.total = h.total /\ Same(g, h)
      BY DEF Stored, Fields, Same
    <2>. HIDE DEF g
    <2>4. Region(m, g)
      BY <2>3, SeqLen DEF Stored, Region
    <2>. QED
      BY <2>1, <2>2, <2>3, <2>4 DEF Stored
  <1>3. CASE h.buf # <<>> /\ ~SinkFits(h)
    <2>. DEFINE g == [h EXCEPT !.full = TRUE]
    <2>1. SinkBlit(m, h) = g
      BY <1>3 DEF SinkBlit
    <2>2. /\ Fields(g) /\ g.cursor = h.cursor /\ g.reu = h.reu
          /\ g.room = h.room /\ g.buf = h.buf /\ g.total = h.total /\ Same(g, h)
      BY DEF Stored, Fields, Same
    <2>. HIDE DEF g
    <2>. QED
      BY <2>1, <2>2 DEF Stored, Region, Reu
  <1>. QED
    BY <1>1, <1>2, <1>3

\* http_body_finish; a body of which nothing was counted comes back empty.
LEMMA FinishStored ==
    ASSUME NEW m, NEW h, Probed(m), Stored(m, h)
    PROVE  /\ Stored(m, BodyFinish(m, h)) /\ Same(BodyFinish(m, h), h)
           /\ BodyFinish(m, h).total = h.total
           /\ h.total = 0 /\ h.buf = <<>> => BodyFinish(m, h).buf = <<>>
  <1>1. CASE ~m.sink \/ h.flushed
    BY <1>1 DEF BodyFinish, Same
  <1>2. CASE ~(~m.sink \/ h.flushed)
    <2>. DEFINE f == [h EXCEPT !.flushed = TRUE]
                out == SinkBlit(m, f)
                n == Least(Bounce, out.total)
                back == Fetch(m, out, n)
                g == [out EXCEPT !.buf = back]
    <2>1. BodyFinish(m, h) = g
      BY <1>2 DEF BodyFinish
    <2>2. /\ Fields(f) /\ f.cursor = h.cursor /\ f.reu = h.reu
          /\ f.room = h.room /\ f.buf = h.buf /\ f.total = h.total /\ Same(f, h)
      BY DEF Stored, Fields, Same
    <2>. HIDE DEF f
    <2>3. Stored(m, f)
      BY <2>2 DEF Stored, Region, Reu
    <2>4. Stored(m, out) /\ Same(out, f) /\ out.total = f.total
      BY <2>3, BlitStored
    <2>. HIDE DEF out
    <2>5. n \in Nat /\ (out.total = 0 => n = 0)
      BY <2>4, Sizes DEF Least, Stored
    <2>. HIDE DEF n
    <2>6. back = [i \in 1..n |-> IF m.banks = 0 THEN NoLine ELSE out.reu[Address(m, i - 1)]]
      BY DEF Fetch
    <2>. HIDE DEF back
    <2>7. IsSeq(back)
      <3>. DEFINE S == {back[i] : i \in 1..n}
      <3>1. \A i \in 1..n : back[i] \in S
        OBVIOUS
      <3>. HIDE DEF S
      <3>2. back \in [1..n -> S]
        BY <2>6, <3>1
      <3>3. back \in Seq(S)
        BY <2>5, <3>2
      <3>. QED
        BY <3>3 DEF IsSeq
    <2>8. n = 0 => back = <<>>
      <3>1. n = 0 => DOMAIN back = 1..0 /\ Len(back) = 0
        BY <2>6, <2>5
      <3>. QED
        BY <3>1, <2>7, SeqLen
    <2>9. /\ Fields(g) /\ g.cursor = out.cursor /\ g.reu = out.reu
          /\ g.room = out.room /\ g.buf = back /\ g.total = out.total /\ Same(g, out)
      BY <2>4 DEF Stored, Fields, Same
    <2>. HIDE DEF g
    <2>10. Stored(m, g)
      BY <2>4, <2>7, <2>9 DEF Stored, Region, Reu
    <2>11. Same(g, h)
      BY <2>2, <2>4, <2>9 DEF Same
    <2>. QED
      BY <2>1, <2>2, <2>4, <2>5, <2>8, <2>9, <2>10, <2>11
  <1>. QED
    BY <1>1, <1>2
----------------------------------------------------------------------------
(* The parser: where it does not store, it leaves the body's storage alone. *)

Untouched(g, h) ==
    /\ Fields(g)
    /\ g.buf = h.buf /\ g.total = h.total /\ g.cursor = h.cursor
    /\ g.room = h.room /\ g.reu = h.reu

LEMMA KeepStored ==
    ASSUME NEW m, NEW g, NEW h, Stored(m, h), Untouched(g, h)
    PROVE  Stored(m, g)
  BY DEF Stored, Untouched, Region, Reu

LEMMA BeginStored ==
    ASSUME NEW m, NEW h, Probed(m), Stored(m, h)
    PROVE  /\ Stored(m, BodyBegin(m, h)) /\ Same(BodyBegin(m, h), h)
           /\ BodyBegin(m, h).total = 0 /\ BodyBegin(m, h).buf = <<>>
  <1>. DEFINE g == BodyBegin(m, h)
  <1>1. /\ Fields(g) /\ g.cursor = 0 /\ g.reu = h.reu /\ g.room = SinkRoom(m)
        /\ g.buf = <<>> /\ g.total = 0 /\ Same(g, h)
    BY DEF BodyBegin, Stored, Fields, Same
  <1>. HIDE DEF g
  <1>2. Region(m, g)
    BY <1>1, RoomRegion DEF Region
  <1>3. Stored(m, g)
    BY <1>1, <1>2, SeqEmpty DEF Stored, Reu
  <1>. QED
    BY <1>1, <1>3 DEF g

LEMMA FinishedStored ==
    ASSUME NEW m, NEW h, Probed(m), Stored(m, h)
    PROVE  Stored(m, Finished(m, h)) /\ Same(Finished(m, h), h)
  <1>. DEFINE f == BodyFinish(m, h)
  <1>1. Stored(m, f) /\ Same(f, h)
    BY FinishStored
  <1>2. Finished(m, h) = [f EXCEPT !.done = TRUE]
    BY DEF Finished
  <1>. HIDE DEF f
  <1>3. Untouched([f EXCEPT !.done = TRUE], f) /\ Same([f EXCEPT !.done = TRUE], f)
    BY <1>1 DEF Stored, Fields, Untouched, Same
  <1>4. Stored(m, [f EXCEPT !.done = TRUE])
    BY <1>1, <1>3, KeepStored
  <1>. QED
    BY <1>1, <1>2, <1>3, <1>4 DEF Same

\* body_append: a byte more in the buffer, or the full buffer to the sink.
LEMMA AppendStored ==
    ASSUME NEW m, NEW h, NEW t, Probed(m), Stored(m, h)
    PROVE  Stored(m, BodyAppend(m, h, t)) /\ Same(BodyAppend(m, h, t), h)
  <1>. DEFINE counted == [h EXCEPT !.total = (@ + 1) % Mod]
              stored  == [counted EXCEPT !.buf = Append(@, t)]
              sunk    == SinkBlit(m, stored)
              emptied == [sunk EXCEPT !.buf = <<>>]
  <1>1. BodyAppend(m, h, t) \in {counted, stored, emptied}
    BY DEF BodyAppend
  <1>2. (h.total + 1) % Mod \in Nat
    <2>1. h.total + 1 \in Nat /\ Mod \in Nat /\ Mod > 0
      BY Widths DEF Stored
    <2>. QED
      BY <2>1
  <1>3. Stored(m, counted) /\ Same(counted, h)
    <2>1. /\ Fields(counted) /\ counted.cursor = h.cursor /\ counted.reu = h.reu
          /\ counted.room = h.room /\ counted.buf = h.buf
          /\ counted.total = (h.total + 1) % Mod /\ Same(counted, h)
      BY DEF Stored, Fields, Same
    <2>. HIDE DEF counted
    <2>. QED
      BY <1>2, <2>1 DEF Stored, Region, Reu
  <1>. HIDE DEF counted
  <1>4. Stored(m, stored) /\ Same(stored, h)
    <2>1. /\ Fields(stored) /\ stored.cursor = counted.cursor /\ stored.reu = counted.reu
          /\ stored.room = counted.room /\ stored.buf = Append(counted.buf, t)
          /\ stored.total = counted.total /\ Same(stored, counted)
      BY <1>3 DEF Stored, Fields, Same
    <2>2. IsSeq(Append(counted.buf, t))
      BY <1>3, SeqAppend DEF Stored
    <2>. HIDE DEF stored
    <2>3. Stored(m, stored)
      BY <1>3, <2>1, <2>2 DEF Stored, Region, Reu
    <2>. QED
      BY <1>3, <2>1, <2>3 DEF Same
  <1>. HIDE DEF stored
  <1>5. Stored(m, sunk) /\ Same(sunk, h)
    BY <1>4, BlitStored DEF Same
  <1>. HIDE DEF sunk
  <1>6. Stored(m, emptied) /\ Same(emptied, h)
    <2>1. /\ Fields(emptied) /\ emptied.cursor = sunk.cursor /\ emptied.reu = sunk.reu
          /\ emptied.room = sunk.room /\ emptied.buf = <<>>
          /\ emptied.total = sunk.total /\ Same(emptied, sunk)
      BY <1>5 DEF Stored, Fields, Same
    <2>. HIDE DEF emptied
    <2>2. Stored(m, emptied)
      BY <1>5, <2>1, SeqEmpty DEF Stored, Region, Reu
    <2>. QED
      BY <1>5, <2>1, <2>2 DEF Same
  <1>. HIDE DEF emptied
  <1>. QED
    BY <1>1, <1>3, <1>4, <1>6

LEMMA PlainEndStored ==
    ASSUME NEW m, NEW h, Probed(m), Stored(m, h)
    PROVE  Stored(m, PlainEnd(m, h)) /\ Same(PlainEnd(m, h), h)
  <1>1. PlainEnd(m, h) \in {h, Finished(m, h)}
    BY DEF PlainEnd
  <1>2. Same(h, h)
    BY DEF Same
  <1>. QED
    BY <1>1, <1>2, FinishedStored

LEMMA StatusStored ==
    ASSUME NEW m, NEW h, NEW t, Stored(m, h)
    PROVE  Stored(m, StatusByte(h, t))
  <1>1. Untouched(StatusByte(h, t), h)
    BY DEF StatusByte, HdrInit, Stored, Fields, Untouched
  <1>. QED
    BY <1>1, KeepStored

LEMMA HeaderStored ==
    ASSUME NEW m, NEW h, NEW t, Probed(m), Stored(m, h)
    PROVE  /\ Stored(m, HeaderByte(m, h, t))
           /\ HeaderByte(m, h, t).status = h.status
           /\ HeaderByte(m, h, t).state \in {h.state, "body"}
  <1>. DEFINE g == HeaderByte(m, h, t)
              body == [h EXCEPT !.state = "body"]
  <1>1. CASE IsText(t)
    <2>1. Untouched(g, h) /\ g.status = h.status /\ g.state = h.state
      BY <1>1 DEF HeaderByte, Stored, Fields, Untouched
    <2>. QED
      BY <2>1, KeepStored
  <1>2. CASE ~IsText(t) /\ t # LF
    BY <1>2 DEF HeaderByte
  <1>3. CASE ~IsText(t) /\ t = LF /\ h.line = NoLine
    <2>1. g = PlainEnd(m, BodyBegin(m, body))
      BY <1>3 DEF HeaderByte
    <2>2. Untouched(body, h) /\ body.status = h.status /\ body.state = "body"
      BY DEF Stored, Fields, Untouched
    <2>. HIDE DEF g, body
    <2>3. Stored(m, body)
      BY <2>2, KeepStored
    <2>4. Stored(m, BodyBegin(m, body)) /\ Same(BodyBegin(m, body), body)
      BY <2>3, BeginStored
    <2>5. Stored(m, g) /\ Same(g, BodyBegin(m, body))
      BY <2>1, <2>4, PlainEndStored
    <2>. QED
      BY <2>2, <2>4, <2>5 DEF Same, g
  <1>4. CASE ~IsText(t) /\ t = LF /\ h.line # NoLine
    <2>. DEFINE c == ContentLength(h)
                e == TransferEncoding(c)
    <2>1. g = [e EXCEPT !.line = NoLine]
      BY <1>4 DEF HeaderByte
    <2>2. Untouched(c, h) /\ c.status = h.status /\ c.state = h.state
      BY DEF ContentLength, Stored, Fields, Untouched
    <2>. HIDE DEF c
    <2>3. Untouched(e, h) /\ e.status = h.status /\ e.state = h.state
      BY <2>2 DEF TransferEncoding, Fields, Untouched
    <2>. HIDE DEF e, g
    <2>4. Untouched(g, h) /\ g.status = h.status /\ g.state = h.state
      BY <2>1, <2>3 DEF Fields, Untouched
    <2>. QED
      BY <2>4, KeepStored DEF g
  <1>. QED
    BY <1>1, <1>2, <1>3, <1>4

LEMMA ChunkedStored ==
    ASSUME NEW m, NEW h, NEW t, Probed(m), Stored(m, h)
    PROVE  /\ Stored(m, ChunkedByte(m, h, t))
           /\ ChunkedByte(m, h, t).status = h.status
           /\ ChunkedByte(m, h, t).state = h.state
  <1>. DEFINE Good(g) == Stored(m, g) /\ g.status = h.status /\ g.state = h.state
  <1>1. Good(h)
    OBVIOUS
  <1>2. ASSUME NEW g, Untouched(g, h), g.status = h.status, g.state = h.state
        PROVE  Good(g)
    BY <1>2, KeepStored
  <1>3. Good(SizeEnd(h))
    <2>1. /\ Untouched(SizeEnd(h), h)
          /\ SizeEnd(h).status = h.status /\ SizeEnd(h).state = h.state
      BY DEF SizeEnd, Stored, Fields, Untouched
    <2>. QED
      BY <1>2, <2>1
  <1>4. Good(SizeByte(h, t))
    <2>1. CASE t = LF
      BY <1>3, <2>1 DEF SizeByte
    <2>2. CASE t # LF /\ t.k = "hex"
      <3>1. /\ Untouched(SizeDigit(h, t.v), h)
            /\ SizeDigit(h, t.v).status = h.status /\ SizeDigit(h, t.v).state = h.state
        BY DEF SizeDigit, Stored, Fields, Untouched
      <3>2. Good(SizeDigit(h, t.v))
        BY <1>2, <3>1
      <3>. QED
        BY <2>2, <3>2 DEF SizeByte
    <2>3. CASE t # LF /\ t.k # "hex"
      <3>. DEFINE g == [h EXCEPT !.chunk = "skip"]
      <3>1. Untouched(g, h) /\ g.status = h.status /\ g.state = h.state
        BY DEF Stored, Fields, Untouched
      <3>2. Good(g)
        BY <1>2, <3>1
      <3>. QED
        BY <2>3, <3>2 DEF SizeByte
    <2>. QED
      BY <2>1, <2>2, <2>3
  <1>5. Good(DataByte(m, h, t))
    <2>. DEFINE a == BodyAppend(m, h, t)
                g == [a EXCEPT !.rem = @ - 1, !.chunk = IF h.rem = 1 THEN "crlf" ELSE @]
    <2>1. Stored(m, a) /\ Same(a, h)
      BY AppendStored
    <2>2. DataByte(m, h, t) = g
      BY DEF DataByte
    <2>. HIDE DEF a
    <2>3. Untouched(g, a) /\ g.status = a.status /\ g.state = a.state
      BY <2>1 DEF Stored, Fields, Untouched
    <2>. HIDE DEF g
    <2>. QED
      BY <2>1, <2>2, <2>3, KeepStored DEF Same
  <1>6. \A g : g = [h EXCEPT !.chunk = "size"] \/ g = [h EXCEPT !.line = NoLine]
                 \/ g = [h EXCEPT !.line = t] => Good(g)
    <2>1. ASSUME NEW g, g = [h EXCEPT !.chunk = "size"] \/ g = [h EXCEPT !.line = NoLine]
                          \/ g = [h EXCEPT !.line = t]
          PROVE  Untouched(g, h) /\ g.status = h.status /\ g.state = h.state
      BY <2>1 DEF Stored, Fields, Untouched
    <2>. QED
      BY <1>2, <2>1
  <1>7. Good(FinalByte(m, h, t))
    <2>1. Good(Finished(m, h))
      BY FinishedStored DEF Same
    <2>. HIDE DEF Good
    <2>. QED
      BY <1>1, <1>6, <2>1 DEF FinalByte
  <1>8. Good(ChunkedByte(m, h, t))
    <2>. HIDE DEF Good
    <2>. QED
      BY <1>1, <1>3, <1>4, <1>5, <1>6, <1>7 DEF ChunkedByte
  <1>. QED
    BY <1>8

\* One byte of a response, wherever the parser is.
LEMMA RecvStored ==
    ASSUME NEW m, NEW h, NEW t, Probed(m), Stored(m, h)
    PROVE  /\ Stored(m, RecvResponse(m, h, t))
           /\ h.state = "status" => RecvResponse(m, h, t) = StatusByte(h, t)
           /\ h.state # "status" => /\ RecvResponse(m, h, t).status = h.status
                                    /\ RecvResponse(m, h, t).state # "status"
  <1>1. CASE h.state = "status"
    BY <1>1, StatusStored DEF RecvResponse
  <1>2. CASE h.state = "headers"
    <2>1. RecvResponse(m, h, t) = HeaderByte(m, h, t)
      BY <1>2 DEF RecvResponse
    <2>. QED
      BY <1>2, <2>1, HeaderStored
  <1>3. CASE h.state \notin {"status", "headers"} /\ h.chunked
    <2>1. RecvResponse(m, h, t) = ChunkedByte(m, h, t)
      BY <1>3 DEF RecvResponse
    <2>. QED
      BY <1>3, <2>1, ChunkedStored
  <1>4. CASE h.state \notin {"status", "headers"} /\ ~h.chunked
    <2>. DEFINE a == BodyAppend(m, h, t)
    <2>1. RecvResponse(m, h, t) = PlainEnd(m, a)
      BY <1>4 DEF RecvResponse, PlainByte
    <2>2. Stored(m, a) /\ Same(a, h)
      BY AppendStored
    <2>. HIDE DEF a
    <2>3. Stored(m, PlainEnd(m, a)) /\ Same(PlainEnd(m, a), a)
      BY <2>2, PlainEndStored
    <2>. QED
      BY <1>4, <2>1, <2>2, <2>3 DEF Same
  <1>. QED
    BY <1>1, <1>2, <1>3, <1>4

LEMMA InitStored ==
    ASSUME NEW m, NEW h, Probed(m), Stored(m, h)
    PROVE  LET g == RespInit(m, h) IN
           /\ Stored(m, g)
           /\ g.status = 0 /\ g.state = "status" /\ g.line = NoLine
           /\ g.total = 0 /\ g.buf = <<>>
  <1>. DEFINE a == [h EXCEPT !.status = 0, !.state = "status", !.line = NoLine, !.done = FALSE]
              b == HdrInit(a)
              g == BodyBegin(m, b)
  <1>1. /\ Untouched(a, h)
        /\ a.status = 0 /\ a.state = "status" /\ a.line = NoLine
    BY DEF Stored, Fields, Untouched
  <1>2. RespInit(m, h) = g
    BY DEF RespInit
  <1>. HIDE DEF a
  <1>3. Untouched(b, h) /\ b.status = 0 /\ b.state = "status" /\ b.line = NoLine
    BY <1>1 DEF HdrInit, Fields, Untouched
  <1>. HIDE DEF b
  <1>4. Stored(m, b)
    BY <1>3, KeepStored
  <1>5. Stored(m, g) /\ Same(g, b) /\ g.total = 0 /\ g.buf = <<>>
    BY <1>4, BeginStored
  <1>. HIDE DEF g
  <1>. QED
    BY <1>2, <1>3, <1>5 DEF Same
----------------------------------------------------------------------------
(* The invariant holds at boot and is kept by every step. *)

LEMMA InitInv ==
    ASSUME Init
    PROVE  ReceiveInv
  <1>1. PICK x \in Builds : \E b \in Setup[x].bases, n \in Setup[x].reus :
         /\ arm = CHOOSE a \in Setup[x].arms : TRUE
         /\ resp = CHOOSE r \in Setup[x].responses : TRUE
         /\ machine = [build |-> x, sink |-> FALSE, base |-> b, banks |-> n, ok |-> FALSE, top |-> 0]
         /\ http = [status |-> 0, state |-> "status", line |-> NoLine, done |-> FALSE,
                    clValid |-> FALSE, length |-> 0, chunked |-> FALSE, chunk |-> "size",
                    rem |-> 0, buf |-> <<>>, total |-> 0, cursor |-> 0, flushed |-> FALSE,
                    full |-> FALSE, room |-> 0, reu |-> [a \in 0..n * Bank - 1 |-> Table]]
    BY DEF Init
  <1>2. PICK b \in Setup[x].bases, n \in Setup[x].reus :
         /\ resp = CHOOSE r \in Setup[x].responses : TRUE
         /\ machine = [build |-> x, sink |-> FALSE, base |-> b, banks |-> n, ok |-> FALSE, top |-> 0]
         /\ http = [status |-> 0, state |-> "status", line |-> NoLine, done |-> FALSE,
                    clValid |-> FALSE, length |-> 0, chunked |-> FALSE, chunk |-> "size",
                    rem |-> 0, buf |-> <<>>, total |-> 0, cursor |-> 0, flushed |-> FALSE,
                    full |-> FALSE, room |-> 0, reu |-> [a \in 0..n * Bank - 1 |-> Table]]
    BY <1>1
  <1>3. /\ Setup[x].bases \subseteq 0..Mod - 1 /\ Setup[x].reus \subseteq Nat
        /\ Setup[x].responses # {} /\ Setup[x].responses \subseteq Responses
    BY Setting
  <1>4. b \in Nat /\ n \in Nat
    BY <1>3, Widths
  <1>5. resp \in Responses
    BY <1>2, <1>3
  <1>6. Booted
    BY <1>2 DEF Booted
  <1>7. Probed(machine)
    BY <1>2, <1>4 DEF Probed
  <1>8. Stored(machine, http)
    <2>1. Fields(http)
      BY <1>2 DEF Fields
    <2>2. Region(machine, http)
      BY <1>2 DEF Region
    <2>3. Reu(machine, http)
      <3>1. http.reu = [a \in 0..machine.banks * Bank - 1 |-> Table]
        BY <1>2
      <3>. QED
        BY <3>1 DEF Reu
    <2>. QED
      BY <1>2, <2>1, <2>2, <2>3, SeqEmpty DEF Stored
  <1>9. Place
    <2>1. arrived = 0 /\ taken = 0
      BY DEF Init
    <2>2. Len(resp.stream) \in Nat
      BY <1>5, StatusLine
    <2>. QED
      BY <1>2, <1>5, <2>1, <2>2 DEF Place
  <1>. QED
    BY <1>6, <1>7, <1>8, <1>9 DEF ReceiveInv

\* reu_probe_size stops at the first bank that is not there: no later than the
\* bank behind the last one, which shows bank 0 again.
LEMMA ProbeKeeps ==
    ASSUME ReceiveInv, NEW ok \in BOOLEAN, ProbeSize(ok)
    PROVE  ReceiveInv'
  <1>1. PICK x \in Powers :
         /\ Missing(x) /\ \A y \in Powers : Missing(y) => x <= y
         /\ machine' = [machine EXCEPT !.ok = ok, !.top = x - 1]
    BY DEF ProbeSize
  <1>2. UNCHANGED <<http, resp, arrived, taken>>
    BY DEF ProbeSize
  <1>3. x \in Nat /\ x >= 1
    <2>1. Mod \div Bank \in Int
      BY Sizes
    <2>. QED
      BY <2>1 DEF Powers
  <1>4. /\ machine'.build = machine.build /\ machine'.sink = machine.sink
        /\ machine'.base = machine.base /\ machine'.banks = machine.banks
        /\ machine'.ok = ok /\ machine'.top = x - 1
        /\ machine' \in [build : {machine'.build}, sink : {machine'.sink}, base : {machine'.base},
                         banks : {machine'.banks}, ok : {machine'.ok}, top : {machine'.top}]
    BY <1>1 DEF ReceiveInv, Probed
  <1>5. machine.banks # 0 => x <= machine.banks
    <2>. DEFINE n == machine.banks
    <2>1. SUFFICES ASSUME n # 0 PROVE x <= n
      OBVIOUS
    <2>2. n \in Setup[machine.build].reus /\ machine.build \in Builds /\ n \in Nat
      BY DEF ReceiveInv, Booted, Probed
    <2>3. n * Bank <= Mod /\ \E k \in 0..8 : n = 2^k
      BY <2>1, <2>2, Setting
    <2>. HIDE DEF n
    <2>4. n <= Mod \div Bank
      <3>1. Mod \div Bank \in Int /\ Mod < Bank * ((Mod \div Bank) + 1)
        BY Sizes
      <3>2. SUFFICES ASSUME (Mod \div Bank) + 1 <= n PROVE FALSE
        BY <3>1, <2>2
      <3>3. (Mod \div Bank) + 1 \in Nat
        BY Sizes
      <3>4. ((Mod \div Bank) + 1) * Bank <= n * Bank
        BY <3>2, <3>3, <2>2, Products, Sizes
      <3>5. ((Mod \div Bank) + 1) * Bank = Bank * ((Mod \div Bank) + 1)
        BY <3>3, Sizes
      <3>6. n * Bank \in Nat
        BY <2>2, Sizes
      <3>. QED
        BY <2>3, <3>1, <3>4, <3>5, <3>6, Sizes
    <2>5. n \in Powers
      <3>1. Mod \div Bank \in Int
        BY Sizes
      <3>2. n \in 1..Mod \div Bank
        BY <2>1, <2>2, <2>4, <3>1
      <3>. QED
        BY <2>3, <3>2 DEF Powers
    <2>6. n % n = 0
      BY <2>1, <2>2
    <2>7. Missing(n)
      BY <2>1, <2>6 DEF Missing, n
    <2>. QED
      BY <1>1, <2>5, <2>7
  <1>6. Probed(machine)'
    BY <1>3, <1>4, <1>5 DEF ReceiveInv, Probed
  <1>7. Booted'
    BY <1>4 DEF ReceiveInv, Booted
  <1>8. Stored(machine, http)'
    BY <1>2, <1>4 DEF ReceiveInv, Stored, Fields, Region, Reu
  <1>9. Place'
    BY <1>2 DEF ReceiveInv, Place
  <1>. QED
    BY <1>6, <1>7, <1>8, <1>9 DEF ReceiveInv

\* A fetch begins with nothing of the one before it.
LEMMA FetchKeeps ==
    ASSUME ReceiveInv, NEW a, NEW r \in Build.responses, HttpGet(a, r) \/ FetchFails(a, r)
    PROVE  ReceiveInv'
  <1>1. /\ http' = RespInit(machine, http) /\ resp' = r /\ arrived' = 0 /\ taken' = 0
        /\ \/ machine' = machine
           \/ machine' = [machine EXCEPT !.sink = @ \/ (a # "plain" /\ Build.toReu)]
    BY DEF HttpGet, FetchFails, Fetching
  <1>2. r \in Responses
    BY Setting DEF ReceiveInv, Booted, Build
  <1>3. /\ machine'.build = machine.build
        /\ machine'.base = machine.base /\ machine'.banks = machine.banks
        /\ machine'.ok = machine.ok /\ machine'.top = machine.top
        /\ machine' \in [build : {machine'.build}, sink : {machine'.sink}, base : {machine'.base},
                         banks : {machine'.banks}, ok : {machine'.ok}, top : {machine'.top}]
    BY <1>1 DEF ReceiveInv, Probed
  <1>4. Booted' /\ Probed(machine)'
    BY <1>3 DEF ReceiveInv, Booted, Probed
  <1>5. /\ Stored(machine, http')
        /\ http'.status = 0 /\ http'.state = "status" /\ http'.line = NoLine
        /\ http'.total = 0 /\ http'.buf = <<>>
    BY <1>1, InitStored DEF ReceiveInv
  <1>6. Stored(machine, http)'
    BY <1>3, <1>5 DEF Stored, Fields, Region, Reu
  <1>7. Place'
    <2>1. Len(r.stream) \in Nat
      BY <1>2, StatusLine
    <2>. QED
      BY <1>1, <1>2, <1>5, <2>1 DEF Place
  <1>. QED
    BY <1>4, <1>6, <1>7 DEF ReceiveInv

\* The end of a fetch keeps what the response brought, and empties nothing else.
LEMMA ReturnKeeps ==
    ASSUME ReceiveInv, NEW c, Return(c)
    PROVE  ReceiveInv'
  <1>1. http' = BodyFinish(machine, http) /\ UNCHANGED <<machine, resp, arrived, taken>>
    BY DEF Return
  <1>2. /\ Stored(machine, http') /\ Same(http', http) /\ http'.total = http.total
        /\ http.total = 0 /\ http.buf = <<>> => http'.buf = <<>>
    BY <1>1, FinishStored DEF ReceiveInv
  <1>3. Booted' /\ Probed(machine)' /\ Stored(machine, http)'
    BY <1>1, <1>2 DEF ReceiveInv, Booted
  <1>4. Place'
    BY <1>1, <1>2 DEF ReceiveInv, Place, Same
  <1>. QED
    BY <1>3, <1>4 DEF ReceiveInv

LEMMA ArriveKeeps ==
    ASSUME ReceiveInv, NEW n \in Nat, arrived + n <= Len(resp.stream), arrived' = arrived + n,
           UNCHANGED <<machine, http, resp, taken>>
    PROVE  ReceiveInv'
  <1>1. Booted' /\ Probed(machine)' /\ Stored(machine, http)'
    BY DEF ReceiveInv, Booted
  <1>2. Place'
    <2>1. arrived' \in Nat /\ taken' <= arrived' /\ arrived' <= Len(resp'.stream)
      <3>1. arrived \in Nat /\ taken \in Nat /\ taken <= arrived
        BY DEF ReceiveInv, Place
      <3>. QED
        BY <3>1
    <2>. QED
      BY <2>1 DEF ReceiveInv, Place
  <1>. QED
    BY <1>1, <1>2 DEF ReceiveInv

LEMMA IdleKeeps ==
    ASSUME ReceiveInv, UNCHANGED <<machine, http, resp, arrived, taken>>
    PROVE  ReceiveInv'
  BY DEF ReceiveInv, Booted, Place

\* The parser takes a byte: the status is known when its line ends.
LEMMA ParseKeeps ==
    ASSUME ReceiveInv, ParseByte
    PROVE  ReceiveInv'
  <1>. DEFINE t == resp.stream[taken + 1]
  <1>1. /\ taken < arrived /\ http' = RecvResponse(machine, http, t) /\ taken' = taken + 1
        /\ UNCHANGED <<machine, resp, arrived>>
    BY DEF ParseByte
  <1>2. /\ Stored(machine, http')
        /\ http.state = "status" => http' = StatusByte(http, t)
        /\ http.state # "status" => http'.status = http.status /\ http'.state # "status"
    BY <1>1, RecvStored DEF ReceiveInv
  <1>3. Booted' /\ Probed(machine)' /\ Stored(machine, http)'
    BY <1>1, <1>2 DEF ReceiveInv, Booted
  <1>4. /\ resp \in Responses /\ arrived \in Nat /\ taken \in Nat
        /\ taken + 1 <= arrived /\ arrived <= Len(resp.stream)
    BY <1>1 DEF ReceiveInv, Place
  <1>5. taken + 1 \in DOMAIN resp.stream /\ 1 \in DOMAIN resp.stream
    <2>1. resp.stream \in Seq({resp.stream[i] : i \in DOMAIN resp.stream})
      BY <1>4, StatusLine
    <2>2. DOMAIN resp.stream = 1..Len(resp.stream) /\ Len(resp.stream) \in Nat
      BY <2>1
    <2>. QED
      BY <1>4, <2>2
  <1>6. Place'
    <2>1. CASE http.state # "status"
      BY <1>1, <1>2, <1>4, <2>1 DEF ReceiveInv, Place
    <2>2. CASE http.state = "status"
      <3>1. http' = StatusByte(http, t)
        BY <1>2, <2>2
      <3>2. /\ http.status = 0 /\ http.total = 0 /\ http.buf = <<>>
            /\ \A j \in 1..taken : resp.stream[j] # LF
            /\ taken = 0 => http.line = NoLine
            /\ taken > 0 => http.line.v = resp.status
        BY <2>2 DEF ReceiveInv, Place
      <3>3. CASE IsText(t)
        <4>1. t # LF
          BY <3>3 DEF IsText, LF
        <4>2. \A j \in 1..taken + 1 : resp.stream[j] # LF
          BY <1>4, <3>2, <4>1
        <4>3. t.v = resp.status
          BY <1>4, <1>5, <3>3, <4>2, StatusLine
        <4>4. http' = [http EXCEPT !.line = t]
          BY <3>1, <3>3 DEF StatusByte
        <4>. HIDE DEF t
        <4>5. /\ http'.state = "status" /\ http'.status = 0 /\ http'.total = 0
              /\ http'.buf = <<>> /\ http'.line = t
          BY <2>2, <3>2, <4>4 DEF ReceiveInv, Stored, Fields
        <4>. QED
          BY <1>1, <1>4, <4>2, <4>3, <4>5 DEF Place
      <3>4. CASE ~IsText(t)
        <4>1. taken > 0
          <5>1. SUFFICES ASSUME taken = 0 PROVE FALSE
            BY <1>4
          <5>2. t = resp.stream[1]
            BY <5>1
          <5>3. IsText(resp.stream[1])
            BY <1>4, StatusLine
          <5>. QED
            BY <3>4, <5>2, <5>3
        <4>2. CASE t = LF
          <5>. DEFINE g == [http EXCEPT !.state = "headers", !.status = http.line.v, !.line = NoLine]
          <5>1. http' = HdrInit(g)
            BY <3>1, <3>4, <4>2 DEF StatusByte
          <5>2. Fields(g) /\ g.state = "headers" /\ g.status = http.line.v
            BY DEF ReceiveInv, Stored, Fields
          <5>. HIDE DEF g
          <5>3. http'.state = "headers" /\ http'.status = http.line.v
            BY <5>1, <5>2 DEF HdrInit, Fields
          <5>. QED
            BY <1>1, <1>4, <3>2, <4>1, <5>3 DEF Place
        <4>3. CASE t # LF
          <5>1. http' = http
            BY <3>1, <3>4, <4>3 DEF StatusByte
          <5>2. \A j \in 1..taken + 1 : resp.stream[j] # LF
            BY <1>4, <3>2, <4>3
          <5>. QED
            BY <1>1, <1>4, <2>2, <3>2, <4>1, <5>1, <5>2 DEF Place
        <4>. QED
          BY <4>2, <4>3
      <3>. QED
        BY <3>3, <3>4
    <2>. QED
      BY <2>1, <2>2
  <1>. QED
    BY <1>3, <1>6 DEF ReceiveInv

LEMMA AgainKeeps ==
    ASSUME ReceiveInv, NEW t, Again(t)
    PROVE  ReceiveInv'
  BY IdleKeeps DEF Again

LEMMA NextKeeps ==
    ASSUME ReceiveInv, [Next]_vars
    PROVE  ReceiveInv'
  <1>1. ASSUME NEW ok \in BOOLEAN, ProbeSize(ok)
        PROVE  ReceiveInv'
    BY <1>1, ProbeKeeps
  <1>2. ASSUME NEW a \in Build.arms, NEW r \in Build.responses, HttpGet(a, r) \/ FetchFails(a, r)
        PROVE  ReceiveInv'
    BY <1>2, FetchKeeps
  <1>3. ASSUME NEW n \in 1..MaxSpan, TlsRecord(n)
        PROVE  ReceiveInv'
    BY <1>3, ArriveKeeps DEF TlsRecord
  <1>4. CASE TlsClose
    BY <1>4, ReturnKeeps DEF TlsClose, Verdict
  <1>5. CASE TlsAborts
    BY <1>5, ReturnKeeps DEF TlsAborts
  <1>6. CASE TlsTick
    BY <1>6, ReturnKeeps, IdleKeeps DEF TlsTick, Verdict
  <1>7. ASSUME NEW n \in 0..MaxSpan, NEW e, Poll(n, e)
        PROVE  ReceiveInv'
    BY <1>7, ArriveKeeps DEF Poll
  <1>8. CASE ParseByte
    BY <1>8, ParseKeeps
  <1>9. CASE Complete
    BY <1>9, ReturnKeeps DEF Complete
  <1>10. CASE TlsDry
    BY <1>10, ReturnKeeps, AgainKeeps DEF TlsDry
  <1>11. CASE PlainDry
    BY <1>11, ReturnKeeps, AgainKeeps DEF PlainDry
  <1>12. CASE M3Dry
    BY <1>12, ReturnKeeps, AgainKeeps DEF M3Dry, Verdict
  <1>13. CASE MainLoop \/ UNCHANGED vars
    BY <1>13, IdleKeeps DEF MainLoop, vars
  <1>. QED
    BY <1>1, <1>2, <1>3, <1>4, <1>5, <1>6, <1>7, <1>8, <1>9, <1>10, <1>11, <1>12, <1>13
    DEF Next, Receive

(* The inductive invariant: a probe that vouches for a size vouches for no   *)
(* more than is there, the body's region lies between the floor and the end  *)
(* of the REU, and the parser's place in the stream says what it may know.   *)
THEOREM Inductive == Spec => []ReceiveInv
  <1>1. Init => ReceiveInv
    BY InitInv
  <1>2. ReceiveInv /\ [Next]_vars => ReceiveInv'
    BY NextKeeps
  <1>. QED
    BY <1>1, <1>2, PTL DEF Spec

(* The tables and the code below the floor survive every fetch: no body,     *)
(* however long, wraps round an REU of any size into them, whether the probe *)
(* found the size, found none or was not confirmed.                          *)
THEOREM TablesKept == Spec => []LowBanksIntact
  <1>1. ReceiveInv => LowBanksIntact
    BY DEF ReceiveInv, Stored, Reu, LowBanksIntact
  <1>. QED
    BY <1>1, Inductive, PTL

(* Whatever has become of a fetch, the status that can be read is 0 or its   *)
(* own response's, and with 0 there is neither a body nor a count of one.    *)
THEOREM NothingStale == Spec => []NothingOfTheLast
  <1>1. ReceiveInv => NothingOfTheLast
    <2>1. SUFFICES ASSUME ReceiveInv PROVE NothingOfTheLast
      OBVIOUS
    <2>2. resp \in Responses
      BY <2>1 DEF ReceiveInv, Place
    <2>3. resp.status # 0
      BY <2>2, Setting
    <2>. QED
      BY <2>1, <2>3 DEF ReceiveInv, Place, NothingOfTheLast
  <1>. QED
    BY <1>1, Inductive, PTL
=============================================================================
