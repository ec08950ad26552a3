------------------------- MODULE TrustMirrorProofs --------------------------
(* The host's mirror and the 6502 store agree for every generation width,     *)
(* table size and history, but for the stumps of files the two judge in a     *)
(* different order: the mirror's arithmetic is modulo the width, the 6502's   *)
(* wraps by hand, and the mirror reads once what the 6502 reads twice.        *)
EXTENDS TrustMirror, TrustStoreProofs, FiniteSetTheorems

\* The remainder of a number less than one modulus away from its range.
LEMMA Remainder ==
    ASSUME NEW m \in Nat, m > 0, NEW x \in Int
    PROVE  /\ x \in 0 .. m - 1 => x % m = x
           /\ x + m \in 0 .. m - 1 => x % m = x + m
           /\ x - m \in 0 .. m - 1 => x % m = x - m
<1>1. ASSUME x \in 0 .. m - 1 PROVE x % m = x
    BY <1>1
<1>2. ASSUME x + m \in 0 .. m - 1 PROVE x % m = x + m
    BY <1>2
<1>3. ASSUME x - m \in 0 .. m - 1 PROVE x % m = x - m
    BY <1>3
<1> QED BY <1>1, <1>2, <1>3

\* The width of the generation number.
LEMMA Width == GenMod \in Nat /\ GenMod > 1 /\ Half \in Nat
<1>1. Half \in Nat /\ Half >= 2
    BY StoreAssumption
<1> QED BY ONLY <1>1 DEF GenMod

\* The mirror's remainder is the 6502's difference with a borrow.
LEMMA SerialDistance ==
    ASSUME NEW a \in Gens, NEW b \in Gens
    PROVE  (b - a) % GenMod = Distance(a, b)
<1>2. a \in Int /\ b \in Int /\ 0 <= a /\ a < GenMod /\ 0 <= b /\ b < GenMod
    BY Width DEF Gens
<1>3. CASE b >= a
    <2>1. b - a \in Int /\ b - a \in 0 .. GenMod - 1
        BY Width, <1>2, <1>3
    <2> QED BY <2>1, <1>2, <1>3, Width, Remainder DEF Distance
<1>4. CASE b < a
    <2>1. b - a \in Int /\ b - a + GenMod \in 0 .. GenMod - 1
        BY Width, <1>2, <1>4
    <2>2. (b - a) % GenMod = b - a + GenMod
        BY <2>1, <1>2, Width, Remainder
    <2> QED BY <2>2, <1>2, <1>4, Width DEF Distance
<1> QED BY <1>2, <1>3, <1>4

\* The mirror's increment is the 6502's, which wraps.
LEMMA SerialNext ==
    ASSUME NEW g \in Gens
    PROVE  (g + 1) % GenMod = NextGen(g)
<1>2. g \in Int /\ 0 <= g /\ g < GenMod
    BY Width DEF Gens
<1>3. SUFFICES ASSUME NEW x \in Int, x = g + 1 PROVE x % GenMod = NextGen(g)
    BY <1>2
<1>4. CASE g = GenMod - 1
    <2>1. x = GenMod /\ x - GenMod = 0 /\ x - GenMod \in 0 .. GenMod - 1
        BY ONLY <1>2, <1>3, <1>4, Width
    <2>2. x % GenMod = x - GenMod
        BY <2>1, Width, Remainder
    <2> QED BY <2>1, <2>2, <1>4 DEF NextGen
<1>5. CASE g # GenMod - 1
    <2>1. x \in 0 .. GenMod - 1
        BY Width, <1>2, <1>3, <1>5
    <2>2. x % GenMod = x
        BY <2>1, Width, Remainder
    <2> QED BY <2>2, <1>3, <1>5 DEF NextGen
<1> QED BY <1>4, <1>5

-----------------------------------------------------------------------------
\* The two checks of a file give the same code, but for a stump that the 6502
\* may take for another version; and only an image passes.
LEMMA SameResult ==
    ASSUME NEW f \in Files
    PROVE  /\ f # Failed
           /\ \A r \in Judged(f) : \/ r = SlotResult(f)
                                   \/ (Misjudged(f) /\ SlotResult(f) = "FORMAT" /\ r = "VERSION")
           /\ SlotResult(f) = Validate(f) \/ (Misjudged(f) /\ SlotResult(f) = "FORMAT")
           /\ SlotResult(f) = "OK" => f.gen \in Gens
<1>1. f.kind \in {"absent", "damaged", "image"} /\ (f \in Images <=> f.kind = "image")
    BY FilesKinds
<1>2. f # Failed
    BY <1>1 DEF Failed
<1>3. CASE f.kind # "damaged"
  <2>1. SlotResult(f) = Validate(f)
    BY <1>1, <1>3 DEF SlotResult, Validate
  <2>2. SlotResult(f) = "OK" => f.gen \in Gens
    BY <1>1, <1>3, ImageFields DEF SlotResult
  <2>3. f # Emptied
    BY <1>3 DEF Emptied, Damaged
  <2>4. \A r \in Judged(f) : r = SlotResult(f)
    BY <2>1, <2>3 DEF Judged
  <2> QED BY <1>2, <2>1, <2>2, <2>4
<1>4. CASE f.kind = "damaged"
  <2>1. PICK l \in Lengths, h \in Heads \cup {"none"} :
            f = Damaged(l, h) /\ (h = "none" => l = "stump")
    <3>1. f # Absent
      BY <1>4 DEF Absent
    <3>2. f = Emptied \/ \E l \in Lengths, h \in Heads : f = Damaged(l, h)
      BY <1>1, <1>4, <3>1 DEF Files, Torn, Heads
    <3>3. Emptied = Damaged("stump", "none") /\ "stump" \in Lengths /\ "none" \notin Heads
      BY DEF Emptied, Lengths, Heads
    <3> QED BY <3>2, <3>3
  <2>2. /\ f.len \in {"stump", "cut", "whole"} /\ f.head \in {"foreign", "other", "ours", "none"}
        /\ f.head = "none" => f.len = "stump"
    BY <2>1 DEF Damaged, Lengths, Heads
  <2>3. f = Emptied => f.head = "none"
    BY DEF Emptied, Damaged
  <2>4. SlotResult(f) = Validate(f) \/ (Misjudged(f) /\ SlotResult(f) = "FORMAT")
    BY <1>4, <2>2 DEF SlotResult, Validate, Misjudged, OtherVersion
  <2>5. /\ SlotResult(f) # "OK"
        /\ Misjudged(f) => SlotResult(f) = "FORMAT" /\ Validate(f) \in {"FORMAT", "VERSION"}
        /\ f.head = "none" => Misjudged(f)
    BY <1>4, <2>2 DEF SlotResult, Validate, Misjudged, OtherVersion
  <2> QED BY <1>2, <2>3, <2>4, <2>5 DEF Judged
<1> QED BY <1>3, <1>4

\* The mirror's order of two generations is the sign of the 6502's distance.
LEMMA SameOrder ==
    ASSUME NEW a \in Gens, NEW b \in Gens
    PROVE  /\ SerialNewer(a, b) = "neither" <=> Distance(a, b) \in {0, Half}
           /\ SerialNewer(a, b) = "a" <=> Distance(a, b) \notin {0, Half} /\ Distance(a, b) > Half
           /\ SerialNewer(a, b) = "b" <=> Distance(a, b) \notin {0, Half} /\ ~(Distance(a, b) > Half)
<1>1. Distance(a, b) \in Int
    BY Width DEF Distance, Gens
<1>2. Half \in Int
    BY Width
<1> QED BY <1>1, <1>2, SerialDistance DEF SerialNewer

\* What select can return.
LEMMA SelectTakes ==
    ASSUME NEW d \in [Slots -> Files], NEW a \in {d[0], Failed}, NEW b \in {d[1], Failed}
    PROVE  /\ Select(a, b) \in {Unusable, NothingStored, Selected(d[0], 0), Selected(d[1], 1)}
           /\ Select(a, b).state = "VALID" => Select(a, b).recs = d[Select(a, b).slot].recs
           /\ Select(a, b).state = "EMPTY" => Select(a, b).recs = NoRecords
<1>1. d[0] \in Files /\ d[1] \in Files
    BY DEF Slots
<1>2. SlotResult(Failed) = "DOS"
    BY DEF SlotResult, Failed
<1>3. /\ SlotResult(a) = "OK" => a = d[0] /\ a.gen \in Gens
      /\ SlotResult(b) = "OK" => b = d[1] /\ b.gen \in Gens
    BY <1>1, <1>2, SameResult
<1>4. Select(a, b) \in {Unusable, NothingStored, Selected(d[0], 0), Selected(d[1], 1)}
    BY <1>3, SameOrder DEF Select
<1> QED BY <1>4 DEF Selected, NothingStored, Unusable

\* A scan that comes upon another version fails.
LEMMA VersionFails ==
    ASSUME NEW d, NEW ra, NEW rb, ra = "VERSION" \/ rb = "VERSION"
    PROVE  Scan(d, ra, rb, ra).state = "FAIL"
BY DEF Scan, ScanFail, Tolerable

\* select chooses as ts_scan does.
LEMMA SameChoice ==
    ASSUME NEW d \in [Slots -> Files]
    PROVE  Agree(d)
<1>1. d[0] \in Files /\ d[1] \in Files
    BY DEF Slots
<1>2. SlotResult(Failed) = "DOS"
    BY DEF SlotResult, Failed
<1>3. \A r : r \in TolerableBeside <=> Tolerable(r)
    BY DEF TolerableBeside, Tolerable
<1>4. SUFFICES ASSUME NEW a \in {d[0], Failed}, NEW b \in {d[1], Failed},
                      NEW ra \in Readings(d[0], a), NEW rb \in Readings(d[1], b)
               PROVE  LET m == Select(a, b)
                          r == Scan(d, ra, rb, ra)
                      IN  /\ r.state # "FAIL" =>
                                 m.state = r.state /\ m.slot = r.slot /\ m.gen = r.gen
                          /\ m.state = "VALID" => m.recs = d[m.slot].recs
                          /\ m.state # "FAIL" /\ r.state = "FAIL" =>
                                 \E s \in Slots : Misjudged(d[s])
    BY DEF Agree
<1>5. /\ ra = SlotResult(a) \/ (Misjudged(d[0]) /\ ra = "VERSION")
      /\ rb = SlotResult(b) \/ (Misjudged(d[1]) /\ rb = "VERSION")
    BY <1>1, <1>2, SameResult DEF Readings
<1>6. CASE ~(ra = SlotResult(a) /\ rb = SlotResult(b))
  <2>1. Scan(d, ra, rb, ra).state = "FAIL" /\ \E s \in Slots : Misjudged(d[s])
    BY <1>5, <1>6, VersionFails DEF Slots
  <2> QED BY <2>1, SelectTakes
<1>7. CASE ra = SlotResult(a) /\ rb = SlotResult(b)
  <2>1. /\ ra = "OK" => a = d[0] /\ d[0].gen \in Gens
        /\ rb = "OK" => b = d[1] /\ d[1].gen \in Gens
    BY <1>1, <1>2, <1>7, SameResult
  <2>2. /\ ScanFail.state = "FAIL" /\ Unusable.state = "FAIL"
        /\ ScanEmpty = [state |-> "EMPTY", slot |-> 1, gen |-> 0]
        /\ NothingStored.state = "EMPTY" /\ NothingStored.slot = 1 /\ NothingStored.gen = 0
    BY DEF ScanFail, Unusable, ScanEmpty, NothingStored
  <2>3. \A s : /\ ScanTake(d, s).state = "VALID" /\ ScanTake(d, s).slot = s
               /\ ScanTake(d, s).gen = d[s].gen
               /\ Selected(d[s], s).state = "VALID" /\ Selected(d[s], s).slot = s
               /\ Selected(d[s], s).gen = d[s].gen /\ Selected(d[s], s).recs = d[s].recs
    BY DEF ScanTake, Selected
  <2>4. CASE ra = "OK" /\ rb = "OK"
    <3>1. \/ Select(a, b) = Unusable /\ Scan(d, ra, rb, ra) = ScanFail
          \/ Select(a, b) = Selected(d[0], 0) /\ Scan(d, ra, rb, ra) = ScanTake(d, 0)
          \/ Select(a, b) = Selected(d[1], 1) /\ Scan(d, ra, rb, ra) = ScanTake(d, 1)
      BY <1>7, <2>1, <2>4, SameOrder DEF Select, Scan
    <3> QED BY <2>2, <2>3, <3>1
  <2>5. CASE ~(ra = "OK" /\ rb = "OK")
    <3>1. \/ Select(a, b) = Unusable /\ Scan(d, ra, rb, ra) = ScanFail
          \/ Select(a, b) = NothingStored /\ Scan(d, ra, rb, ra) = ScanEmpty
          \/ Select(a, b) = Selected(d[0], 0) /\ Scan(d, ra, rb, ra) = ScanTake(d, 0)
          \/ Select(a, b) = Selected(d[1], 1) /\ Scan(d, ra, rb, ra) = ScanTake(d, 1)
      BY <1>3, <1>7, <2>1, <2>5 DEF Select, Scan
    <3> QED BY <2>2, <2>3, <3>1
  <2> QED BY <2>4, <2>5
<1> QED BY <1>6, <1>7

\* Of two files on the medium select makes what a scan that finds a store, or
\* none, makes.
LEMMA SelectIsTrueScan ==
    ASSUME NEW d \in [Slots -> Files], TrueScan(d).state # "FAIL"
    PROVE  LET m == Select(d[0], d[1])
           IN  /\ m.state = TrueScan(d).state
               /\ m.slot = TrueScan(d).slot /\ m.gen = TrueScan(d).gen
               /\ m.state = "VALID" => m.recs = d[m.slot].recs
               /\ m.state = "EMPTY" => m.recs = NoRecords
<1>1. d[0] # Failed /\ d[1] # Failed
    BY SameResult DEF Slots
<1>2. Validate(d[0]) \in Readings(d[0], d[0]) /\ Validate(d[1]) \in Readings(d[1], d[1])
    BY <1>1 DEF Readings, Judged
<1>3. TrueScan(d) = Scan(d, Validate(d[0]), Validate(d[1]), Validate(d[0]))
    BY DEF TrueScan
<1> QED BY <1>2, <1>3, SameChoice, SelectTakes DEF Agree

\* A table with no records is not full.
LEMMA EmptyNotFull == ~(Records(NoRecords) >= MaxRecs)
<1>1. {h \in Hosts : NoRecords[h] # NoPin} = {}
    BY DEF NoRecords
<1>2. Records(NoRecords) = 0
    BY <1>1, FS_EmptySet DEF Records
<1> QED BY <1>2, StoreAssumption

\* When trust_store_save comes to its put, save is about to do the same.
LEMMA SaveScanAgrees ==
    ASSUME ShortReads = FALSE, TypeOK, SaveScan, pc' = "open"
    PROVE  SaveAgrees'
<1> DEFINE d == Closed(disk, handle)
<1>1. d \in [Slots -> Files]
    BY ClosedType
<1>2. PICK a \in ReadSlot(d[0]), b \in ReadSlot(d[1]), again \in ReadSlot(d[0]) :
          LET r == Scan(d, a, b, again)
          IN  /\ SameStore(r) /\ ~Full(r, d)
              /\ buf' = [target |-> Other(r.slot), file |-> NewImage(r, d)]
    BY DEF SaveScan, Refuse, Consume
<1>3. disk' = d /\ ts_key' = ts_key /\ ts_rec' = ts_rec /\ ts_staged \in {"VALID", "EMPTY"}
    BY DEF SaveScan
<1> DEFINE r == Scan(d, a, b, again)
<1>4. r.state \in {"VALID", "EMPTY"}
    BY <1>2, <1>3 DEF SameStore
<1>5. r = TrueScan(d)
    BY <1>2, <1>4, ScanCurrent
<1> DEFINE m == Select(d[0], d[1])
<1>6. /\ m.state = r.state /\ m.slot = r.slot /\ m.gen = r.gen
      /\ m.state = "VALID" => m.recs = d[r.slot].recs
      /\ m.state = "EMPTY" => m.recs = NoRecords
    BY <1>1, <1>4, <1>5, SelectIsTrueScan
<1>7. r \in ScanResults
    BY <1>1, ScanType DEF TypeOK
<1>8. ~Full(r, d) /\ buf' = [target |-> Other(r.slot), file |-> NewImage(r, d)]
    BY <1>2
<1> HIDE DEF d, r
<1>9. ~(m.recs[ts_key] = NoPin /\ Records(m.recs) >= MaxRecs)
    BY <1>4, <1>6, <1>8, EmptyNotFull DEF Full
<1>10. m.gen \in Gens
    BY <1>6, <1>7 DEF ScanResults
<1>11. m.recs = IF r.state = "EMPTY" THEN NoRecords ELSE d[r.slot].recs
    BY <1>4, <1>6
<1>12. Save(d[0], d[1], ts_key, ts_rec)
          = [slot |-> 1 - m.slot, file |-> Image((m.gen + 1) % GenMod, [m.recs EXCEPT ![ts_key] = ts_rec])]
    BY <1>4, <1>6, <1>9 DEF Save
<1>13. Save(d[0], d[1], ts_key, ts_rec) = [slot |-> Other(r.slot), file |-> NewImage(r, d)]
    BY <1>6, <1>10, <1>11, <1>12, SerialNext DEF Other, NewImage
<1> QED BY <1>3, <1>8, <1>13 DEF SaveAgrees

\* The mirror and the store agree after every history, as long as no read of
\* the store is silently short: whatever the 6502 loads the mirror selects, and
\* what it writes the mirror writes; a store that only the mirror takes has a
\* stump beside it.
THEOREM MirrorTrue ==
    ASSUME ShortReads = FALSE
    PROVE  Spec => []MirrorAgrees
<1>1. TypeOK => SelectAgrees
  <2>1. ASSUME TypeOK, NEW s \in Slots, NEW f \in Files
        PROVE  [disk EXCEPT ![s] = f] \in [Slots -> Files]
    BY <2>1 DEF TypeOK
  <2> QED BY <2>1, SameChoice DEF SelectAgrees
<1>2. Init => SaveAgrees
    BY DEF Init, SaveAgrees
<1>3. TypeOK /\ SaveAgrees /\ [Next]_vars => SaveAgrees'
  <2> SUFFICES ASSUME TypeOK, SaveAgrees, [Next]_vars PROVE SaveAgrees'
    OBVIOUS
  <2>1. CASE SaveScan
    BY <2>1, SaveScanAgrees DEF SaveAgrees
  <2>2. CASE UNCHANGED vars
    <3>1. pc' = pc /\ disk' = disk /\ ts_key' = ts_key /\ ts_rec' = ts_rec /\ buf' = buf
      BY <2>2 DEF vars, ram
    <3> QED BY <3>1 DEF SaveAgrees
  <2>3. CASE Next /\ ~SaveScan
    <3>1. pc' # "open"
      BY <2>3 DEF Next, LoadBusy, Load, Stage, SaveRefused, PutOpen, PutWrite, PutClose,
                  PutVerify, Reset, PowerLoss, Restart, Socket, ForeignSave, SwapMedium,
                  Refuse, Consume
    <3> QED BY <3>1 DEF SaveAgrees
  <2> QED BY <2>1, <2>2, <2>3
<1> QED BY <1>1, <1>2, <1>3, TypeCorrect, PTL DEF Spec, MirrorAgrees
=============================================================================
