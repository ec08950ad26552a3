---------------------------- MODULE TrustMirror -----------------------------
(* tools/trust_store.py: the same two slots as the host reads, selects and    *)
(* writes them.  The rigs and the tests of the 6502 store take their          *)
(* expectations from it, so a difference between the two is either a test     *)
(* that fails on a good store or one that passes on a bad one.  It keeps the  *)
(* records as a list in file order, where the 6502 searches an image.         *)
EXTENDS TrustStore, Sequences, Integers

\* Beside the content of a file, a slot can be the failure to read it.
Failed == [kind |-> "failed"]

\* slot_result and decode: the code of the first check that fails, in decode's
\* order: size floor, magic, version, size, checksum.
SlotResult(c) ==
    IF c.kind = "absent" THEN "ABSENT"
    ELSE IF c.kind = "failed" THEN "DOS"
    ELSE IF c.kind = "image" THEN "OK"
    ELSE IF c.len = "stump" \/ c.head = "foreign" THEN "FORMAT"
    ELSE IF c.head = "other" THEN "VERSION"
    ELSE IF c.len = "cut" THEN "FORMAT"
    ELSE "CHECKSUM"

\* Mutant of SerialNewer: half the space apart counts as newer.
SerialNewerAtHalf(a, b) == IF a = b THEN "neither" ELSE
    IF (b - a) % GenMod <= Half THEN "b" ELSE "a"

\* serial_newer: which of the two generations is newer, by serial arithmetic.
SerialNewer(a, b) ==
    LET d == (b - a) % GenMod
    IN  IF d \in {0, Half} THEN "neither" ELSE IF d < Half THEN "b" ELSE "a"

\* TOLERABLE: what may sit beside a valid slot.
TolerableBeside == {"ABSENT", "FORMAT", "CHECKSUM"}

Selected(c, s) == [state |-> "VALID", slot |-> s, gen |-> c.gen, recs |-> c.recs]
NothingStored == [state |-> "EMPTY", slot |-> 1, gen |-> 0, recs |-> NoRecords]
Unusable == [state |-> "FAIL", slot |-> 1, gen |-> 0, recs |-> NoRecords]

\* select
Select(a, b) ==
    LET ra == SlotResult(a)
        rb == SlotResult(b)
    IN  IF ra = "OK" /\ rb = "OK"
        THEN CASE SerialNewer(a.gen, b.gen) = "neither" -> Unusable
               [] SerialNewer(a.gen, b.gen) = "a" -> Selected(a, 0)
               [] SerialNewer(a.gen, b.gen) = "b" -> Selected(b, 1)
        ELSE IF ra = "OK" THEN (IF rb \in TolerableBeside THEN Selected(a, 0) ELSE Unusable)
        ELSE IF rb = "OK" THEN (IF ra \in TolerableBeside THEN Selected(b, 1) ELSE Unusable)
        ELSE IF ra = "ABSENT" /\ rb = "ABSENT" THEN NothingStored
        ELSE Unusable

Refusal == [slot |-> 2, file |-> Absent]

\* save: the slot to write and the file to write into it, or the refusal of an
\* unusable store or of one record too many.
Save(a, b, h, p) ==
    LET sel == Select(a, b)
        t == sel.recs
    IN  IF \/ sel.state \notin {"VALID", "EMPTY"}
           \/ t[h] = NoPin /\ Records(t) >= MaxRecs
        THEN Refusal
        ELSE [slot |-> 1 - sel.slot,
              file |-> Image((sel.gen + 1) % GenMod, [t EXCEPT ![h] = p])]

-----------------------------------------------------------------------------
(* Properties *)

\* The 6502 looks at the version of a file too short to be a store, and decode
\* does not: it may come upon another version in one of these, its own or one
\* an earlier read left in the buffer.
Misjudged(f) == f.kind = "damaged" /\ f.len = "stump" /\ f.head \in {"other", "none"}

\* What a read of the slot can give ts_scan, when all of it works or all fails.
Readings(f, c) == IF c = Failed THEN {"DOS"} ELSE Judged(f)

\* Where ts_scan finds a store, or none, select finds the same one; where only
\* select finds one, a slot holds a file the two judge differently.
Agree(d) ==
    \A a \in {d[0], Failed}, b \in {d[1], Failed} :
        \A ra \in Readings(d[0], a), rb \in Readings(d[1], b) :
            LET m == Select(a, b)
                r == Scan(d, ra, rb, ra)
            IN  /\ r.state # "FAIL" =>
                       m.state = r.state /\ m.slot = r.slot /\ m.gen = r.gen
                /\ m.state = "VALID" => m.recs = d[m.slot].recs
                /\ m.state # "FAIL" /\ r.state = "FAIL" => \E s \in Slots : Misjudged(d[s])

\* For the slots on the medium, each of them beside any other file, and a slot
\* that cannot be read.
SelectAgrees ==
    \A s \in Slots, f \in Files : Agree([disk EXCEPT ![s] = f])

\* save writes the bytes that trust_store_save is about to write, into the slot
\* it is about to write them into.
SaveAgrees ==
    pc = "open" => Save(disk[0], disk[1], ts_key, ts_rec)
                     = [slot |-> buf.target, file |-> buf.file]

\* trust_store.py "reads, writes and selects slots the same way" as the 6502,
\* after any history of saves, torn saves, power losses and exchanged sticks:
\* what the 6502 loads the mirror loads, what it is about to write the mirror
\* writes, and the mirror takes a store the 6502 refuses only beside a stump.
MirrorAgrees == SelectAgrees /\ SaveAgrees
=============================================================================
