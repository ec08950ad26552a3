----------------------------- MODULE TrustStore -----------------------------
(***************************************************************************)
(* The on-disk trust store of the UCI build (src/net/uci/trust_store.s)    *)
(* over the Ultimate's file commands (src/net/uci/uci_dos.s): two slots,   *)
(* TRUST.A and TRUST.B, each a whole image of the store with a generation  *)
(* number and a checksum.  A load validates both and takes the newer one;  *)
(* a save writes the other slot, closes it and reads it back.              *)
(*                                                                         *)
(* A step is one command that reaches the medium, so that a reset of the   *)
(* C64 or a loss of power can fall between any two of them.  Reads change  *)
(* nothing on the medium and a scan is one step; what each read returns is *)
(* chosen among the results the command interface can give.                *)
(***************************************************************************)
EXTENDS Naturals, FiniteSets

CONSTANTS
    Hosts,       \* host keys (the truncated digest of the lowercased name)
    Pins,        \* the 64-byte records, told apart by their pin
    NoPin,       \* no record for the host
    MaxRecs,     \* TS_MAX_RECS
    Half,        \* half the generation space: 2^15 in the program
    Media,       \* the contents a medium put in by the user can have
    MaxForeign,  \* saves another machine makes between two of our loads
    ShortReads   \* READ_DATA may fail and leave the previous "00,OK"

VARIABLES
    disk,        \* the two files
    handle,      \* the firmware's open write handle, or NoHandle
    connected,   \* net_tcp_state = CONNECTED: a socket owns the ring
    called,      \* "boot" until the first load after a start of the program
    pc,          \* where trust_store_save is
    buf,         \* the image in TS_BUF and its target slot, during a save
    ts_state, ts_slot, ts_gen, ts_key, ts_rec, ts_found, ts_staged,
    outcome,     \* the carry trust_store_save last returned
    saving,      \* history: the put of the save under way, or <<>>
    foreign,     \* history: the saves others made since the last load
    seen         \* history: the table the last usable load read

ram  == <<ts_state, ts_slot, ts_gen, ts_key, ts_rec, ts_found, ts_staged>>
vars == <<disk, handle, connected, called, pc, buf, ram, outcome, saving, foreign, seen>>

-----------------------------------------------------------------------------
(* Files and generations *)

Slots == {0, 1}
\* Faulty: the save goes to the slot it loaded.
OtherInPlace(s) == s


Other(s) == 1 - s
GenMod == 2 * Half
Gens == 0 .. GenMod - 1
Table == [Hosts -> Pins \cup {NoPin}]
Records(t) == Cardinality({h \in Hosts : t[h] # NoPin})
NoRecords == [h \in Hosts |-> NoPin]

Absent == [kind |-> "absent"]
Image(g, t) == [kind |-> "image", gen |-> g, recs |-> t]
Images == {Image(g, t) : g \in Gens, t \in Table}

\* A file that is no image.  Its length is below that of a store with no
\* records ("stump"), not the one its N asks for ("cut"), or right ("whole": the
\* checksum fails).  Its head is foreign to the format, of another version of
\* it, of ours, or not in the file, which ends before the version byte ("none").
Damaged(l, h) == [kind |-> "damaged", len |-> l, head |-> h]
Lengths == {"stump", "cut", "whole"}
Heads == {"foreign", "other", "ours"}

Emptied == Damaged("stump", "none")
Partial == Damaged("cut", "ours")
Unknown == Damaged("whole", "other")

\* What is left of an image of ours of which not every byte was written.
Torn == {Emptied} \cup {Damaged(l, "ours") : l \in Lengths}
Files == {Absent} \cup Torn \cup {Damaged(l, h) : l \in Lengths, h \in Heads} \cup Images

ASSUME StoreAssumption ==
    /\ NoPin \notin Pins
    /\ IsFiniteSet(Hosts)
    /\ MaxRecs \in Nat \ {0}
    /\ Half \in Nat /\ Half >= 2
    /\ MaxForeign \in 0 .. 2 * Half - 1
    /\ ShortReads \in BOOLEAN
    /\ Media \subseteq [Slots -> Files]

\* Faulty: the generation is written back unchanged.
NextGenSame(g) == g

\* inc TS_HDR_GEN: the generation wraps.
NextGen(g) == IF g = GenMod - 1 THEN 0 ELSE g + 1

\* d = gen(B) - gen(A), the serial difference.
Distance(a, b) == IF b >= a THEN b - a ELSE (b + GenMod) - a

NoHandle == [slot |-> 2, file |-> Absent]
NoBuf == [target |-> 0, file |-> Absent]

\* What the handle wrote becomes the file.
Closed(d, hd) ==
    IF hd = NoHandle THEN d ELSE [d EXCEPT ![hd.slot] = hd.file]

-----------------------------------------------------------------------------
(* The file commands.  Each is one command to the firmware and its reply; a *)
(* failure is a status line, a refused push or a 5 s timeout, and after a   *)
(* timeout the firmware may have done the work all the same.                *)

\* OPEN_FILE with FA_CREATE_ALWAYS empties the file.
DosOpen(d, s) ==
    LET done == [ok |-> TRUE, disk |-> [d EXCEPT ![s] = Emptied],
                 handle |-> [slot |-> s, file |-> Emptied]]
    IN  {done, [done EXCEPT !.ok = FALSE],
         [ok |-> FALSE, disk |-> d, handle |-> NoHandle]}

\* WRITE_DATA in chunks of at most 256 bytes: a failure leaves some of them
\* written, or all of them with the last acknowledgement lost.
DosWrite(hd, f) ==
    LET done == [ok |-> TRUE, handle |-> [hd EXCEPT !.file = f]]
    IN  {done, [done EXCEPT !.ok = FALSE]}
          \cup {[ok |-> FALSE, handle |-> [hd EXCEPT !.file = x]] : x \in {hd.file, Partial}}

\* CLOSE_FILE: nothing is durable before it.
DosClose(d, hd) ==
    LET done == [ok |-> TRUE, disk |-> Closed(d, hd), handle |-> NoHandle]
    IN  {done, [done EXCEPT !.ok = FALSE], [ok |-> FALSE, disk |-> d, handle |-> hd]}

\* OPEN_FILE, READ_DATA, CLOSE_FILE: the bytes arrive ("ok"), or a command
\* fails ("failed").  A READ_DATA that fails inside the firmware leaves the
\* status line of the open: only the byte count is "short".
DosRead(f) ==
    {"ok", "failed"} \cup (IF ShortReads /\ f # Absent THEN {"short"} ELSE {})

-----------------------------------------------------------------------------
(* Reading a slot and choosing one *)

\* A header of another version of the format.
OtherVersion(f) == f.kind = "damaged" /\ f.head = "other"

\* ts_read_slot's checks of the bytes that arrived, when all of them did: magic,
\* version, size, checksum.  A file with no version byte has no size that fits.
Validate(f) ==
    IF f.kind = "absent" THEN "ABSENT"
    ELSE IF f.kind = "image" THEN "OK"
    ELSE IF f.head = "foreign" THEN "FORMAT"
    ELSE IF OtherVersion(f) THEN "VERSION"
    ELSE IF f.len # "whole" THEN "FORMAT"
    ELSE "CHECKSUM"

\* The results a read that works can have.  Where the file ends before its
\* version byte, the bytes an earlier read left in the buffer are judged.
Judged(f) == {Validate(f)} \cup (IF f = Emptied THEN {"VERSION"} ELSE {})

\* ts_read_slot and ts_read_file.  "DOS" stands for every failure with a line
\* or a timeout (TS_R_NOPATH, TS_R_DOS, TS_R_IO); a short read fails the size
\* check like a torn file.
ReadSlot(f) ==
    UNION {IF r = "ok" THEN Judged(f) ELSE IF r = "short" THEN {"FORMAT"} ELSE {"DOS"}
              : r \in DosRead(f)}

\* Faulty: any failed slot is passed over for a valid one.
TolerableFailure(r) == r \in {"ABSENT", "FORMAT", "CHECKSUM", "DOS"}


Tolerable(r) == r \in {"ABSENT", "FORMAT", "CHECKSUM"}

\* ts_fail: the slot and generation of an earlier load stay where they are.
\* (ts_reason only chooses the line the caller prints.)
ScanFail == [state |-> "FAIL", slot |-> ts_slot, gen |-> ts_gen]
ScanTake(d, s) ==
    [state |-> "VALID", slot |-> s, gen |-> d[s].gen]
ScanEmpty == [state |-> "EMPTY", slot |-> 1, gen |-> 0]

\* ts_scan on the medium d, given the results of its reads: slot A, slot B
\* and, when A is the one to use, A again.
Scan(d, a, b, again) ==
    LET dist  == Distance(d[0].gen, d[1].gen)
        takeA == IF again = "OK" THEN ScanTake(d, 0) ELSE ScanFail
        takeB == ScanTake(d, 1)
    IN  IF a = "OK" /\ b = "OK"
        THEN IF dist \in {0, Half} THEN ScanFail
             ELSE IF dist > Half THEN takeA ELSE takeB
        ELSE IF a = "OK" THEN (IF Tolerable(b) THEN takeA ELSE ScanFail)
        ELSE IF b = "OK" THEN (IF Tolerable(a) THEN takeB ELSE ScanFail)
        ELSE IF a = "ABSENT" /\ b = "ABSENT" THEN ScanEmpty
        ELSE ScanFail

\* The scan when every read works and leaves nothing of an earlier one: what
\* the medium says.
TrueScan(d) == Scan(d, Validate(d[0]), Validate(d[1]), Validate(d[0]))

\* The table the medium holds.
StoreOf(d) ==
    LET s == TrueScan(d) IN IF s.state = "VALID" THEN d[s.slot].recs ELSE NoRecords

-----------------------------------------------------------------------------
Init ==
    /\ disk = [s \in Slots |-> Absent]
    /\ handle = NoHandle
    /\ connected = FALSE
    /\ called = "boot"
    /\ pc = "idle"
    /\ buf = NoBuf
    /\ ts_state = "NONE" /\ ts_slot = 0 /\ ts_gen = 0 /\ ts_key \in Hosts
    /\ ts_rec = NoPin /\ ts_found = FALSE /\ ts_staged = "NONE"
    /\ outcome = "none"
    /\ saving = <<>>
    /\ foreign = 0
    /\ seen = NoRecords

\* ts_guard refuses while a socket is connected: the image is built in the ring.
LoadBusy ==
    /\ pc = "idle"
    /\ connected
    /\ ts_state' = "FAIL"
    /\ ts_found' = FALSE /\ ts_staged' = "NONE"
    /\ called' = "loaded"
    /\ outcome' = "none"
    /\ UNCHANGED <<disk, handle, connected, pc, buf, ts_slot, ts_gen, ts_key, ts_rec,
                   saving, foreign, seen>>

\* trust_store_load: close a handle an earlier run left open, scan, and keep
\* the host's record when there is one.
Load(h) ==
    /\ pc = "idle"
    /\ ~connected
    /\ LET d == Closed(disk, handle)
       IN  /\ disk' = d
           /\ \E a \in ReadSlot(d[0]), b \in ReadSlot(d[1]), again \in ReadSlot(d[0]) :
                 LET r     == Scan(d, a, b, again)
                     found == r.state = "VALID" /\ d[r.slot].recs[h] # NoPin
                 IN  /\ ts_state' = r.state /\ ts_slot' = r.slot /\ ts_gen' = r.gen
                     /\ ts_found' = found
                     /\ ts_rec' = IF found THEN d[r.slot].recs[h] ELSE ts_rec
                     /\ seen' = IF r.state = "FAIL" THEN seen
                                ELSE IF r.state = "EMPTY" THEN NoRecords
                                ELSE d[r.slot].recs
    /\ ts_key' = h
    /\ ts_staged' = "NONE"
    /\ handle' = NoHandle
    /\ foreign' = 0
    /\ called' = "loaded"
    /\ outcome' = "none"
    /\ saving' = <<>>
    /\ UNCHANGED <<connected, pc, buf>>

\* trust_store_stage: the record replaces the loaded one and the load is
\* consumed; its state is what the save will require.
Stage(p) ==
    /\ pc = "idle"
    /\ called = "loaded"
    /\ ts_rec' = p
    /\ ts_staged' = ts_state
    /\ ts_state' = "NONE"
    /\ ts_found' = FALSE
    /\ UNCHANGED <<disk, handle, connected, called, pc, buf, ts_slot, ts_gen, ts_key,
                   outcome, saving, foreign, seen>>

\* ts_refuse and ts_consume: every attempt, saved or refused, uses up the load.
\* The ring that held the image is free for the next socket.
Consume ==
    /\ pc' = "idle"
    /\ buf' = NoBuf
    /\ ts_state' = "NONE" /\ ts_found' = FALSE /\ ts_staged' = "NONE"

Refuse ==
    /\ Consume
    /\ outcome' = "refused"

\* The image ts_put is about to write: the host's record replaced or added.
NewImage(r, d) ==
    LET t == IF r.state = "EMPTY" THEN NoRecords ELSE d[r.slot].recs
    IN  Image(NextGen(r.gen), [t EXCEPT ![ts_key] = ts_rec])

\* ts_find said absent and the table is full.
Full(r, d) ==
    /\ r.state = "VALID"
    /\ d[r.slot].recs[ts_key] = NoPin
    /\ Records(d[r.slot].recs) >= MaxRecs

\* Faulty: the slot and generation of the load are not compared.
SameStateOnly(r) == r.state = ts_staged


SameStore(r) == r.state = ts_staged /\ r.slot = ts_slot /\ r.gen = ts_gen

\* trust_store_save without the disk: busy, or nothing usable was staged.
SaveRefused ==
    /\ pc = "idle"
    /\ called = "loaded"
    /\ connected \/ ts_staged \notin {"VALID", "EMPTY"}
    /\ Refuse
    /\ UNCHANGED <<disk, handle, connected, called, ts_slot, ts_gen, ts_key,
                   ts_rec, saving, foreign, seen>>

\* trust_store_save up to ts_put: scan again and insist that state, slot and
\* generation are those of the load.
SaveScan ==
    /\ pc = "idle"
    /\ called = "loaded"
    /\ ~connected
    /\ ts_staged \in {"VALID", "EMPTY"}
    /\ LET d == Closed(disk, handle)
       IN  /\ disk' = d
           /\ \E a \in ReadSlot(d[0]), b \in ReadSlot(d[1]), again \in ReadSlot(d[0]) :
                 LET r == Scan(d, a, b, again)
                 IN  /\ ts_slot' = r.slot /\ ts_gen' = r.gen
                     /\ \/ /\ ~SameStore(r)
                           /\ Refuse
                           /\ UNCHANGED saving
                        \/ /\ SameStore(r)
                           /\ Full(r, d)
                           /\ Refuse
                           /\ UNCHANGED saving
                        \/ /\ SameStore(r)
                           /\ ~Full(r, d)
                           /\ buf' = [target |-> Other(r.slot), file |-> NewImage(r, d)]
                           /\ saving' = <<ts_key, ts_rec>>
                           /\ pc' = "open"
                           /\ ts_state' = r.state
                           /\ outcome' = "none"
                           /\ UNCHANGED <<ts_found, ts_staged>>
    /\ handle' = NoHandle
    /\ UNCHANGED <<connected, called, ts_key, ts_rec, foreign, seen>>

\* A put that can no longer reach the medium is over.
Undecided(hd) == IF hd.file.kind = "image" THEN saving ELSE <<>>

\* ts_put, the open: the slot not loaded is emptied.
PutOpen ==
    /\ pc = "open"
    /\ \E r \in DosOpen(disk, buf.target) :
          /\ disk' = r.disk
          /\ handle' = r.handle
          /\ \/ /\ r.ok
                /\ pc' = "write"
                /\ UNCHANGED <<ram, buf, outcome, saving>>
             \/ /\ ~r.ok
                /\ Refuse
                /\ saving' = <<>>
                /\ UNCHANGED <<ts_slot, ts_gen, ts_key, ts_rec>>
    /\ UNCHANGED <<connected, called, foreign, seen>>

\* ts_put, the write: its result waits for the close.
PutWrite ==
    /\ pc = "write"
    /\ \E r \in DosWrite(handle, buf.file) :
          /\ handle' = r.handle
          /\ pc' = IF r.ok THEN "close" ELSE "close_failed"
    /\ UNCHANGED <<disk, connected, called, buf, ram, outcome, saving, foreign, seen>>

\* ts_put, the close, on every path.
PutClose ==
    /\ pc \in {"close", "close_failed"}
    /\ \E r \in DosClose(disk, handle) :
          /\ disk' = r.disk
          /\ handle' = r.handle
          /\ \/ /\ r.ok /\ pc = "close"
                /\ pc' = "verify"
                /\ UNCHANGED <<ram, buf, outcome, saving>>
             \/ /\ ~r.ok \/ pc = "close_failed"
                /\ Refuse
                /\ saving' = Undecided(r.handle)
                /\ UNCHANGED <<ts_slot, ts_gen, ts_key, ts_rec>>
    /\ UNCHANGED <<connected, called, foreign, seen>>

\* Read it back with a fresh open: the whole check, and the new generation.
PutVerify ==
    /\ pc = "verify"
    /\ \E r \in ReadSlot(disk[buf.target]) :
          \/ /\ r = "OK"
             /\ disk[buf.target].gen = buf.file.gen
             /\ Consume
             /\ outcome' = "saved"
          \/ /\ r # "OK" \/ disk[buf.target].gen # buf.file.gen
             /\ Refuse
    /\ saving' = <<>>
    /\ UNCHANGED <<disk, handle, connected, called, ts_slot, ts_gen, ts_key,
                   ts_rec, foreign, seen>>

-----------------------------------------------------------------------------
(* The environment *)

\* The program starts again.  Its RAM is whatever it was, but the first store
\* call is a load, which reads none of it; the start values stand for them all.
Restart ==
    /\ pc' = "idle"
    /\ buf' = NoBuf
    /\ called' = "boot"
    /\ connected' = FALSE
    /\ outcome' = "none"
    /\ ts_state' = "NONE" /\ ts_slot' = 0 /\ ts_gen' = 0
    /\ ts_rec' = NoPin /\ ts_found' = FALSE /\ ts_staged' = "NONE"
    /\ UNCHANGED <<ts_key, foreign, seen>>

\* The C64 is reset: the firmware keeps its handle open.
Reset ==
    /\ Restart
    /\ saving' = Undecided(handle)
    /\ UNCHANGED <<disk, handle>>

\* Power goes away: the handle with it, and an unclosed file is left empty,
\* short, with blocks never written, or whole.
PowerLoss ==
    /\ Restart
    /\ saving' = <<>>
    /\ handle' = NoHandle
    /\ IF handle = NoHandle
       THEN UNCHANGED disk
       ELSE \E f \in Torn \cup {handle.file} :
               disk' = [disk EXCEPT ![handle.slot] = f]

\* net_tcp_connect and net_tcp_close, by the caller, between store calls.
Socket ==
    /\ pc = "idle"
    /\ connected' = ~connected
    /\ UNCHANGED <<disk, handle, called, pc, buf, ram, outcome, saving, foreign, seen>>

\* Another machine runs the same program on the medium, to the end of a save.
ForeignSave ==
    /\ foreign < MaxForeign
    /\ foreign' = foreign + 1
    /\ pc = "idle"
    /\ handle = NoHandle
    /\ LET r == TrueScan(disk)
       IN  /\ r.state \in {"VALID", "EMPTY"}
           /\ \E h \in Hosts, p \in Pins :
                 LET t == IF r.state = "EMPTY" THEN NoRecords ELSE disk[r.slot].recs
                 IN  /\ t[h] # NoPin \/ Records(t) < MaxRecs
                     /\ disk' = [disk EXCEPT ![Other(r.slot)] =
                                    Image(NextGen(r.gen), [t EXCEPT ![h] = p])]
    /\ UNCHANGED <<handle, connected, called, pc, buf, ram, outcome, saving, seen>>

\* The user exchanges the medium between two store calls.
SwapMedium ==
    /\ pc = "idle"
    /\ handle = NoHandle
    /\ disk' \in Media
    /\ UNCHANGED <<handle, connected, called, pc, buf, ram, outcome, saving, foreign, seen>>

Next ==
    \/ LoadBusy
    \/ \E h \in Hosts : Load(h)
    \/ \E p \in Pins : Stage(p)
    \/ SaveRefused \/ SaveScan \/ PutOpen \/ PutWrite \/ PutClose \/ PutVerify
    \/ Reset \/ PowerLoss \/ Socket \/ ForeignSave \/ SwapMedium

Spec == Init /\ [][Next]_vars

-----------------------------------------------------------------------------
(* Properties *)

States == {"NONE", "VALID", "EMPTY", "FAIL"}

\* The type of every variable.
TypeOK ==
    /\ disk \in [Slots -> Files]
    /\ handle \in {NoHandle} \cup [slot : Slots, file : {Emptied, Partial} \cup Images]
    /\ connected \in BOOLEAN
    /\ called \in {"boot", "loaded"}
    /\ pc \in {"idle", "open", "write", "close", "close_failed", "verify"}
    /\ buf \in {NoBuf} \cup [target : Slots, file : Images]
    /\ ts_state \in States /\ ts_staged \in States
    /\ ts_slot \in Slots /\ ts_gen \in Gens
    /\ ts_key \in Hosts /\ ts_rec \in Pins \cup {NoPin}
    /\ ts_found \in BOOLEAN
    /\ outcome \in {"none", "saved", "refused"}
    /\ saving \in {<<>>} \cup (Hosts \X (Pins \cup {NoPin}))
    /\ foreign \in 0 .. MaxForeign
    /\ seen \in Table

\* While a save is under way its image is in the buffer, and between the open
\* and the close the firmware holds the handle of the target slot.
SavePhase ==
    /\ pc # "idle" => buf # NoBuf
    /\ pc = "open" => handle = NoHandle
    /\ pc \in {"write", "close", "close_failed"} => handle.slot = buf.target

\* The caller's view after a load.
Answer == IF ts_found THEN ts_rec ELSE NoPin

\* trust_store.s "Fail-closed": a load either fails or answers with what the
\* newest whole image on the medium holds for the host.  It never falls back
\* to an older image because the newer one could not be read.
LoadIsCurrent ==
    [][\A h \in Hosts : Load(h) /\ ts_state' # "FAIL" => Answer' = StoreOf(disk')[h]]_vars

\* Ping-pong slots: wherever a reset or a loss of power fell, and however
\* often the generation wrapped, a medium that holds a whole image can be
\* loaded: never a tie, never two damaged slots.
Loadable ==
    (\E s \in Slots : disk[s].kind = "image") => TrueScan(disk).state = "VALID"

\* Why the slots never tie: whenever both are whole, one was written right
\* after the other, and what a save is about to write, or the firmware still
\* holds, follows the slot beside it.
Follows(f, d, s) == d[Other(s)].kind = "image" => f.gen = NextGen(d[Other(s)].gen)

GenerationsFollow ==
    /\ \A s \in Slots : ~OtherVersion(disk[s])
    /\ \A s \in Slots : disk[s].kind = "image" =>
           Follows(disk[s], disk, s) \/ Follows(disk[Other(s)], disk, Other(s))
    /\ pc \in {"open", "write", "close", "close_failed"} => Follows(buf.file, disk, buf.target)
    /\ handle.file.kind = "image" => Follows(handle.file, disk, handle.slot)

\* trust_store_save "insist it is the one the load saw": the table a save
\* replaces is the table its load read.
NoBlindOverwrite ==
    [][saving # <<>> /\ StoreOf(disk') # StoreOf(disk) => StoreOf(disk) = seen]_vars

\* The store is one table with atomic puts: a save changes its own host's
\* entry and no other, whole and once, or not at all; success is reported
\* only once the entry is on the medium; a crash changes nothing.
Register == INSTANCE TrustRegister WITH
                store <- StoreOf(disk), put <- saving, applied <- pc = "verify"

ImplementsRegister == Register!Spec
=============================================================================
