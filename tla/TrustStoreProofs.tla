-------------------------- MODULE TrustStoreProofs --------------------------
(* Proofs about the trust store, for every set of hosts and pins, every      *)
(* table size and every width of the generation number.                      *)
EXTENDS TrustStore, TLAPS

Results == {"OK", "ABSENT", "FORMAT", "VERSION", "CHECKSUM", "DOS"}
ScanResults == [state : States, slot : Slots, gen : Gens]

LEMMA ImageFields ==
    ASSUME NEW f \in Images
    PROVE  f.kind = "image" /\ f.gen \in Gens /\ f.recs \in Table /\ f = Image(f.gen, f.recs)
BY DEF Images, Image

\* The kinds of files, and what the check of each gives.
OtherFiles == {Damaged(l, h) : l \in Lengths, h \in Heads}

LEMMA FilesKinds ==
    ASSUME NEW f \in Files
    PROVE  /\ f \in Images <=> f.kind = "image"
           /\ f.kind \in {"absent", "damaged", "image"}
           /\ f.kind = "absent" => Validate(f) = "ABSENT"
           /\ f.kind = "image" => Validate(f) = "OK"
           /\ f.kind = "damaged" => Validate(f) \in {"FORMAT", "VERSION", "CHECKSUM"}
           /\ Validate(f) = "VERSION" <=> OtherVersion(f)
<1>1. CASE f = Absent
  <2>1. f.kind = "absent"
    BY <1>1 DEF Absent
  <2>2. f \notin Images
    BY <2>1, ImageFields
  <2> QED BY <2>1, <2>2 DEF Validate, OtherVersion
<1>2. CASE f \in Images
    BY <1>2 DEF Images, Image, Validate, OtherVersion, Absent
<1>3. CASE f \in Torn \cup OtherFiles
  <2>1. PICK l \in Lengths, h \in Heads \cup {"none"} : f = Damaged(l, h)
    BY <1>3 DEF Torn, OtherFiles, Emptied, Lengths, Heads
  <2>2. f.kind = "damaged" /\ f.len \in Lengths /\ f.head \in Heads \cup {"none"}
    BY <2>1 DEF Damaged
  <2>3. f \notin Images
    BY <2>2 DEF Images, Image
  <2> QED BY <2>2, <2>3 DEF Validate, OtherVersion, Absent
<1> QED BY <1>1, <1>2, <1>3 DEF Files, OtherFiles

\* What is left of a save of this program's is no image, and beside an image it
\* is passed over.
LEMMA TornFacts ==
    /\ Torn \subseteq Files /\ Emptied \in Torn /\ Partial \in Torn
    /\ \A f \in Torn : f.kind = "damaged" /\ ~OtherVersion(f)
    /\ NoHandle.file.kind = "absent"
    /\ Absent \in Files /\ Images \subseteq Files
BY DEF Torn, Files, Emptied, Partial, Damaged, Lengths, OtherVersion, NoHandle, Absent

\* A read that succeeds found a whole image.
LEMMA ReadSlotResult ==
    ASSUME NEW f \in Files, NEW r \in ReadSlot(f)
    PROVE  r \in Results /\ (r = "OK" => f \in Images)
<1>1. Validate(f) \in Results /\ (Validate(f) = "OK" => f \in Images)
    BY FilesKinds DEF Results
<1>2. r \in {Validate(f), "VERSION", "FORMAT", "DOS"}
    BY DEF ReadSlot, Judged
<1> QED BY <1>1, <1>2 DEF Results

\* ts_scan returns a state, a slot and a generation; a slot it takes is an image.
LEMMA ScanType ==
    ASSUME NEW d \in [Slots -> Files], ts_slot \in Slots, ts_gen \in Gens,
           NEW a \in ReadSlot(d[0]), NEW b \in ReadSlot(d[1]), NEW again \in ReadSlot(d[0])
    PROVE  /\ Scan(d, a, b, again) \in ScanResults
           /\ Scan(d, a, b, again).state = "VALID" => d[Scan(d, a, b, again).slot] \in Images
<1>1. d[0] \in Files /\ d[1] \in Files
    BY DEF Slots
<1>2. /\ a = "OK" => d[0] \in Images
      /\ b = "OK" => d[1] \in Images
      /\ again = "OK" => d[0] \in Images
    BY <1>1, ReadSlotResult
<1>3. /\ d[0] \in Images => ScanTake(d, 0) \in ScanResults
      /\ d[1] \in Images => ScanTake(d, 1) \in ScanResults
      /\ ScanFail \in ScanResults
      /\ ScanEmpty \in ScanResults
    BY StoreAssumption, ImageFields DEF ScanTake, ScanFail, ScanEmpty, ScanResults, States,
       Slots, Gens, GenMod
<1>4. /\ ScanTake(d, 0).slot = 0 /\ ScanTake(d, 1).slot = 1
      /\ ScanFail.state = "FAIL" /\ ScanEmpty.state = "EMPTY"
    BY DEF ScanTake, ScanFail, ScanEmpty
<1>5. \/ Scan(d, a, b, again) = ScanFail
      \/ Scan(d, a, b, again) = ScanEmpty
      \/ Scan(d, a, b, again) = ScanTake(d, 0) /\ again = "OK"
      \/ Scan(d, a, b, again) = ScanTake(d, 1) /\ b = "OK"
    BY DEF Scan
<1> QED BY <1>2, <1>3, <1>4, <1>5

\* The scan in which every read works, which the properties use.
LEMMA TrueScanType ==
    ASSUME TypeOK
    PROVE  /\ TrueScan(disk) \in ScanResults
           /\ TrueScan(disk).state = "VALID" => disk[TrueScan(disk).slot] \in Images
<1>1. Validate(disk[0]) \in ReadSlot(disk[0]) /\ Validate(disk[1]) \in ReadSlot(disk[1])
    BY DEF ReadSlot, DosRead, Judged
<1> QED BY <1>1, ScanType DEF TypeOK, TrueScan

LEMMA NextGenType ==
    ASSUME NEW g \in Gens
    PROVE  NextGen(g) \in Gens
BY StoreAssumption DEF Gens, NextGen, GenMod

\* What dos_close leaves on the medium is two files.
LEMMA ClosedType ==
    ASSUME TypeOK
    PROVE  Closed(disk, handle) \in [Slots -> Files]
BY TornFacts DEF TypeOK, Closed, NoHandle

\* The image trust_store_save builds is an image.
LEMMA NewImageType ==
    ASSUME NEW d \in [Slots -> Files], NEW r \in ScanResults,
           r.state = "VALID" => d[r.slot] \in Images,
           r.state \in {"VALID", "EMPTY"},
           ts_key \in Hosts, ts_rec \in Pins \cup {NoPin}
    PROVE  NewImage(r, d) \in Images
<1> DEFINE t == IF r.state = "EMPTY" THEN NoRecords ELSE d[r.slot].recs
<1>1. t \in Table
    BY ImageFields DEF NoRecords, Table
<1>2. [t EXCEPT ![ts_key] = ts_rec] \in Table
    BY <1>1 DEF Table
<1>3. NextGen(r.gen) \in Gens
    BY NextGenType DEF ScanResults
<1> HIDE DEF t
<1> QED BY <1>2, <1>3 DEF NewImage, Images, t

\* The types and the phase of a save are inductive together.
TypeInv == TypeOK /\ SavePhase

LEMMA TypeInvariant == Spec => []TypeInv
<1>1. Init => TypeInv
  <2> SUFFICES ASSUME Init PROVE TypeInv
    OBVIOUS
  <2>1. disk \in [Slots -> Files] /\ seen \in Table
    BY DEF Init, Files, Table, NoRecords
  <2>2. ts_gen \in Gens /\ foreign \in 0 .. MaxForeign
    BY StoreAssumption DEF Init, Gens, GenMod
  <2> QED BY <2>1, <2>2 DEF Init, TypeInv, TypeOK, SavePhase, Slots, States
<1>2. TypeInv /\ [Next]_vars => TypeInv'
  <2> SUFFICES ASSUME TypeOK, SavePhase, [Next]_vars PROVE TypeOK' /\ SavePhase'
    BY DEF TypeInv
  <2>1. CASE LoadBusy
    BY <2>1 DEF LoadBusy, TypeOK, SavePhase, States
  <2>2. ASSUME NEW h \in Hosts, Load(h) PROVE TypeOK' /\ SavePhase'
    <3> DEFINE d == Closed(disk, handle)
    <3>1. d \in [Slots -> Files] BY ClosedType
    <3>2. PICK a \in ReadSlot(d[0]), b \in ReadSlot(d[1]), again \in ReadSlot(d[0]) :
             LET r     == Scan(d, a, b, again)
                 found == r.state = "VALID" /\ d[r.slot].recs[h] # NoPin
             IN  /\ ts_state' = r.state /\ ts_slot' = r.slot /\ ts_gen' = r.gen
                 /\ ts_found' = found
                 /\ ts_rec' = IF found THEN d[r.slot].recs[h] ELSE ts_rec
                 /\ seen' = IF r.state = "FAIL" THEN seen
                            ELSE IF r.state = "EMPTY" THEN NoRecords
                            ELSE d[r.slot].recs
      BY <2>2 DEF Load
    <3> DEFINE r == Scan(d, a, b, again)
    <3>3. r \in ScanResults /\ (r.state = "VALID" => d[r.slot] \in Images)
      BY <3>1, ScanType DEF TypeOK
    <3>4. r.state = "VALID" => d[r.slot].recs \in Table
      BY <3>3, ImageFields
    <3>4a. r.state \in States \ {"NONE"}
      BY DEF Scan, ScanTake, ScanFail, ScanEmpty, States
    <3> HIDE DEF r, d
    <3>5. ts_state' \in States /\ ts_slot' \in Slots /\ ts_gen' \in Gens
      BY <3>2, <3>3 DEF ScanResults, r
    <3>6. ts_rec' \in Pins \cup {NoPin} /\ ts_found' \in BOOLEAN
      BY <3>2, <3>4 DEF TypeOK, Table, r
    <3>7. seen' \in Table
      BY <3>2, <3>3, <3>4, <3>4a DEF TypeOK, Table, NoRecords, r, States
    <3>8. disk' \in [Slots -> Files]
      BY <2>2, <3>1 DEF Load, d
    <3> QED BY <2>2, <3>5, <3>6, <3>7, <3>8, StoreAssumption DEF Load, TypeOK, SavePhase, States
  <2>3. ASSUME NEW p \in Pins, Stage(p) PROVE TypeOK' /\ SavePhase'
    BY <2>3 DEF Stage, TypeOK, SavePhase, States
  <2>4. CASE SaveRefused
    BY <2>4 DEF SaveRefused, Refuse, Consume, TypeOK, SavePhase, States
  <2>5. CASE SaveScan
    <3> DEFINE d == Closed(disk, handle)
    <3>1. d \in [Slots -> Files] BY ClosedType
    <3>2. PICK a \in ReadSlot(d[0]), b \in ReadSlot(d[1]), again \in ReadSlot(d[0]) :
             LET r == Scan(d, a, b, again)
             IN  /\ ts_slot' = r.slot /\ ts_gen' = r.gen
                 /\ \/ Refuse /\ UNCHANGED saving
                    \/ /\ SameStore(r)
                       /\ buf' = [target |-> Other(r.slot), file |-> NewImage(r, d)]
                       /\ saving' = <<ts_key, ts_rec>>
                       /\ pc' = "open"
                       /\ ts_state' = r.state
                       /\ outcome' = "none"
                       /\ UNCHANGED <<ts_found, ts_staged>>
      BY <2>5 DEF SaveScan
    <3> DEFINE r == Scan(d, a, b, again)
    <3>3. r \in ScanResults /\ (r.state = "VALID" => d[r.slot] \in Images)
      BY <3>1, ScanType DEF TypeOK
    <3> HIDE DEF r, d
    <3>4. ts_slot' \in Slots /\ ts_gen' \in Gens
      BY <3>2, <3>3 DEF ScanResults, r
    <3>5. disk' \in [Slots -> Files]
      BY <2>5, <3>1 DEF SaveScan, d
    <3>6. CASE Refuse /\ UNCHANGED saving
      BY <2>5, <3>4, <3>5, <3>6 DEF SaveScan, Refuse, Consume, TypeOK, SavePhase, States
    <3>7. CASE /\ SameStore(r)
               /\ buf' = [target |-> Other(r.slot), file |-> NewImage(r, d)]
               /\ saving' = <<ts_key, ts_rec>>
               /\ pc' = "open"
               /\ ts_state' = r.state
               /\ outcome' = "none"
               /\ UNCHANGED <<ts_found, ts_staged>>
      <4>1. r.state \in {"VALID", "EMPTY"}
        BY <2>5, <3>7 DEF SaveScan, SameStore
      <4>2. NewImage(r, d) \in Images
        BY <3>1, <3>3, <4>1, NewImageType DEF TypeOK
      <4>3. Other(r.slot) \in Slots
        BY <3>3 DEF ScanResults, Slots, Other
      <4>4. buf' \in {NoBuf} \cup [target : Slots, file : Images]
        BY <3>7, <4>2, <4>3
      <4>5. buf'.file # Absent
        BY <3>7, <4>2, ImageFields DEF Absent
      <4>6. SavePhase'
        BY <2>5, <3>7, <4>5 DEF SaveScan, SavePhase, NoBuf
      <4> QED BY <2>5, <3>4, <3>5, <3>7, <4>1, <4>4, <4>6 DEF SaveScan, TypeOK, States
    <3> QED BY <3>2, <3>6, <3>7 DEF r
  <2>6. CASE PutOpen
    <3>1. buf.target \in Slots
      BY DEF TypeOK, NoBuf, Slots
    <3>2. \A r \in DosOpen(disk, buf.target) :
             /\ r.disk \in [Slots -> Files]
             /\ r.handle \in {NoHandle} \cup [slot : Slots, file : {Emptied, Partial} \cup Images]
             /\ r.ok => r.handle.slot = buf.target
      BY <3>1, TornFacts DEF DosOpen, TypeOK
    <3>3. PICK r \in DosOpen(disk, buf.target) :
             /\ disk' = r.disk
             /\ handle' = r.handle
             /\ \/ /\ r.ok
                   /\ pc' = "write"
                   /\ UNCHANGED <<ram, buf, outcome, saving>>
                \/ /\ ~r.ok
                   /\ Refuse
                   /\ saving' = <<>>
                   /\ UNCHANGED <<ts_slot, ts_gen, ts_key, ts_rec>>
      BY <2>6 DEF PutOpen
    <3>4. disk' \in [Slots -> Files]
          /\ handle' \in {NoHandle} \cup [slot : Slots, file : {Emptied, Partial} \cup Images]
          /\ (r.ok => handle'.slot = buf.target)
      BY <3>2, <3>3
    <3>5. CASE r.ok
      BY <2>6, <3>3, <3>4, <3>5 DEF PutOpen, TypeOK, SavePhase, ram
    <3>6. CASE ~r.ok
      BY <2>6, <3>3, <3>4, <3>6 DEF PutOpen, Refuse, Consume, TypeOK, SavePhase, States
    <3> QED BY <3>5, <3>6
  <2>7. CASE PutWrite
    <3>1. buf.file \in Images /\ handle.slot \in Slots
      BY <2>7 DEF PutWrite, SavePhase, TypeOK, NoBuf
    <3>2. handle \in [slot : Slots, file : {Emptied, Partial} \cup Images]
      BY <3>1 DEF TypeOK, NoHandle, Slots
    <3>3. \A r \in DosWrite(handle, buf.file) :
             /\ r.handle \in [slot : Slots, file : {Emptied, Partial} \cup Images]
             /\ r.handle.slot = handle.slot
      BY <3>1, <3>2 DEF DosWrite
    <3> QED BY <2>7, <3>3 DEF PutWrite, TypeOK, SavePhase, ram
  <2>8. CASE PutClose
    <3>1. \A r \in DosClose(disk, handle) :
             /\ r.disk \in [Slots -> Files]
             /\ r.handle \in {NoHandle, handle}
      BY ClosedType DEF DosClose, TypeOK
    <3> QED BY <2>8, <3>1 DEF PutClose, Refuse, Consume, Undecided, TypeOK, SavePhase, ram, States
  <2>9. CASE PutVerify
    BY <2>9 DEF PutVerify, Refuse, Consume, TypeOK, SavePhase, States
  <2>10. CASE Reset
    <3>1. 0 \in Gens
      BY StoreAssumption DEF Gens, GenMod
    <3> QED BY <2>10, <3>1 DEF Reset, Restart, Undecided, TypeOK, SavePhase, States, Slots
  <2>11. CASE PowerLoss
    <3>1. disk' \in [Slots -> Files]
      BY <2>11, TornFacts DEF PowerLoss, TypeOK, NoHandle
    <3>2. 0 \in Gens
      BY StoreAssumption DEF Gens, GenMod
    <3> QED BY <2>11, <3>1, <3>2 DEF PowerLoss, Restart, TypeOK, SavePhase, States, Slots
  <2>12. CASE Socket
    BY <2>12 DEF Socket, TypeOK, SavePhase, ram
  <2>13. CASE ForeignSave
    <3> DEFINE r == TrueScan(disk)
    <3>1. PICK h \in Hosts, p \in Pins :
             disk' = [disk EXCEPT ![Other(r.slot)] = Image(NextGen(r.gen),
                         [(IF r.state = "EMPTY" THEN NoRecords ELSE disk[r.slot].recs)
                             EXCEPT ![h] = p])]
      BY <2>13 DEF ForeignSave
    <3>2. r \in ScanResults /\ (r.state = "VALID" => disk[r.slot] \in Images)
      BY TrueScanType
    <3>3. r.state \in {"VALID", "EMPTY"}
      BY <2>13 DEF ForeignSave
    <3> HIDE DEF r
    <3> DEFINE t == IF r.state = "EMPTY" THEN NoRecords ELSE disk[r.slot].recs
    <3>4. t \in Table
      BY <3>2, <3>3, ImageFields DEF NoRecords, Table
    <3>5. NextGen(r.gen) \in Gens
      BY <3>2, NextGenType DEF ScanResults
    <3>4a. [t EXCEPT ![h] = p] \in Table
      BY <3>4 DEF Table
    <3>5a. Image(NextGen(r.gen), [t EXCEPT ![h] = p]) \in Files
      BY <3>4a, <3>5 DEF Files, Images
    <3>6. disk' \in [Slots -> Files]
      BY <3>1, <3>5a DEF TypeOK
    <3>7. foreign' \in 0 .. MaxForeign
      BY <2>13, StoreAssumption DEF ForeignSave, TypeOK
    <3> QED BY <2>13, <3>6, <3>7 DEF ForeignSave, TypeOK, SavePhase, ram
  <2>14. CASE SwapMedium
    BY <2>14, StoreAssumption DEF SwapMedium, TypeOK, SavePhase, ram
  <2>15. CASE UNCHANGED vars
    BY <2>15 DEF vars, ram, TypeOK, SavePhase
  <2> QED BY <2>1, <2>2, <2>3, <2>4, <2>5, <2>6, <2>7, <2>8, <2>9, <2>10, <2>11,
             <2>12, <2>13, <2>14, <2>15 DEF Next
<1> QED BY <1>1, <1>2, PTL DEF Spec

\* Every operation of the store keeps its variables in their types.
THEOREM TypeCorrect == Spec => []TypeOK
BY TypeInvariant, PTL DEF TypeInv

-----------------------------------------------------------------------------
\* Without short reads a scan that does not fail is the scan of the medium: a
\* failed read is not tolerated beside a valid slot.
LEMMA ScanCurrent ==
    ASSUME ShortReads = FALSE, NEW d,
           NEW a \in ReadSlot(d[0]), NEW b \in ReadSlot(d[1]), NEW again \in ReadSlot(d[0]),
           Scan(d, a, b, again).state # "FAIL"
    PROVE  Scan(d, a, b, again) = TrueScan(d)
<1>1. \A f : ReadSlot(f) \subseteq {Validate(f), "VERSION", "DOS"}
    BY DEF ReadSlot, DosRead, Judged
<1>2. a \in {Validate(d[0]), "VERSION", "DOS"} /\ b \in {Validate(d[1]), "VERSION", "DOS"}
      /\ again \in {Validate(d[0]), "VERSION", "DOS"}
    BY <1>1
<1>3. ~Tolerable("DOS") /\ ~Tolerable("VERSION")
    BY DEF Tolerable
<1>4. ScanFail.state = "FAIL"
    BY DEF ScanFail
<1> QED BY <1>2, <1>3, <1>4 DEF Scan, TrueScan

\* A load either fails or answers from the newest whole image.
THEOREM LoadAnswersCurrent ==
    ASSUME ShortReads = FALSE
    PROVE  Spec => LoadIsCurrent
<1>1. TypeInv /\ [Next]_vars =>
        [\A h \in Hosts : Load(h) /\ ts_state' # "FAIL" => Answer' = StoreOf(disk')[h]]_vars
  <2> SUFFICES ASSUME TypeOK, NEW h \in Hosts, Load(h), ts_state' # "FAIL"
               PROVE  Answer' = StoreOf(disk')[h]
    BY DEF TypeInv
  <2> DEFINE d == Closed(disk, handle)
  <2>1. d \in [Slots -> Files]
    BY ClosedType
  <2>2. PICK a \in ReadSlot(d[0]), b \in ReadSlot(d[1]), again \in ReadSlot(d[0]) :
             LET r     == Scan(d, a, b, again)
                 found == r.state = "VALID" /\ d[r.slot].recs[h] # NoPin
             IN  /\ ts_state' = r.state
                 /\ ts_found' = found
                 /\ ts_rec' = IF found THEN d[r.slot].recs[h] ELSE ts_rec
    BY DEF Load
  <2> DEFINE r == Scan(d, a, b, again)
  <2>3. r = TrueScan(d)
    BY <2>2, ScanCurrent
  <2>4. disk' = d
    BY DEF Load
  <2>5. r.state = "VALID" => StoreOf(disk')[h] = d[r.slot].recs[h]
    BY <2>3, <2>4 DEF StoreOf
  <2>6. r.state # "VALID" => StoreOf(disk')[h] = NoPin
    BY <2>3, <2>4 DEF StoreOf, NoRecords
  <2> HIDE DEF r, d
  <2> QED BY <2>2, <2>5, <2>6 DEF Answer, r
<1> QED BY <1>1, TypeInvariant, PTL DEF Spec, LoadIsCurrent

-----------------------------------------------------------------------------
\* Neighbouring generations are ordered: never equal, never half the space apart.
LEMMA NextGenOrdered ==
    ASSUME NEW g \in Gens
    PROVE  /\ Distance(g, NextGen(g)) \notin {0, Half}
           /\ Distance(NextGen(g), g) \notin {0, Half}
BY StoreAssumption DEF Gens, GenMod, NextGen, Distance

LEMMA FollowsLoadable ==
    ASSUME TypeOK, GenerationsFollow
    PROVE  Loadable
<1>1. SUFFICES ASSUME NEW s \in Slots, disk[s].kind = "image"
               PROVE  TrueScan(disk).state = "VALID"
    BY DEF Loadable
<1>2. disk[0] \in Files /\ disk[1] \in Files
    BY DEF TypeOK, Slots
<1>3. ~OtherVersion(disk[0]) /\ ~OtherVersion(disk[1])
    BY DEF GenerationsFollow, Slots
<1>4. Tolerable("ABSENT") /\ Tolerable("FORMAT") /\ Tolerable("CHECKSUM")
    BY DEF Tolerable
<1>5. ScanTake(disk, 0).state = "VALID" /\ ScanTake(disk, 1).state = "VALID"
    BY DEF ScanTake
<1>6. CASE disk[0].kind = "image" /\ disk[1].kind = "image"
  <2>1. disk[0].gen \in Gens /\ disk[1].gen \in Gens
    BY <1>2, <1>6, FilesKinds, ImageFields
  <2>2. disk[0].gen = NextGen(disk[1].gen) \/ disk[1].gen = NextGen(disk[0].gen)
    BY <1>6 DEF GenerationsFollow, Follows, Slots, Other
  <2>3. Distance(disk[0].gen, disk[1].gen) \notin {0, Half}
    BY <2>1, <2>2, NextGenOrdered
  <2> QED BY <1>2, <1>5, <1>6, <2>3, FilesKinds DEF TrueScan, Scan
<1>7. CASE ~(disk[0].kind = "image" /\ disk[1].kind = "image")
    BY <1>1, <1>2, <1>3, <1>4, <1>5, <1>7, FilesKinds DEF TrueScan, Scan, Slots
<1> QED BY <1>6, <1>7

\* The part of GenerationsFollow that is about the medium alone.
Neighbours(d) ==
    /\ \A s \in Slots : ~OtherVersion(d[s])
    /\ \A s \in Slots : d[s].kind = "image" =>
           Follows(d[s], d, s) \/ Follows(d[Other(s)], d, Other(s))

\* Writing one slot keeps the medium in order when what is written is damaged
\* or follows the other slot.
LEMMA WriteKeepsOrder ==
    ASSUME NEW d \in [Slots -> Files], NEW t \in Slots, NEW f \in Files, Neighbours(d),
           ~OtherVersion(f), f.kind = "image" => Follows(f, d, t)
    PROVE  Neighbours([d EXCEPT ![t] = f])
<1> DEFINE e == [d EXCEPT ![t] = f]
<1>1. e[t] = f /\ e[Other(t)] = d[Other(t)] /\ Other(t) \in Slots /\ Other(Other(t)) = t
    BY DEF Slots, Other
<1>2. \A s \in Slots : s = t \/ s = Other(t)
    BY DEF Slots, Other
<1>3. \A s \in Slots : ~OtherVersion(e[s])
    BY <1>1, <1>2 DEF Neighbours
<1>4. f.kind = "image" => Follows(e[t], e, t)
    BY <1>1 DEF Follows
<1>5. f.kind # "image" => Follows(e[Other(t)], e, Other(t))
    BY <1>1 DEF Follows
<1> HIDE DEF e
<1> QED BY <1>1, <1>2, <1>3, <1>4, <1>5 DEF Neighbours, e

\* An empty store has no image in the slot beside the one a save will write.
LEMMA EmptyScan ==
    ASSUME NEW d \in [Slots -> Files], NEW a \in ReadSlot(d[0]), NEW b \in ReadSlot(d[1]),
           NEW again, Scan(d, a, b, again).state = "EMPTY"
    PROVE  d[1].kind = "absent" /\ Scan(d, a, b, again).slot = 1
<1>1. a = "ABSENT" /\ b = "ABSENT" /\ Scan(d, a, b, again) = ScanEmpty
    BY DEF Scan, ScanEmpty, ScanFail, ScanTake
<1>2. b \in {Validate(d[1]), "VERSION", "FORMAT", "DOS"}
    BY DEF ReadSlot, Judged
<1> QED BY <1>1, <1>2, FilesKinds DEF Slots, ScanEmpty

\* What a save is about to write follows the slot it loaded.
LEMMA NewFollows ==
    ASSUME NEW d \in [Slots -> Files], NEW a \in ReadSlot(d[0]), NEW b \in ReadSlot(d[1]),
           NEW again, NEW t,
           Scan(d, a, b, again).state \in {"VALID", "EMPTY"}
    PROVE  LET r == Scan(d, a, b, again)
           IN  Follows(Image(NextGen(r.gen), t), d, Other(r.slot))
<1> DEFINE r == Scan(d, a, b, again)
<1>1. CASE r.state = "EMPTY"
  <2>1. r.slot = 1 /\ d[1].kind = "absent"
    BY <1>1, EmptyScan
  <2>2. Other(Other(r.slot)) = 1
    BY <2>1 DEF Other
  <2> QED BY <2>1, <2>2 DEF Follows
<1>2. CASE r.state = "VALID"
  <2>1. r = ScanTake(d, 0) \/ r = ScanTake(d, 1)
    BY <1>2 DEF Scan, ScanEmpty, ScanFail
  <2>2. r.gen = d[r.slot].gen /\ Other(Other(r.slot)) = r.slot
    BY <2>1 DEF ScanTake, Other
  <2> QED BY <2>2 DEF Follows, Image
<1> QED BY <1>1, <1>2

\* Closing whatever the firmware holds keeps the medium in order.
LEMMA ClosedKeepsOrder ==
    ASSUME TypeOK, GenerationsFollow
    PROVE  Neighbours(Closed(disk, handle))
<1>1. Neighbours(disk)
    BY DEF GenerationsFollow, Neighbours
<1>2. CASE handle = NoHandle
    BY <1>1, <1>2 DEF Closed
<1>3. CASE handle # NoHandle
  <2>1. handle.slot \in Slots /\ handle.file \in Files /\ ~OtherVersion(handle.file)
    BY <1>3, TornFacts, FilesKinds, ImageFields DEF TypeOK
  <2>2. handle.file.kind = "image" => Follows(handle.file, disk, handle.slot)
    BY DEF GenerationsFollow
  <2>3. disk \in [Slots -> Files]
    BY DEF TypeOK
  <2> QED BY <1>1, <1>3, <2>1, <2>2, <2>3, WriteKeepsOrder DEF Closed
<1> QED BY <1>2, <1>3

\* Opening for write empties the slot or leaves the medium alone.
LEMMA DosOpenDisk ==
    ASSUME NEW d, NEW s, NEW x \in DosOpen(d, s)
    PROVE  x.disk = d \/ x.disk = [d EXCEPT ![s] = Emptied]
<1> DEFINE e == [d EXCEPT ![s] = Emptied]
           hd == [slot |-> s, file |-> Emptied]
           R(y) == [ok |-> TRUE, disk |-> y, handle |-> hd]
<1>1. \A y : R(y).disk = y /\ [R(y) EXCEPT !.ok = FALSE].disk = y
    OBVIOUS
<1>2. [ok |-> FALSE, disk |-> d, handle |-> NoHandle].disk = d
    OBVIOUS
<1>3. x \in {R(e), [R(e) EXCEPT !.ok = FALSE], [ok |-> FALSE, disk |-> d, handle |-> NoHandle]}
    BY Zenon DEF DosOpen
<1>4. R(e).disk = e /\ [R(e) EXCEPT !.ok = FALSE].disk = e
    BY <1>1, Zenon
<1> HIDE DEF e, R
<1> QED BY <1>2, <1>3, <1>4, Zenon DEF e

\* GenerationsFollow is inductive on a medium only this program writes.
LEMMA OrderInvariant ==
    ASSUME Media = {}
    PROVE  Spec => []GenerationsFollow
<1>1. Init => GenerationsFollow
    BY DEF Init, GenerationsFollow, OtherVersion, Absent, NoHandle, Slots, Follows
<1>2. TypeInv /\ GenerationsFollow /\ [Next]_vars => GenerationsFollow'
  <2> SUFFICES ASSUME TypeOK, SavePhase, GenerationsFollow, [Next]_vars
               PROVE  GenerationsFollow'
    BY DEF TypeInv
  <2>0. /\ Neighbours(disk)
        /\ disk \in [Slots -> Files]
        /\ NoHandle.file.kind # "image" /\ Emptied \in Files
        /\ \A f \in Torn : f \in Files /\ f.kind # "image" /\ ~OtherVersion(f)
        /\ Emptied \in Torn /\ Partial \in Torn
    BY TornFacts DEF GenerationsFollow, Neighbours, TypeOK
  <2>1. ASSUME NEW h \in Hosts, Load(h) PROVE GenerationsFollow'
    BY <2>0, <2>1, ClosedKeepsOrder DEF Load, GenerationsFollow, Neighbours
  <2>2. CASE SaveScan
    <3> DEFINE d == Closed(disk, handle)
    <3>1. Neighbours(d)
      BY ClosedKeepsOrder
    <3>2. PICK a \in ReadSlot(d[0]), b \in ReadSlot(d[1]), again \in ReadSlot(d[0]) :
             LET r == Scan(d, a, b, again)
             IN  \/ pc' = "idle"
                 \/ /\ r.state \in {"VALID", "EMPTY"}
                    /\ buf' = [target |-> Other(r.slot), file |-> NewImage(r, d)]
      BY <2>2 DEF SaveScan, Refuse, Consume, SameStore
    <3> DEFINE r == Scan(d, a, b, again)
    <3>3. disk' = d /\ handle' = NoHandle
      BY <2>2 DEF SaveScan
    <3>3a. d \in [Slots -> Files]
      BY ClosedType
    <3> HIDE DEF d
    <3>3b. \A t : r.state \in {"VALID", "EMPTY"} =>
              Follows(Image(NextGen(r.gen), t), d, Other(r.slot))
      BY <3>3a, NewFollows, Zenon
    <3> HIDE DEF r
    <3>4. r.state \in {"VALID", "EMPTY"} => Follows(NewImage(r, d), d, Other(r.slot))
      BY <3>3b DEF NewImage
    <3>5. pc' # "idle" => Follows(buf'.file, d, buf'.target)
      BY <3>2, <3>4 DEF r
    <3> QED BY <2>0, <3>1, <3>3, <3>5 DEF GenerationsFollow, Neighbours, Follows
  <2>3. CASE PutOpen
    <3>1. PICK r \in DosOpen(disk, buf.target) :
             /\ disk' = r.disk
             /\ handle' = r.handle
             /\ pc' = "idle" \/ (r.ok /\ pc' = "write" /\ buf' = buf)
      BY <2>3 DEF PutOpen, Refuse, Consume
    <3>2. buf.target \in Slots
      BY DEF TypeOK, NoBuf, Slots
    <3>3. Neighbours([disk EXCEPT ![buf.target] = Emptied])
      BY <2>0, <3>2, WriteKeepsOrder
    <3>4. Neighbours(disk')
      <4>1. disk' = disk \/ disk' = [disk EXCEPT ![buf.target] = Emptied]
        BY <3>1, DosOpenDisk
      <4> QED BY <2>0, <3>3, <4>1
    <3>5. handle'.file.kind # "image"
      BY <2>0, <3>1 DEF DosOpen
    <3>6. Follows(buf.file, disk, buf.target)
      BY <2>3 DEF PutOpen, GenerationsFollow
    <3>7. disk'[Other(buf.target)] = disk[Other(buf.target)]
      BY <2>0, <3>1, <3>2 DEF DosOpen, Slots, Other
    <3>8. Follows(buf.file, disk', buf.target)
      BY <3>6, <3>7 DEF Follows
    <3> QED BY <3>1, <3>4, <3>5, <3>8 DEF GenerationsFollow, Neighbours, Follows
  <2>4. CASE PutWrite
    <3>1. Follows(buf.file, disk, buf.target) /\ handle.slot = buf.target
      BY <2>4 DEF PutWrite, GenerationsFollow, SavePhase
    <3>2. handle \in [slot : Slots, file : {Emptied, Partial} \cup Images]
      BY <3>1 DEF TypeOK, NoHandle, Slots, NoBuf
    <3>3. \A r \in DosWrite(handle, buf.file) :
             r.handle.slot = buf.target /\ r.handle.file \in {handle.file, Partial, buf.file}
      BY <3>1, <3>2 DEF DosWrite
    <3>4. handle'.slot = buf.target /\ handle'.file \in {handle.file, Partial, buf.file}
      BY <2>4, <3>3 DEF PutWrite
    <3>5. UNCHANGED <<disk, buf>>
      BY <2>4 DEF PutWrite
    <3> QED BY <2>0, <3>1, <3>4, <3>5 DEF GenerationsFollow, Follows
  <2>5. CASE PutClose
    <3>1. PICK r \in DosClose(disk, handle) :
             disk' = r.disk /\ handle' = r.handle /\ pc' \in {"idle", "verify"}
      BY <2>5 DEF PutClose, Refuse, Consume
    <3>2. \/ disk' = Closed(disk, handle) /\ handle' = NoHandle
          \/ disk' = disk /\ handle' = handle
      BY <3>1 DEF DosClose
    <3> QED BY <2>0, <3>1, <3>2, ClosedKeepsOrder DEF GenerationsFollow, Neighbours, Follows
  <2>6. CASE PowerLoss
    <3>1. CASE handle = NoHandle
      BY <2>0, <2>6, <3>1 DEF PowerLoss, Restart, GenerationsFollow, Neighbours, Follows
    <3>2. CASE handle # NoHandle
      <4>1. PICK f \in Torn \cup {handle.file} : disk' = [disk EXCEPT ![handle.slot] = f]
        BY <2>6, <3>2 DEF PowerLoss
      <4>2. handle.slot \in Slots /\ f \in Files /\ ~OtherVersion(f)
        BY <2>0, <3>2, <4>1, TornFacts, FilesKinds, ImageFields DEF TypeOK
      <4>3. f.kind = "image" => Follows(f, disk, handle.slot)
        BY <2>0, <4>1 DEF GenerationsFollow
      <4>4. Neighbours(disk')
        BY <2>0, <4>1, <4>2, <4>3, WriteKeepsOrder
      <4> QED BY <2>0, <2>6, <4>4 DEF PowerLoss, Restart, GenerationsFollow, Neighbours
    <3> QED BY <3>1, <3>2
  <2>7. CASE ForeignSave
    <3> DEFINE r == TrueScan(disk)
    <3>1. r.state \in {"VALID", "EMPTY"} /\ pc' = "idle" /\ handle' = NoHandle
      BY <2>7 DEF ForeignSave
    <3>2. PICK h \in Hosts, p \in Pins :
             disk' = [disk EXCEPT ![Other(r.slot)] = Image(NextGen(r.gen),
                         [(IF r.state = "EMPTY" THEN NoRecords ELSE disk[r.slot].recs)
                             EXCEPT ![h] = p])]
      BY <2>7 DEF ForeignSave
    <3> DEFINE t == [(IF r.state = "EMPTY" THEN NoRecords ELSE disk[r.slot].recs) EXCEPT ![h] = p]
    <3>3. Validate(disk[0]) \in ReadSlot(disk[0]) /\ Validate(disk[1]) \in ReadSlot(disk[1])
      BY DEF ReadSlot, DosRead, Judged
    <3>4. Follows(Image(NextGen(r.gen), t), disk, Other(r.slot))
      BY <2>0, <3>1, <3>3, NewFollows DEF TrueScan
    <3>5. r \in ScanResults /\ (r.state = "VALID" => disk[r.slot] \in Images)
      BY TrueScanType
    <3> HIDE DEF r
    <3>6. Other(r.slot) \in Slots /\ NextGen(r.gen) \in Gens
      BY <3>5, NextGenType DEF ScanResults, Other, Slots
    <3>7. (IF r.state = "EMPTY" THEN NoRecords ELSE disk[r.slot].recs) \in Table
      BY <3>1, <3>5, ImageFields DEF NoRecords, Table
    <3>8. t \in Table
      BY <3>7 DEF Table
    <3> HIDE DEF t
    <3>9. Image(NextGen(r.gen), t) \in Files /\ ~OtherVersion(Image(NextGen(r.gen), t))
      BY <3>6, <3>8 DEF Files, Images, Image, OtherVersion
    <3>10. Neighbours([disk EXCEPT ![Other(r.slot)] = Image(NextGen(r.gen), t)])
      BY <2>0, <3>4, <3>6, <3>9, WriteKeepsOrder
    <3> QED BY <2>0, <3>1, <3>2, <3>10 DEF GenerationsFollow, Neighbours, t
  <2>8. CASE SwapMedium
    BY <2>8 DEF SwapMedium
  <2>9. CASE Reset
    BY <2>9 DEF Reset, Restart, GenerationsFollow, Follows
  <2>10. CASE LoadBusy \/ (\E p \in Pins : Stage(p)) \/ Socket \/ UNCHANGED vars
    BY <2>10 DEF LoadBusy, Stage, Socket, vars, GenerationsFollow, Follows
  <2>11. CASE SaveRefused \/ PutVerify
    BY <2>11 DEF SaveRefused, PutVerify, Refuse, Consume, GenerationsFollow, Follows
  <2> QED BY <2>1, <2>2, <2>3, <2>4, <2>5, <2>6, <2>7, <2>8, <2>9, <2>10, <2>11 DEF Next
<1> QED BY <1>1, <1>2, TypeInvariant, PTL DEF Spec

\* On a medium only this program writes, no crash and no wrap of the
\* generation ever leaves a whole image that cannot be loaded.
THEOREM AlwaysLoadable ==
    ASSUME Media = {}
    PROVE  Spec => []Loadable
<1>1. TypeInv /\ GenerationsFollow => Loadable
    BY FollowsLoadable DEF TypeInv
<1> QED BY <1>1, TypeInvariant, OrderInvariant, PTL

-----------------------------------------------------------------------------
\* The table of a medium, without the scan that reads it: the records of the
\* newer whole image.
Whole(f) == f.kind = "image"
Tolerated(f) == ~Whole(f) /\ ~OtherVersion(f)

Stored(d) ==
    IF Whole(d[0]) /\ Whole(d[1])
    THEN IF Distance(d[0].gen, d[1].gen) \in {0, Half} THEN NoRecords
         ELSE IF Distance(d[0].gen, d[1].gen) > Half THEN d[0].recs ELSE d[1].recs
    ELSE IF Whole(d[0]) /\ Tolerated(d[1]) THEN d[0].recs
    ELSE IF Whole(d[1]) /\ Tolerated(d[0]) THEN d[1].recs
    ELSE NoRecords

\* The table a save into slot s builds on: that of the other slot.
Beside(d, s) == IF Whole(d[Other(s)]) THEN d[Other(s)].recs ELSE NoRecords

\* What the check of a file says of it.
LEMMA FileVerdict ==
    ASSUME NEW f \in Files
    PROVE  /\ Validate(f) = "OK" <=> Whole(f)
           /\ Tolerable(Validate(f)) <=> Tolerated(f)
           /\ Validate(f) = "ABSENT" => f.kind = "absent"
BY FilesKinds DEF Whole, Tolerated, Tolerable

\* What the properties call the store is that table, now and after a step.
LEMMA StoreNow ==
    ASSUME TypeOK
    PROVE  StoreOf(disk) = Stored(disk)
<1>1. disk[0] \in Files /\ disk[1] \in Files
    BY DEF TypeOK, Slots
<1>2. /\ Validate(disk[0]) = "OK" <=> Whole(disk[0])
      /\ Validate(disk[1]) = "OK" <=> Whole(disk[1])
      /\ Tolerable(Validate(disk[0])) <=> Tolerated(disk[0])
      /\ Tolerable(Validate(disk[1])) <=> Tolerated(disk[1])
    BY <1>1, FileVerdict
<1>3. ScanTake(disk, 0).slot = 0 /\ ScanTake(disk, 1).slot = 1
      /\ ScanTake(disk, 0).state = "VALID" /\ ScanTake(disk, 1).state = "VALID"
      /\ ScanFail.state = "FAIL" /\ ScanEmpty.state = "EMPTY"
    BY DEF ScanTake, ScanFail, ScanEmpty
<1> QED BY <1>2, <1>3 DEF StoreOf, TrueScan, Scan, Stored, Slots

LEMMA StoreNext ==
    ASSUME TypeOK'
    PROVE  StoreOf(disk)' = Stored(disk')
<1>1. disk'[0] \in Files /\ disk'[1] \in Files
    BY DEF TypeOK, Slots
<1>2. /\ Validate(disk'[0]) = "OK" <=> Whole(disk'[0])
      /\ Validate(disk'[1]) = "OK" <=> Whole(disk'[1])
      /\ Tolerable(Validate(disk'[0])) <=> Tolerated(disk'[0])
      /\ Tolerable(Validate(disk'[1])) <=> Tolerated(disk'[1])
    BY <1>1, FileVerdict
<1>3. ScanTake(disk', 0).slot = 0 /\ ScanTake(disk', 1).slot = 1
      /\ ScanTake(disk', 0).state = "VALID" /\ ScanTake(disk', 1).state = "VALID"
      /\ ScanFail'.state = "FAIL" /\ ScanEmpty.state = "EMPTY"
    BY DEF ScanTake, ScanFail, ScanEmpty
<1> QED BY <1>2, <1>3 DEF StoreOf, TrueScan, Scan, Stored, Slots, ScanTake, ScanFail, ScanEmpty

\* A torn slot changes nothing: the other one is the store.
LEMMA StoredTorn ==
    ASSUME NEW d, NEW s \in Slots, Tolerated(d[s])
    PROVE  Stored(d) = Beside(d, s)
<1>1. \/ s = 0 /\ Other(s) = 1
      \/ s = 1 /\ Other(s) = 0
    BY DEF Slots, Other
<1>2. ~Whole(d[s])
    BY DEF Tolerated
<1> QED BY <1>1, <1>2 DEF Stored, Beside

\* The next generation is the newer one on both sides of the wrap.
LEMMA NextGenNewer ==
    ASSUME NEW g \in Gens
    PROVE  /\ Distance(g, NextGen(g)) = 1
           /\ Distance(NextGen(g), g) > Half
           /\ 1 < Half /\ Half \in Nat
BY StoreAssumption DEF Gens, GenMod, NextGen, Distance

\* A whole image that follows the other slot is the store.
LEMMA StoredNew ==
    ASSUME NEW d \in [Slots -> Files], NEW s \in Slots, NEW f \in Images,
           d[Other(s)].kind \in {"image", "absent"}, Follows(f, d, s)
    PROVE  Stored([d EXCEPT ![s] = f]) = f.recs
<1> DEFINE e == [d EXCEPT ![s] = f]
<1>1. e[s] = f /\ e[Other(s)] = d[Other(s)] /\ f.kind = "image"
    BY ImageFields DEF Slots, Other
<1>2. CASE d[Other(s)].kind = "absent"
    BY <1>1, <1>2 DEF Stored, Whole, Tolerated, OtherVersion, Slots, Other
<1>3. CASE d[Other(s)].kind = "image"
  <2>1. d[Other(s)].gen \in Gens
    BY <1>3, FilesKinds, ImageFields DEF Slots, Other
  <2>2. f.gen = NextGen(d[Other(s)].gen)
    BY <1>3 DEF Follows
  <2>3. s = 0 \/ s = 1
    BY DEF Slots
  <2>4. CASE s = 0
    <3>1. Distance(e[0].gen, e[1].gen) > Half /\ Half \in Nat
          /\ e[0].kind = "image" /\ e[1].kind = "image" /\ e[0].recs = f.recs
      BY <1>1, <1>3, <2>1, <2>2, <2>4, NextGenNewer DEF Other
    <3>2. Distance(e[0].gen, e[1].gen) \notin {0, Half}
      BY <1>1, <2>1, <2>2, <2>4, NextGenOrdered DEF Other
    <3> HIDE DEF e
    <3>3. Stored(e) = f.recs
      BY <3>1, <3>2 DEF Stored, Whole
    <3> QED BY <3>3 DEF e
  <2>5. CASE s = 1
    <3>1. Distance(e[0].gen, e[1].gen) = 1 /\ Half \in Nat /\ 1 < Half
          /\ e[0].kind = "image" /\ e[1].kind = "image" /\ e[1].recs = f.recs
      BY <1>1, <1>3, <2>1, <2>2, <2>5, NextGenNewer DEF Other
    <3> HIDE DEF e
    <3>2. Stored(e) = f.recs
      BY <3>1 DEF Stored, Whole
    <3> QED BY <3>2 DEF e
  <2> QED BY <2>3, <2>4, <2>5
<1> QED BY <1>2, <1>3

\* A scan that takes a slot says which table the other slot will build on.
LEMMA ScanBeside ==
    ASSUME NEW d \in [Slots -> Files], TrueScan(d).state \in {"VALID", "EMPTY"}
    PROVE  LET r == TrueScan(d) IN
           /\ Other(r.slot) \in Slots /\ Other(Other(r.slot)) = r.slot
           /\ Stored(d) = Beside(d, Other(r.slot))
           /\ d[r.slot].kind \in {"image", "absent"}
           /\ d[r.slot].kind = "image" => r.gen = d[r.slot].gen
           /\ Stored(d) = IF r.state = "EMPTY" THEN NoRecords ELSE d[r.slot].recs
<1>1. d[0] \in Files /\ d[1] \in Files
    BY DEF Slots
<1>2. /\ Validate(d[0]) = "OK" <=> Whole(d[0])
      /\ Validate(d[1]) = "OK" <=> Whole(d[1])
      /\ Tolerable(Validate(d[0])) <=> Tolerated(d[0])
      /\ Tolerable(Validate(d[1])) <=> Tolerated(d[1])
      /\ Validate(d[0]) = "ABSENT" => d[0].kind = "absent"
      /\ Validate(d[1]) = "ABSENT" => d[1].kind = "absent"
    BY <1>1, FileVerdict
<1>3. ScanTake(d, 0).slot = 0 /\ ScanTake(d, 1).slot = 1 /\ ScanEmpty.slot = 1
      /\ ScanTake(d, 0).gen = d[0].gen /\ ScanTake(d, 1).gen = d[1].gen
      /\ ScanTake(d, 0).state = "VALID" /\ ScanTake(d, 1).state = "VALID"
      /\ ScanFail.state = "FAIL" /\ ScanEmpty.state = "EMPTY"
    BY DEF ScanTake, ScanFail, ScanEmpty
<1>4. Other(0) = 1 /\ Other(1) = 0
    BY DEF Other
<1>5. LET r == TrueScan(d) IN
      /\ Other(r.slot) \in Slots /\ Other(Other(r.slot)) = r.slot
      /\ Stored(d) = Beside(d, Other(r.slot))
      /\ d[r.slot].kind \in {"image", "absent"}
      /\ Stored(d) = IF r.state = "EMPTY" THEN NoRecords ELSE d[r.slot].recs
    BY <1>2, <1>3, <1>4 DEF TrueScan, Scan, Stored, Beside, Whole, Slots
<1>6. d[TrueScan(d).slot].kind = "image" => TrueScan(d).gen = d[TrueScan(d).slot].gen
    BY <1>2, <1>3 DEF TrueScan, Scan, Whole, Slots
<1> QED BY <1>5, <1>6

\* f, written whole into slot s of the medium d, is the put and nothing else.
Ready(f, d, s, put) ==
    /\ f \in Images
    /\ d[Other(s)].kind \in {"image", "absent"}
    /\ Follows(f, d, s)
    /\ f.recs = [Beside(d, s) EXCEPT ![put[1]] = put[2]]

\* Where a save is, what it wrote so far and what it has still to decide.
PutInv ==
    /\ saving # <<>> => saving \in Hosts \X Pins
    /\ ts_staged # "NONE" => ts_rec \in Pins
    /\ pc = "idle" /\ (ts_state \in {"VALID", "EMPTY"} \/ ts_staged \in {"VALID", "EMPTY"})
           => handle = NoHandle
    /\ pc = "idle" /\ handle.file.kind # "image" => saving = <<>>
    /\ pc = "verify" => handle = NoHandle
    /\ pc # "idle" => saving # <<>>
    /\ pc \in {"open", "write", "close", "close_failed"} =>
           Ready(buf.file, disk, buf.target, saving)
    /\ pc = "open" => Stored(disk) = Beside(disk, buf.target)
    /\ pc = "close" => handle.file = buf.file
    /\ handle # NoHandle => disk[handle.slot] = Emptied
    /\ handle.file.kind = "image" =>
           saving # <<>> /\ Ready(handle.file, disk, handle.slot, saving)

\* A step of the register, or none.
RegisterStep == [Register!Next]_(Register!vars)

\* What a save builds on is the other slot, and that slot is not rewritten.
LEMMA BesideKept ==
    ASSUME NEW d, NEW e, NEW s, e[Other(s)] = d[Other(s)]
    PROVE  /\ Beside(e, s) = Beside(d, s)
           /\ \A f, put : Ready(f, d, s, put) => Ready(f, e, s, put)
BY DEF Beside, Ready, Follows

LEMMA HandleKinds ==
    ASSUME TypeOK
    PROVE  /\ NoHandle.file.kind # "image"
           /\ \A f \in Torn : f.kind # "image" /\ Tolerated(f)
           /\ Emptied \in Torn
           /\ handle # NoHandle => handle.slot \in Slots /\ handle.file \in {Emptied, Partial} \cup Images
           /\ handle.file.kind = "image" => handle # NoHandle /\ handle.file \in Images
           /\ handle # NoHandle /\ handle.file.kind # "image" => handle.file \in Torn
<1>1. /\ NoHandle.file.kind # "image" /\ Emptied \in Torn /\ Partial \in Torn
      /\ \A f \in Torn : f.kind # "image" /\ Tolerated(f)
    BY TornFacts DEF Tolerated, Whole
<1>2. handle # NoHandle => handle.slot \in Slots /\ handle.file \in {Emptied, Partial} \cup Images
    BY DEF TypeOK
<1> QED BY <1>1, <1>2, ImageFields

\* Closing the handle: the put takes effect, or the store is what it was.
LEMMA CloseStore ==
    ASSUME TypeOK, PutInv
    PROVE  /\ handle.file.kind = "image" =>
                  Stored(Closed(disk, handle)) = [Stored(disk) EXCEPT ![saving[1]] = saving[2]]
           /\ handle.file.kind # "image" => Stored(Closed(disk, handle)) = Stored(disk)
<1>1. disk \in [Slots -> Files]
    BY DEF TypeOK
<1>2. CASE handle.file.kind = "image"
  <2>1. handle # NoHandle /\ handle.slot \in Slots /\ handle.file \in Images
    BY <1>2, HandleKinds
  <2>2. Ready(handle.file, disk, handle.slot, saving) /\ disk[handle.slot] = Emptied
    BY <1>2, <2>1 DEF PutInv
  <2>3. Stored(disk) = Beside(disk, handle.slot)
    BY <2>1, <2>2, HandleKinds, StoredTorn
  <2>4. Stored([disk EXCEPT ![handle.slot] = handle.file]) = handle.file.recs
    BY <1>1, <2>1, <2>2, StoredNew DEF Ready
  <2> QED BY <1>2, <2>1, <2>2, <2>3, <2>4 DEF Closed, Ready
<1>3. CASE handle.file.kind # "image"
  <2>1. CASE handle = NoHandle
    BY <1>3, <2>1 DEF Closed
  <2>2. CASE handle # NoHandle
    <3> DEFINE e == [disk EXCEPT ![handle.slot] = handle.file]
    <3>1. handle.slot \in Slots /\ handle.file \in Torn /\ disk[handle.slot] = Emptied
      BY <1>3, <2>2, HandleKinds DEF PutInv
    <3>2. e[handle.slot] = handle.file /\ e[Other(handle.slot)] = disk[Other(handle.slot)]
      BY <1>1, <3>1 DEF Slots, Other
    <3>3. Closed(disk, handle) = e
      BY <2>2 DEF Closed
    <3> HIDE DEF e
    <3>4. Stored(e) = Beside(e, handle.slot) /\ Stored(disk) = Beside(disk, handle.slot)
      BY <3>1, <3>2, HandleKinds, StoredTorn
    <3>5. Beside(e, handle.slot) = Beside(disk, handle.slot)
      BY <3>2, BesideKept
    <3> QED BY <1>3, <3>3, <3>4, <3>5
  <2> QED BY <2>1, <2>2
<1> QED BY <1>2, <1>3

\* A step that leaves the table alone and ends whatever was under way.
LEMMA AbandonStep ==
    ASSUME TypeOK, TypeOK', Stored(disk') = Stored(disk), saving' = <<>>, pc' # "verify",
           outcome' \in {"none", "refused"}
    PROVE  RegisterStep
<1>1. StoreOf(disk)' = StoreOf(disk)
    BY StoreNow, StoreNext
<1> QED BY <1>1 DEF RegisterStep, Register!Next, Register!Abandon

\* A step that changes the store's table by the put under way and ends it.
LEMMA LateStep ==
    ASSUME TypeOK, TypeOK', Stored(disk') = [Stored(disk) EXCEPT ![saving[1]] = saving[2]],
           saving # <<>>, saving' = <<>>, pc # "verify", pc' # "verify",
           outcome' \in {"none", "refused"}
    PROVE  RegisterStep
<1>1. StoreOf(disk)' = [StoreOf(disk) EXCEPT ![saving[1]] = saving[2]]
    BY StoreNow, StoreNext
<1> QED BY <1>1 DEF RegisterStep, Register!Next, Register!LateApply

\* A step that leaves the put undecided.
LEMMA DoubtStep ==
    ASSUME TypeOK, TypeOK', disk' = disk, saving # <<>>, saving' = saving,
           (pc = "verify") = (pc' = "verify"), outcome' \in {"none", "refused"}
    PROVE  RegisterStep
<1>1. StoreOf(disk)' = StoreOf(disk)
    BY StoreNow, StoreNext
<1> QED BY <1>1 DEF RegisterStep, Register!Next, Register!Doubt

\* A step the caller of the store cannot see.
LEMMA StutterStep ==
    ASSUME TypeOK, TypeOK', Stored(disk') = Stored(disk), saving' = saving,
           (pc = "verify") = (pc' = "verify"), outcome' = outcome
    PROVE  RegisterStep
<1>1. StoreOf(disk)' = StoreOf(disk)
    BY StoreNow, StoreNext
<1> QED BY <1>1 DEF RegisterStep, Register!vars

\* A step of another machine, or another medium.
LEMMA ForeignStep ==
    ASSUME TypeOK, TypeOK', saving = <<>>, saving' = saving, Stored(disk') \in Table,
           (pc = "verify") = (pc' = "verify"), outcome' = outcome
    PROVE  RegisterStep
<1>1. StoreOf(disk)' \in [Hosts -> Pins \cup {NoPin}]
    BY StoreNow, StoreNext DEF Table
<1> QED BY <1>1 DEF RegisterStep, Register!Next, Register!Foreign, Register!Table

LEMMA StoredType ==
    ASSUME NEW d \in [Slots -> Files]
    PROVE  Stored(d) \in Table
<1>1. NoRecords \in Table
    BY DEF NoRecords, Table
<1>2. /\ d[0].kind = "image" => d[0].recs \in Table
      /\ d[1].kind = "image" => d[1].recs \in Table
    BY FilesKinds, ImageFields DEF Slots
<1> QED BY <1>1, <1>2 DEF Stored, Whole

\* OPEN_FILE: done, done but not acknowledged, or not done.
LEMMA DosOpenResults ==
    ASSUME NEW d, NEW s, NEW x \in DosOpen(d, s)
    PROVE  \/ /\ x.disk = [d EXCEPT ![s] = Emptied]
              /\ x.handle = [slot |-> s, file |-> Emptied]
           \/ ~x.ok /\ x.disk = d /\ x.handle = NoHandle
<1> DEFINE e == [d EXCEPT ![s] = Emptied]
           hd == [slot |-> s, file |-> Emptied]
           R(y, k) == [ok |-> TRUE, disk |-> y, handle |-> k]
           N == [ok |-> FALSE, disk |-> d, handle |-> NoHandle]
<1>1. \A y, k : /\ R(y, k).disk = y /\ R(y, k).handle = k
                /\ [R(y, k) EXCEPT !.ok = FALSE].disk = y
                /\ [R(y, k) EXCEPT !.ok = FALSE].handle = k
    OBVIOUS
<1>2. ~N.ok /\ N.disk = d /\ N.handle = NoHandle
    OBVIOUS
<1>3. x \in {R(e, hd), [R(e, hd) EXCEPT !.ok = FALSE], N}
    BY Zenon DEF DosOpen
<1>4. /\ R(e, hd).disk = e /\ R(e, hd).handle = hd
      /\ [R(e, hd) EXCEPT !.ok = FALSE].disk = e /\ [R(e, hd) EXCEPT !.ok = FALSE].handle = hd
    BY <1>1, Zenon
<1> HIDE DEF e, hd, R, N
<1> QED BY <1>2, <1>3, <1>4, Zenon DEF e, hd

LEMMA LoadPuts ==
    ASSUME ShortReads = FALSE, TypeOK, TypeOK', PutInv, NEW h \in Hosts, Load(h)
    PROVE  PutInv' /\ RegisterStep
<1>1. /\ disk' = Closed(disk, handle) /\ handle' = NoHandle /\ saving' = <<>>
      /\ pc = "idle" /\ pc' = "idle" /\ outcome' = "none" /\ ts_staged' = "NONE"
    BY DEF Load
<1>2. PutInv'
    BY <1>1, HandleKinds DEF PutInv
<1>3. CASE handle.file.kind = "image"
  <2>1. saving # <<>>
    BY <1>3 DEF PutInv
  <2> QED BY <1>1, <1>2, <1>3, <2>1, CloseStore, LateStep
<1>4. CASE handle.file.kind # "image"
  <2>1. Stored(disk') = Stored(disk)
    BY <1>1, <1>4, CloseStore
  <2> QED BY <1>1, <1>2, <2>1, AbandonStep
<1> QED BY <1>3, <1>4

\* LoadBusy and SaveRefused: no disk, and a put left in the firmware stays there.
LEMMA RefusalPuts ==
    ASSUME TypeOK, TypeOK', PutInv, LoadBusy \/ SaveRefused
    PROVE  PutInv' /\ RegisterStep
<1>1. /\ UNCHANGED <<disk, handle, saving>> /\ ts_rec' = ts_rec
      /\ pc = "idle" /\ pc' = "idle" /\ outcome' \in {"none", "refused"}
      /\ ts_staged' = "NONE" /\ ts_state' \notin {"VALID", "EMPTY"}
    BY DEF LoadBusy, SaveRefused, Refuse, Consume
<1>2. PutInv'
    BY <1>1 DEF PutInv, Ready, Beside, Stored, Follows
<1>3. CASE saving = <<>>
    BY <1>1, <1>2, <1>3, AbandonStep
<1>4. CASE saving # <<>>
    BY <1>1, <1>2, <1>4, DoubtStep
<1> QED BY <1>3, <1>4

LEMMA QuietPuts ==
    ASSUME TypeOK, TypeOK', PutInv, (\E p \in Pins : Stage(p)) \/ Socket \/ UNCHANGED vars
    PROVE  PutInv' /\ RegisterStep
<1>1. UNCHANGED <<disk, handle, saving, pc, buf, outcome>>
    BY DEF Stage, Socket, vars, ram
<1>2. /\ ts_staged' # "NONE" => ts_rec' \in Pins
      /\ ts_state' \in {"VALID", "EMPTY"} \/ ts_staged' \in {"VALID", "EMPTY"} =>
            ts_state \in {"VALID", "EMPTY"} \/ ts_staged \in {"VALID", "EMPTY"}
    BY DEF PutInv, Stage, Socket, vars, ram
<1>3. PutInv'
    BY <1>1, <1>2 DEF PutInv, Ready, Beside, Stored, Follows
<1> QED BY <1>1, <1>3, StutterStep

\* trust_store_save up to ts_put: the image replaces this host's record in the
\* table of the medium, in the slot that does not hold it.
LEMMA ScanPuts ==
    ASSUME ShortReads = FALSE, TypeOK, TypeOK', PutInv, SaveScan
    PROVE  PutInv' /\ RegisterStep
<1>1. /\ handle = NoHandle /\ handle' = NoHandle /\ disk' = disk /\ saving = <<>>
      /\ pc = "idle" /\ ts_staged \in {"VALID", "EMPTY"} /\ ts_rec' = ts_rec /\ ts_rec \in Pins
    BY HandleKinds DEF SaveScan, PutInv, Closed
<1>2. PICK a \in ReadSlot(disk[0]), b \in ReadSlot(disk[1]), again \in ReadSlot(disk[0]) :
         LET r == Scan(disk, a, b, again)
         IN  \/ Refuse /\ UNCHANGED saving
             \/ /\ SameStore(r)
                /\ buf' = [target |-> Other(r.slot), file |-> NewImage(r, disk)]
                /\ saving' = <<ts_key, ts_rec>>
                /\ pc' = "open"
                /\ outcome' = "none"
    BY <1>1 DEF SaveScan, Closed
<1> DEFINE r == Scan(disk, a, b, again)
<1>3. CASE Refuse /\ UNCHANGED saving
  <2>1. PutInv'
    BY <1>1, <1>3, HandleKinds DEF Refuse, Consume, PutInv
  <2> QED BY <1>1, <1>3, <2>1, AbandonStep DEF Refuse, Consume
<1>4. CASE /\ SameStore(r)
           /\ buf' = [target |-> Other(r.slot), file |-> NewImage(r, disk)]
           /\ saving' = <<ts_key, ts_rec>>
           /\ pc' = "open"
           /\ outcome' = "none"
  <2>1. r.state \in {"VALID", "EMPTY"}
    BY <1>1, <1>4 DEF SameStore
  <2>2. r = TrueScan(disk)
    BY <2>1, ScanCurrent
  <2>3. disk \in [Slots -> Files] /\ ts_key \in Hosts
    BY DEF TypeOK
  <2>4. r \in ScanResults /\ (r.state = "VALID" => disk[r.slot] \in Images)
    BY <2>2, TrueScanType
  <2>5. Follows(NewImage(r, disk), disk, Other(r.slot))
    <3>1. \A t : r.state \in {"VALID", "EMPTY"} =>
              Follows(Image(NextGen(r.gen), t), disk, Other(r.slot))
      BY <2>3, NewFollows, Zenon
    <3> HIDE DEF r
    <3> QED BY <2>1, <3>1 DEF NewImage
  <2>6. /\ Other(r.slot) \in Slots /\ Other(Other(r.slot)) = r.slot
        /\ Stored(disk) = Beside(disk, Other(r.slot))
        /\ disk[r.slot].kind \in {"image", "absent"}
        /\ Stored(disk) = IF r.state = "EMPTY" THEN NoRecords ELSE disk[r.slot].recs
    BY <2>1, <2>2, <2>3, ScanBeside
  <2>7. NewImage(r, disk) \in Images
    BY <1>1, <2>1, <2>3, <2>4, NewImageType
  <2> HIDE DEF r
  <2>8. NewImage(r, disk).recs = [Beside(disk, Other(r.slot)) EXCEPT ![ts_key] = ts_rec]
    BY <2>6 DEF NewImage, Image
  <2>9. Ready(NewImage(r, disk), disk, Other(r.slot), <<ts_key, ts_rec>>)
    BY <2>5, <2>6, <2>7, <2>8 DEF Ready
  <2>10. buf'.file = NewImage(r, disk) /\ buf'.target = Other(r.slot) /\ disk' = disk
    BY <1>1, <1>4
  <2>11. Ready(buf'.file, disk', buf'.target, saving') /\ Stored(disk') = Beside(disk', buf'.target)
    BY <1>4, <2>6, <2>9, <2>10
  <2>12. saving' \in Hosts \X Pins /\ saving' # <<>>
    BY <1>1, <1>4, <2>3
  <2>13. PutInv'
    BY <1>1, <1>4, <2>11, <2>12, HandleKinds DEF PutInv
  <2>14. StoreOf(disk)' = StoreOf(disk)
    BY <2>10, StoreNow, StoreNext
  <2>15. RegisterStep
    BY <1>1, <1>4, <2>3, <2>14 DEF RegisterStep, Register!Next, Register!Begin
  <2> QED BY <2>13, <2>15
<1> QED BY <1>2, <1>3, <1>4

LEMMA OpenPuts ==
    ASSUME TypeOK, SavePhase, TypeOK', PutInv, PutOpen
    PROVE  PutInv' /\ RegisterStep
<1>1. PICK x \in DosOpen(disk, buf.target) :
         /\ disk' = x.disk
         /\ handle' = x.handle
         /\ \/ /\ x.ok
               /\ pc' = "write"
               /\ UNCHANGED <<ram, buf, outcome, saving>>
            \/ /\ ~x.ok
               /\ Refuse
               /\ saving' = <<>>
    BY DEF PutOpen
<1>2. pc = "open" /\ buf.target \in Slots /\ disk \in [Slots -> Files] /\ handle = NoHandle
    BY DEF PutOpen, TypeOK, NoBuf, Slots, SavePhase
<1>3. Ready(buf.file, disk, buf.target, saving) /\ Stored(disk) = Beside(disk, buf.target)
      /\ saving # <<>> /\ saving \in Hosts \X Pins
    BY <1>2 DEF PutInv
<1> DEFINE e == [disk EXCEPT ![buf.target] = Emptied]
<1>4. /\ Stored(e) = Beside(disk, buf.target) /\ e[buf.target] = Emptied
      /\ Ready(buf.file, e, buf.target, saving)
  <2>1. /\ e[buf.target] = Emptied /\ Beside(e, buf.target) = Beside(disk, buf.target)
        /\ Ready(buf.file, e, buf.target, saving)
    <3>1. e[buf.target] = Emptied /\ e[Other(buf.target)] = disk[Other(buf.target)]
      BY <1>2 DEF Slots, Other
    <3> HIDE DEF e
    <3> QED BY <1>3, <3>1, BesideKept
  <2> HIDE DEF e
  <2>2. Stored(e) = Beside(e, buf.target)
    BY <1>2, <2>1, StoredTorn, HandleKinds
  <2> QED BY <2>1, <2>2
<1>5. disk' = disk \/ disk' = e
    BY <1>1, DosOpenDisk
<1>6. \/ disk' = e /\ handle' = [slot |-> buf.target, file |-> Emptied]
      \/ ~x.ok /\ disk' = disk /\ handle' = NoHandle
    BY <1>1, DosOpenResults
<1> HIDE DEF e
<1>7. Stored(disk') = Stored(disk)
    BY <1>3, <1>4, <1>5
<1>8. handle' # NoHandle => disk'[handle'.slot] = Emptied
    BY <1>4, <1>6
<1>9. handle'.file.kind # "image"
    BY <1>6, HandleKinds
<1>10. CASE x.ok
  <2>1. PutInv'
    BY <1>1, <1>2, <1>3, <1>4, <1>6, <1>8, <1>9, <1>10 DEF PutInv, ram
  <2> QED BY <1>1, <1>2, <1>7, <1>10, <2>1, StutterStep
<1>11. CASE ~x.ok
  <2>1. PutInv'
    BY <1>1, <1>8, <1>9, <1>11 DEF PutInv, Refuse, Consume
  <2> QED BY <1>1, <1>7, <1>11, <2>1, AbandonStep DEF Refuse, Consume
<1> QED BY <1>10, <1>11

LEMMA WritePuts ==
    ASSUME TypeOK, SavePhase, TypeOK', PutInv, PutWrite
    PROVE  PutInv' /\ RegisterStep
<1>1. /\ pc = "write" /\ pc' \in {"close", "close_failed"}
      /\ UNCHANGED <<disk, buf, saving, outcome, ts_state, ts_staged, ts_rec>>
    BY DEF PutWrite, ram
<1>2. handle.slot = buf.target /\ handle # NoHandle /\ saving # <<>>
      /\ Ready(buf.file, disk, buf.target, saving) /\ saving \in Hosts \X Pins
    BY <1>1 DEF SavePhase, TypeOK, NoBuf, NoHandle, Slots, PutInv
<1>3. \A x \in DosWrite(handle, buf.file) :
         \/ x.handle.slot = handle.slot /\ x.handle.file = buf.file
         \/ ~x.ok /\ x.handle.slot = handle.slot /\ x.handle.file \in {handle.file, Partial}
    <2>1. handle \in [slot : Slots, file : {Emptied, Partial} \cup Images]
      BY <1>2 DEF TypeOK
    <2> QED BY <2>1 DEF DosWrite
<1>4. \/ handle'.slot = buf.target /\ handle'.file = buf.file
      \/ pc' = "close_failed" /\ handle'.slot = buf.target /\ handle'.file \in {handle.file, Partial}
    BY <1>2, <1>3 DEF PutWrite
<1>5. disk'[handle'.slot] = Emptied
    BY <1>1, <1>2, <1>4 DEF PutInv
<1>6. handle'.file.kind = "image" => Ready(handle'.file, disk, handle'.slot, saving)
    BY <1>2, <1>4, HandleKinds, TornFacts DEF PutInv
<1>7. pc' = "close" => handle'.file = buf.file
    BY <1>4
<1>8. PutInv'
    BY <1>1, <1>2, <1>5, <1>6, <1>7 DEF PutInv
<1> QED BY <1>1, <1>8, StutterStep

\* The close: the put takes effect with the save still under way, or after it
\* was given up, or stays in the firmware, or is lost.
LEMMA ClosePuts ==
    ASSUME TypeOK, TypeOK', PutInv, PutClose
    PROVE  PutInv' /\ RegisterStep
<1>1. PICK x \in DosClose(disk, handle) :
         /\ disk' = x.disk
         /\ handle' = x.handle
         /\ \/ /\ x.ok /\ pc = "close"
               /\ pc' = "verify"
               /\ UNCHANGED <<ram, buf, outcome, saving>>
            \/ /\ Refuse
               /\ saving' = Undecided(x.handle)
    BY DEF PutClose
<1>2. \/ disk' = Closed(disk, handle) /\ handle' = NoHandle
      \/ ~x.ok /\ disk' = disk /\ handle' = handle
    BY <1>1 DEF DosClose
<1>3. saving # <<>> /\ saving \in Hosts \X Pins /\ pc # "verify"
      /\ (pc = "close" => handle.file = buf.file /\ buf.file \in Images)
    BY DEF PutClose, PutInv, Ready
<1>4. CASE /\ x.ok /\ pc = "close"
           /\ pc' = "verify"
           /\ UNCHANGED <<ram, buf, outcome, saving>>
  <2>1. disk' = Closed(disk, handle) /\ handle' = NoHandle
    BY <1>2, <1>4
  <2>2. handle.file.kind = "image"
    BY <1>3, <1>4, ImageFields
  <2>3. PutInv'
    BY <1>3, <1>4, <2>1, HandleKinds DEF PutInv, ram
  <2>4. StoreOf(disk)' = [StoreOf(disk) EXCEPT ![saving[1]] = saving[2]]
    BY <2>1, <2>2, CloseStore, StoreNow, StoreNext
  <2>5. RegisterStep
    BY <1>3, <1>4, <2>4 DEF RegisterStep, Register!Next, Register!Apply
  <2> QED BY <2>3, <2>5
<1>5. CASE Refuse /\ saving' = Undecided(x.handle)
  <2>1. /\ pc' = "idle" /\ outcome' = "refused" /\ ts_state' = "NONE" /\ ts_staged' = "NONE"
        /\ saving' = IF handle'.file.kind = "image" THEN saving ELSE <<>>
    BY <1>1, <1>5 DEF Refuse, Consume, Undecided
  <2>2. CASE disk' = Closed(disk, handle) /\ handle' = NoHandle
    <3>1. saving' = <<>>
      BY <2>1, <2>2, HandleKinds
    <3>2. PutInv'
      BY <2>1, <2>2, <3>1, HandleKinds DEF PutInv
    <3>3. CASE handle.file.kind = "image"
      BY <1>3, <2>1, <2>2, <3>1, <3>2, <3>3, CloseStore, LateStep
    <3>4. CASE handle.file.kind # "image"
      BY <1>3, <2>1, <2>2, <3>1, <3>2, <3>4, CloseStore, AbandonStep
    <3> QED BY <3>3, <3>4
  <2>3. CASE disk' = disk /\ handle' = handle
    <3>1. CASE handle.file.kind = "image"
      <4>1. saving' = saving
        BY <2>1, <2>3, <3>1
      <4>2. PutInv'
        BY <1>3, <2>1, <2>3, <3>1, <4>1 DEF PutInv
      <4> QED BY <1>3, <2>1, <2>3, <4>1, <4>2, DoubtStep
    <3>2. CASE handle.file.kind # "image"
      <4>1. saving' = <<>>
        BY <2>1, <2>3, <3>2
      <4>2. PutInv'
        BY <2>1, <2>3, <3>2, <4>1 DEF PutInv
      <4> QED BY <2>1, <2>3, <4>1, <4>2, AbandonStep
    <3> QED BY <3>1, <3>2
  <2> QED BY <1>2, <2>2, <2>3
<1> QED BY <1>1, <1>4, <1>5

\* Success is reported after the put took effect.
LEMMA VerifyPuts ==
    ASSUME TypeOK, TypeOK', PutInv, PutVerify
    PROVE  PutInv' /\ RegisterStep
<1>1. /\ pc = "verify" /\ pc' = "idle" /\ saving # <<>> /\ saving' = <<>>
      /\ disk' = disk /\ handle' = NoHandle /\ handle = NoHandle
      /\ ts_state' = "NONE" /\ ts_staged' = "NONE" /\ outcome' \in {"saved", "refused"}
    BY DEF PutVerify, Refuse, Consume, PutInv
<1>2. PutInv'
    BY <1>1, HandleKinds DEF PutInv
<1>3. CASE outcome' = "refused"
    BY <1>1, <1>2, <1>3, AbandonStep
<1>4. CASE outcome' = "saved"
  <2>1. StoreOf(disk)' = StoreOf(disk)
    BY <1>1, StoreNow, StoreNext
  <2>2. RegisterStep
    BY <1>1, <1>4, <2>1 DEF RegisterStep, Register!Next, Register!Report
  <2> QED BY <1>2, <2>2
<1> QED BY <1>1, <1>3, <1>4

\* A reset leaves what was written in the firmware, to take effect later.
LEMMA ResetPuts ==
    ASSUME TypeOK, TypeOK', PutInv, Reset
    PROVE  PutInv' /\ RegisterStep
<1>1. /\ pc' = "idle" /\ disk' = disk /\ handle' = handle /\ outcome' = "none"
      /\ ts_state' = "NONE" /\ ts_staged' = "NONE"
      /\ saving' = IF handle.file.kind = "image" THEN saving ELSE <<>>
    BY DEF Reset, Restart, Undecided
<1>2. CASE handle.file.kind = "image"
  <2>1. saving' = saving /\ saving # <<>> /\ pc # "verify"
    BY <1>1, <1>2, HandleKinds DEF PutInv
  <2>2. PutInv'
    BY <1>1, <1>2, <2>1 DEF PutInv
  <2> QED BY <1>1, <2>1, <2>2, DoubtStep
<1>3. CASE handle.file.kind # "image"
  <2>1. PutInv'
    BY <1>1, <1>3 DEF PutInv
  <2> QED BY <1>1, <1>3, <2>1, AbandonStep
<1> QED BY <1>2, <1>3

\* A loss of power: the put takes effect whole or leaves no trace.
LEMMA PowerPuts ==
    ASSUME TypeOK, TypeOK', PutInv, PowerLoss
    PROVE  PutInv' /\ RegisterStep
<1>1. /\ pc' = "idle" /\ handle' = NoHandle /\ outcome' = "none" /\ saving' = <<>>
      /\ ts_state' = "NONE" /\ ts_staged' = "NONE"
    BY DEF PowerLoss, Restart
<1>2. PutInv'
    BY <1>1, HandleKinds DEF PutInv
<1>3. CASE handle = NoHandle
  <2>1. disk' = disk
    BY <1>3 DEF PowerLoss
  <2> QED BY <1>1, <1>2, <2>1, AbandonStep
<1>4. CASE handle # NoHandle
  <2>1. PICK f \in Torn \cup {handle.file} : disk' = [disk EXCEPT ![handle.slot] = f]
    BY <1>4 DEF PowerLoss
  <2>2. handle.slot \in Slots /\ disk[handle.slot] = Emptied /\ disk \in [Slots -> Files]
        /\ pc # "verify"
    BY <1>4, HandleKinds DEF PutInv, TypeOK
  <2>3. CASE f = handle.file /\ handle.file.kind = "image"
    <3>1. disk' = Closed(disk, handle) /\ saving # <<>>
      BY <1>4, <2>1, <2>3 DEF Closed, PutInv
    <3> QED BY <1>1, <1>2, <2>2, <2>3, <3>1, CloseStore, LateStep
  <2>4. CASE f \in Torn
    <3>1. disk'[handle.slot] = f /\ disk'[Other(handle.slot)] = disk[Other(handle.slot)]
      BY <2>1, <2>2 DEF Slots, Other
    <3>2. Stored(disk') = Beside(disk', handle.slot)
      BY <2>2, <2>4, <3>1, StoredTorn, HandleKinds
    <3>3. Stored(disk) = Beside(disk, handle.slot)
      BY <2>2, HandleKinds, StoredTorn
    <3>4. Stored(disk') = Stored(disk)
      BY <3>1, <3>2, <3>3, BesideKept
    <3> QED BY <1>1, <1>2, <3>4, AbandonStep
  <2> QED BY <1>4, <2>1, <2>3, <2>4, HandleKinds
<1> QED BY <1>3, <1>4

LEMMA ForeignPuts ==
    ASSUME TypeOK, TypeOK', PutInv, ForeignSave \/ SwapMedium
    PROVE  PutInv' /\ RegisterStep
<1>1. /\ pc = "idle" /\ pc' = "idle" /\ handle = NoHandle /\ handle' = NoHandle
      /\ UNCHANGED <<saving, outcome, ts_state, ts_staged, ts_rec>>
    BY DEF ForeignSave, SwapMedium, ram
<1>2. saving = <<>> /\ saving' = <<>>
    BY <1>1, HandleKinds DEF PutInv
<1>3. PutInv'
    BY <1>1, <1>2, HandleKinds DEF PutInv
<1>4. Stored(disk') \in Table
    BY StoredType DEF TypeOK
<1> QED BY <1>1, <1>2, <1>3, <1>4, ForeignStep

LEMMA PutInitial == Init => PutInv /\ Register!Init
<1> SUFFICES ASSUME Init PROVE PutInv /\ Register!Init
    OBVIOUS
<1>1. PutInv
    BY DEF Init, PutInv, NoHandle, Absent
<1>2. StoreOf(disk) = NoRecords
    BY DEF Init, StoreOf, TrueScan, Scan, Validate, Absent, Slots, ScanEmpty
<1>3. Register!Init
    BY <1>2 DEF Init, Register!Init, Register!Table, NoRecords
<1> QED BY <1>1, <1>3

LEMMA StepPuts ==
    ASSUME ShortReads = FALSE, TypeInv, TypeInv', PutInv, [Next]_vars
    PROVE  PutInv' /\ RegisterStep
BY LoadPuts, RefusalPuts, QuietPuts, ScanPuts, OpenPuts, WritePuts, ClosePuts, VerifyPuts,
   ResetPuts, PowerPuts, ForeignPuts DEF Next, TypeInv

\* The two slots, the generations and the file commands implement one table
\* with atomic puts: a save changes its own host's entry whole and once, or not
\* at all, wherever a reset or a loss of power falls; it reports success only
\* after the entry is on the medium.
THEOREM RegisterImplemented ==
    ASSUME ShortReads = FALSE
    PROVE  Spec => ImplementsRegister
<1>1. Init => PutInv /\ Register!Init
    BY PutInitial
<1>2. TypeInv /\ TypeInv' /\ PutInv /\ [Next]_vars => PutInv' /\ [Register!Next]_(Register!vars)
    BY StepPuts DEF RegisterStep
<1> QED BY <1>1, <1>2, TypeInvariant, PTL DEF Spec, ImplementsRegister, Register!Spec

-----------------------------------------------------------------------------
\* A load of the medium takes slot A.
TakesA(d) ==
    Whole(d[0]) /\ IF Whole(d[1]) THEN Distance(d[0].gen, d[1].gen) > Half ELSE Tolerated(d[1])

\* The generation a load of the medium finds.
Generation(d) == IF TakesA(d) THEN d[0].gen ELSE IF Whole(d[1]) THEN d[1].gen ELSE 0

\* k saves after generation g.
Ahead(g, k) == IF g + k < GenMod THEN g + k ELSE g + k - GenMod

\* A load that was not used up knows the generation of the medium up to the
\* saves others made since; while a save can still reach the medium, the medium
\* holds the table the load read.
LoadedInv ==
    /\ pc = "idle" /\ (ts_state \in {"VALID", "EMPTY"} \/ ts_staged \in {"VALID", "EMPTY"}) =>
          /\ Generation(disk) = Ahead(ts_gen, foreign)
          /\ foreign = 0 => Stored(disk) = seen
    /\ saving # <<>> /\ pc # "verify" => Stored(disk) = seen

LEMMA AheadFacts ==
    ASSUME NEW g \in Gens, NEW k \in 0 .. MaxForeign
    PROVE  /\ Ahead(g, 0) = g
           /\ Ahead(g, k) = g => k = 0
           /\ NextGen(Ahead(g, k)) = Ahead(g, k + 1)
<1>1. MaxForeign \in 0 .. GenMod - 1 /\ GenMod \in Nat /\ g \in 0 .. GenMod - 1
    BY StoreAssumption DEF GenMod, Gens
<1> QED BY <1>1 DEF Ahead, NextGen

LEMMA ScanGeneration ==
    ASSUME NEW d \in [Slots -> Files], TrueScan(d).state \in {"VALID", "EMPTY"}
    PROVE  TrueScan(d).gen = Generation(d)
<1>1. d[0] \in Files /\ d[1] \in Files
    BY DEF Slots
<1>2. /\ Validate(d[0]) = "OK" <=> Whole(d[0])
      /\ Validate(d[1]) = "OK" <=> Whole(d[1])
      /\ Tolerable(Validate(d[0])) <=> Tolerated(d[0])
      /\ Tolerable(Validate(d[1])) <=> Tolerated(d[1])
      /\ Validate(d[0]) = "ABSENT" => d[0].kind = "absent"
      /\ Validate(d[1]) = "ABSENT" => d[1].kind = "absent"
    BY <1>1, FileVerdict
<1>3. /\ ScanTake(d, 0).gen = d[0].gen /\ ScanTake(d, 1).gen = d[1].gen /\ ScanEmpty.gen = 0
      /\ ScanTake(d, 0).state = "VALID" /\ ScanTake(d, 1).state = "VALID"
      /\ ScanFail.state = "FAIL" /\ ScanEmpty.state = "EMPTY"
    BY DEF ScanTake, ScanFail, ScanEmpty
<1> QED BY <1>2, <1>3 DEF TrueScan, Scan, Generation, TakesA, Slots

LEMMA GenerationNew ==
    ASSUME NEW d \in [Slots -> Files], NEW s \in Slots, NEW f \in Images,
           d[Other(s)].kind \in {"image", "absent"}, Follows(f, d, s)
    PROVE  Generation([d EXCEPT ![s] = f]) = f.gen
<1> DEFINE e == [d EXCEPT ![s] = f]
<1>1. e[s] = f /\ e[Other(s)] = d[Other(s)] /\ f.kind = "image"
    BY ImageFields DEF Slots, Other
<1>2. CASE d[Other(s)].kind = "absent"
    BY <1>1, <1>2 DEF Generation, TakesA, Whole, Tolerated, OtherVersion, Slots, Other
<1>3. CASE d[Other(s)].kind = "image"
  <2>1. d[Other(s)].gen \in Gens
    BY <1>3, FilesKinds, ImageFields DEF Slots, Other
  <2>2. f.gen = NextGen(d[Other(s)].gen)
    BY <1>3 DEF Follows
  <2>3. s = 0 \/ s = 1
    BY DEF Slots
  <2>4. CASE s = 0
    <3>1. Distance(e[0].gen, e[1].gen) > Half
          /\ e[0].kind = "image" /\ e[1].kind = "image" /\ e[0].gen = f.gen
      BY <1>1, <1>3, <2>1, <2>2, <2>4, NextGenNewer DEF Other
    <3> HIDE DEF e
    <3>2. Generation(e) = f.gen
      BY <3>1 DEF Generation, TakesA, Whole
    <3> QED BY <3>2 DEF e
  <2>5. CASE s = 1
    <3>1. Distance(e[0].gen, e[1].gen) = 1 /\ Half \in Nat /\ 1 < Half
          /\ e[0].kind = "image" /\ e[1].kind = "image" /\ e[1].gen = f.gen
      BY <1>1, <1>3, <2>1, <2>2, <2>5, NextGenNewer DEF Other
    <3> HIDE DEF e
    <3>2. Generation(e) = f.gen
      BY <3>1 DEF Generation, TakesA, Whole
    <3> QED BY <3>2 DEF e
  <2> QED BY <2>3, <2>4, <2>5
<1> QED BY <1>2, <1>3

LEMMA LoadLoaded ==
    ASSUME ShortReads = FALSE, TypeOK, TypeOK', NEW h \in Hosts, Load(h)
    PROVE  LoadedInv'
<1> DEFINE d == Closed(disk, handle)
<1>1. d \in [Slots -> Files]
    BY ClosedType
<1>2. PICK a \in ReadSlot(d[0]), b \in ReadSlot(d[1]), again \in ReadSlot(d[0]) :
         LET r == Scan(d, a, b, again)
         IN  /\ ts_state' = r.state /\ ts_gen' = r.gen
             /\ seen' = IF r.state = "FAIL" THEN seen
                        ELSE IF r.state = "EMPTY" THEN NoRecords
                        ELSE d[r.slot].recs
    BY DEF Load
<1> DEFINE r == Scan(d, a, b, again)
<1>3. disk' = d /\ foreign' = 0 /\ saving' = <<>> /\ ts_staged' = "NONE"
    BY DEF Load
<1>4. CASE r.state \in {"VALID", "EMPTY"}
  <2>1. r = TrueScan(d)
    BY <1>4, ScanCurrent
  <2>2. r.gen = Generation(d)
    BY <1>1, <1>4, <2>1, ScanGeneration
  <2>3. Stored(d) = IF r.state = "EMPTY" THEN NoRecords ELSE d[r.slot].recs
    BY <1>1, <1>4, <2>1, ScanBeside
  <2>4. ts_gen' \in Gens /\ 0 \in 0 .. MaxForeign
    BY StoreAssumption DEF TypeOK
  <2>5. Ahead(ts_gen', 0) = ts_gen'
    BY <2>4, AheadFacts
  <2> HIDE DEF r, d
  <2>6. Generation(disk') = Ahead(ts_gen', foreign') /\ Stored(disk') = seen'
    BY <1>2, <1>3, <1>4, <2>2, <2>3, <2>5 DEF r
  <2> QED BY <1>3, <2>6 DEF LoadedInv
<1>5. CASE r.state \notin {"VALID", "EMPTY"}
    BY <1>2, <1>3, <1>5 DEF LoadedInv
<1> QED BY <1>4, <1>5

LEMMA ForeignLoaded ==
    ASSUME TypeOK, TypeOK', PutInv, LoadedInv, ForeignSave
    PROVE  LoadedInv'
<1> DEFINE r == TrueScan(disk)
           t == IF r.state = "EMPTY" THEN NoRecords ELSE disk[r.slot].recs
<1>1. /\ pc = "idle" /\ pc' = pc /\ handle = NoHandle /\ saving' = saving
      /\ foreign' = foreign + 1 /\ r.state \in {"VALID", "EMPTY"}
      /\ UNCHANGED <<ts_state, ts_staged, ts_gen, seen>>
    BY DEF ForeignSave, ram
<1>2. saving = <<>>
    BY <1>1, HandleKinds DEF PutInv
<1>3. PICK h \in Hosts, p \in Pins :
         disk' = [disk EXCEPT ![Other(r.slot)] = Image(NextGen(r.gen), [t EXCEPT ![h] = p])]
    BY DEF ForeignSave
<1> DEFINE f == Image(NextGen(r.gen), [t EXCEPT ![h] = p])
<1>6. disk \in [Slots -> Files] /\ ts_gen \in Gens /\ foreign \in 0 .. MaxForeign
    BY DEF TypeOK
<1>7. /\ Other(r.slot) \in Slots /\ Other(Other(r.slot)) = r.slot
      /\ disk[r.slot].kind \in {"image", "absent"} /\ t = Stored(disk)
      /\ disk[r.slot].kind = "image" => r.gen = disk[r.slot].gen
    BY <1>1, <1>6, ScanBeside
<1>8. r.gen = Generation(disk) /\ r.gen \in Gens
    BY <1>1, <1>6, ScanGeneration, TrueScanType DEF ScanResults
<1> HIDE DEF r, t
<1>9. f \in Images /\ f.gen = NextGen(r.gen)
  <2>1. t \in Table
    BY <1>6, <1>7, StoredType
  <2>2. [t EXCEPT ![h] = p] \in Table
    BY <2>1 DEF Table
  <2> QED BY <1>8, <2>2, NextGenType DEF Images, Image
<1>10. Follows(f, disk, Other(r.slot))
    BY <1>7, <1>9 DEF Follows
<1> HIDE DEF f
<1>11. Generation(disk') = NextGen(Generation(disk))
    BY <1>3, <1>6, <1>7, <1>8, <1>9, <1>10, GenerationNew DEF f
<1>12. NextGen(Ahead(ts_gen, foreign)) = Ahead(ts_gen, foreign + 1) /\ foreign' # 0
    BY <1>1, <1>6, AheadFacts
<1> QED BY <1>1, <1>2, <1>11, <1>12 DEF LoadedInv

LEMMA ScanLoaded ==
    ASSUME ShortReads = FALSE, TypeOK, PutInv, LoadedInv, SaveScan
    PROVE  LoadedInv'
<1>1. /\ handle = NoHandle /\ disk' = disk /\ saving = <<>> /\ seen' = seen
      /\ pc = "idle" /\ ts_staged \in {"VALID", "EMPTY"}
    BY HandleKinds DEF SaveScan, PutInv, Closed
<1>2. PICK a \in ReadSlot(disk[0]), b \in ReadSlot(disk[1]), again \in ReadSlot(disk[0]) :
         \/ Refuse /\ UNCHANGED saving
         \/ SameStore(Scan(disk, a, b, again)) /\ pc' = "open"
    BY <1>1 DEF SaveScan, Closed
<1> DEFINE r == Scan(disk, a, b, again)
<1>3. CASE Refuse /\ UNCHANGED saving
    BY <1>1, <1>3 DEF Refuse, Consume, LoadedInv
<1>4. CASE SameStore(r) /\ pc' = "open"
  <2>1. r.state \in {"VALID", "EMPTY"} /\ r.gen = ts_gen
    BY <1>1, <1>4 DEF SameStore
  <2>2. r = TrueScan(disk)
    BY <2>1, ScanCurrent
  <2>3. disk \in [Slots -> Files] /\ ts_gen \in Gens /\ foreign \in 0 .. MaxForeign
    BY DEF TypeOK
  <2>4. Generation(disk) = ts_gen
    BY <2>1, <2>2, <2>3, ScanGeneration
  <2>5. Generation(disk) = Ahead(ts_gen, foreign) /\ (foreign = 0 => Stored(disk) = seen)
    BY <1>1 DEF LoadedInv
  <2>6. foreign = 0
    BY <2>3, <2>4, <2>5, AheadFacts
  <2> QED BY <1>1, <1>4, <2>5, <2>6 DEF LoadedInv
<1> QED BY <1>2, <1>3, <1>4

\* The other steps of a save, and a reset, leave the medium's table alone for as
\* long as the put can still reach it.
LEMMA PutLoaded ==
    ASSUME TypeOK, TypeOK', PutInv, LoadedInv, RegisterStep,
           PutOpen \/ PutWrite \/ PutClose \/ PutVerify \/ Reset \/ PowerLoss
             \/ LoadBusy \/ SaveRefused
    PROVE  LoadedInv'
<1>1. /\ seen' = seen /\ saving' \in {saving, <<>>}
      /\ pc = "verify" => saving' = <<>>
      /\ pc' = "idle" => ts_state' \notin {"VALID", "EMPTY"} /\ ts_staged' = "NONE"
    BY HandleKinds DEF PutOpen, PutWrite, PutClose, PutVerify, Reset, PowerLoss, LoadBusy,
       SaveRefused, Refuse, Consume, Restart, Undecided, PutInv
<1>2. saving' # <<>> /\ pc' # "verify" => StoreOf(disk)' = StoreOf(disk)
    BY <1>1 DEF RegisterStep, Register!Next, Register!vars, Register!Begin, Register!Apply,
       Register!Report, Register!Abandon, Register!LateApply, Register!Doubt, Register!Foreign
<1>3. saving' # <<>> /\ pc' # "verify" => Stored(disk') = Stored(disk)
    BY <1>2, StoreNow, StoreNext
<1> QED BY <1>1, <1>3 DEF LoadedInv

LEMMA QuietLoaded ==
    ASSUME LoadedInv, (\E p \in Pins : Stage(p)) \/ Socket \/ UNCHANGED vars
    PROVE  LoadedInv'
<1>1. UNCHANGED <<disk, saving, pc, ts_gen, foreign, seen>>
    BY DEF Stage, Socket, vars, ram
<1>2. ts_state' \in {"VALID", "EMPTY"} \/ ts_staged' \in {"VALID", "EMPTY"} =>
            ts_state \in {"VALID", "EMPTY"} \/ ts_staged \in {"VALID", "EMPTY"}
    BY DEF Stage, Socket, vars, ram
<1> QED BY <1>1, <1>2 DEF LoadedInv

LEMMA StepLoaded ==
    ASSUME ShortReads = FALSE, Media = {}, TypeInv, TypeInv', PutInv, LoadedInv, [Next]_vars
    PROVE  LoadedInv'
<1>1. ~SwapMedium
    BY DEF SwapMedium
<1>2. RegisterStep
    BY StepPuts
<1> QED BY <1>1, <1>2, LoadLoaded, ForeignLoaded, ScanLoaded, PutLoaded, QuietLoaded
        DEF Next, TypeInv

\* On a medium only this program writes, the table a save replaces is the table
\* its load read, however many saves other machines made in between.
THEOREM NoLostUpdate ==
    ASSUME ShortReads = FALSE, Media = {}
    PROVE  Spec => NoBlindOverwrite
<1>1. Init => PutInv /\ LoadedInv
    BY PutInitial DEF Init, LoadedInv
<1>2. TypeInv /\ TypeInv' /\ PutInv /\ LoadedInv /\ [Next]_vars => PutInv' /\ LoadedInv'
    BY StepPuts, StepLoaded
<1>3. TypeInv /\ TypeInv' /\ PutInv /\ LoadedInv /\ [Next]_vars =>
        [saving # <<>> /\ StoreOf(disk') # StoreOf(disk) => StoreOf(disk) = seen]_vars
  <2> SUFFICES ASSUME TypeOK, PutInv, LoadedInv, Next, saving # <<>>, disk' # disk
               PROVE  StoreOf(disk) = seen
    BY DEF TypeInv, vars
  <2>1. CASE pc # "verify"
    BY <2>1, StoreNow DEF LoadedInv
  <2>2. CASE pc = "verify"
    <3>1. handle = NoHandle
      BY <2>2 DEF PutInv
    <3> QED BY <2>2, <3>1 DEF Next, LoadBusy, Load, Stage, SaveRefused, SaveScan, PutOpen, PutWrite,
             PutClose, PutVerify, Reset, PowerLoss, Socket, ForeignSave, SwapMedium
  <2> QED BY <2>1, <2>2
<1> QED BY <1>1, <1>2, <1>3, TypeInvariant, PTL DEF Spec, NoBlindOverwrite
=============================================================================
