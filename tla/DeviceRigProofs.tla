-------------------------- MODULE DeviceRigProofs ---------------------------
(* What the shared device's lock, the guard before its release and the clean-up *)
(* give, for any number of rigs of any kinds.  The scripts are data, so what    *)
(* the proofs take from them are the assumptions ScriptShape, FetchShape and    *)
(* TidyShape of DeviceRig, which TLC evaluates.                                 *)
EXTENDS DeviceRig, TLAPS

-----------------------------------------------------------------------------
(* Types, and where a rig is in its script *)

Place == [part : Parts \cup {"end"}, i : Nat \ {0}]
MeType == [fif : BOOLEAN, uci : BOOLEAN, store : BOOLEAN, rc : Int, bad : BOOLEAN, seen : BOOLEAN,
           nud : BOOLEAN, tries : Nat, nth : Nat, keep : BOOLEAN, warned : BOOLEAN,
           killed : BOOLEAN]
LsnStates == {"off", "on", "rekeyed", "served", "expired"}

Placed ==
    /\ job \in [Rigs -> Kinds] /\ pc \in [Rigs -> Place] /\ rig \in [Rigs -> MeType]
    /\ lsn \in [Rigs -> LsnStates]
    /\ \A r \in Rigs : pc[r].part # "end" => pc[r].i <= Len(Part(r))

\* The place after this one.
Succ(r) ==
    IF pc[r].i < Len(Part(r)) THEN [part |-> pc[r].part, i |-> pc[r].i + 1]
    ELSE [part |-> IF pc[r].part = "pre" THEN "body" ELSE IF pc[r].part = "fin" THEN "end" ELSE "fin",
          i |-> 1]
Onward(r) == pc' = [pc EXCEPT ![r] = Succ(r)]
Goes(r, p) == pc' = [pc EXCEPT ![r] = [part |-> p, i |-> 1]]

\* r has passed the step that takes the lock, and not the one that releases it.
HasLock(r) ==
    \/ pc[r].part = "pre" /\ \E i \in 1 .. pc[r].i - 1 : Script[job[r]]["pre"][i][1] = "lock"
    \/ pc[r].part \in {"body", "late"}
    \/ pc[r].part = "fin" /\ \A i \in 1 .. pc[r].i - 1 : Script[job[r]]["fin"][i][1] # "release"

LEMMA PlaceOf ==
    ASSUME Placed, NEW r \in Rigs, pc[r].part # "end"
    PROVE  /\ job[r] \in Kinds /\ pc[r].part \in Parts /\ pc[r].i \in Nat \ {0}
           /\ Part(r) = Script[job[r]][pc[r].part] /\ Part(r) \in Seq(STRING \X Int)
           /\ Len(Part(r)) \in Nat /\ pc[r].i \in 1 .. Len(Part(r))
<1>1. job[r] \in Kinds /\ pc[r].part \in Parts /\ pc[r].i \in Nat \ {0}
    BY DEF Placed, Place
<1>2. Part(r) = Script[job[r]][pc[r].part]
    BY DEF Part
<1>3. Part(r) \in Seq(STRING \X Int)
    BY <1>1, <1>2, ScriptShape
<1>4. Len(Part(r)) \in Nat
    BY <1>3
<1>5. pc[r].i <= Len(Part(r))
    BY SMTT(30) DEF Placed
<1> QED BY <1>1, <1>2, <1>3, <1>4, <1>5

LEMMA OpPlace ==
    ASSUME Placed, NEW r \in Rigs, pc[r].part # "end"
    PROVE  /\ Op(r) = Script[job[r]][pc[r].part][pc[r].i][1] /\ Code(r) \in Int
           /\ pc[r].part = "pre" => Op(r) \in Checks \cup {"lock"}
           /\ pc[r].part \in {"body", "late"} => Op(r) \notin {"lock", "release"}
           /\ pc[r].part = "fin" => Op(r) \in Tidying \cup Judges
           /\ pc[r].part = "fin" /\ ~HasLock(r) => Op(r) \in Judges
<1>1. /\ job[r] \in Kinds /\ pc[r].part \in Parts
      /\ Part(r) = Script[job[r]][pc[r].part] /\ Part(r) \in Seq(STRING \X Int)
      /\ Len(Part(r)) \in Nat /\ pc[r].i \in 1 .. Len(Part(r))
    BY PlaceOf
<1>2. Op(r) = Script[job[r]][pc[r].part][pc[r].i][1]
    BY <1>1 DEF Op
<1>3. Part(r)[pc[r].i] \in STRING \X Int
    BY <1>1, SMTT(30)
<1>4. Code(r) \in Int
    BY <1>3 DEF Code
<1>5. Op(r) \in Steps(job[r], pc[r].part)
    BY <1>1, <1>2 DEF Steps
<1>6. /\ Steps(job[r], "pre") \subseteq Checks \cup {"lock"}
      /\ {"lock", "release"} \cap (Steps(job[r], "body") \cup Steps(job[r], "late")) = {}
      /\ Steps(job[r], "fin") \subseteq Tidying \cup Judges
    BY <1>1, ScriptShape
<1>7. pc[r].part = "fin" /\ ~HasLock(r) => Op(r) \in Judges
  <2> SUFFICES ASSUME pc[r].part = "fin", ~HasLock(r) PROVE Op(r) \in Judges
    OBVIOUS
  <2>1. PICK i \in 1 .. pc[r].i - 1 : Script[job[r]]["fin"][i][1] = "release"
    BY DEF HasLock
  <2>2. i \in 1 .. Len(Script[job[r]]["fin"]) /\ i < pc[r].i /\ pc[r].i \in 1 .. Len(Script[job[r]]["fin"])
    BY <1>1, SMTT(30)
  <2>3. \A m, n \in 1 .. Len(Script[job[r]]["fin"]) :
           m < n /\ Script[job[r]]["fin"][m][1] = "release" => Script[job[r]]["fin"][n][1] \in Judges
    BY <1>1, ScriptShape
  <2> QED BY <1>2, <2>1, <2>2, <2>3
<1> QED BY <1>2, <1>4, <1>5, <1>6, <1>7

LEMMA Steered ==
    ASSUME Placed, NEW r \in Rigs, NEW me \in MeType,
           NEW p \in Parts \cup {"end"}, GoTo(r, p, me)
    PROVE  /\ Goes(r, p)
           /\ \E m \in MeType : rig' = [rig EXCEPT ![r] = m]
<1>1. Fresh \in MeType
    BY DEF Fresh, MeType
<1>2. Kept(p, me) \in MeType
  <2>1. CASE p \in {"pre", "body", "late"}
    BY <2>1 DEF Kept
  <2>2. CASE p = "fin"
    <3>1. Kept(p, me) = [me EXCEPT !.bad = FALSE, !.tries = 0, !.nth = 0]
      BY <2>2 DEF Kept
    <3>2. [me EXCEPT !.bad = FALSE, !.tries = 0, !.nth = 0] \in MeType
      BY DEF MeType
    <3> QED BY <3>1, <3>2
  <2>3. CASE p = "end"
    <3> DEFINE z == IF me.rc = 0 THEN 0 ELSE 1
    <3>1. Kept(p, me) = [Fresh EXCEPT !.rc = z, !.warned = me.warned, !.killed = me.killed]
      BY <2>3 DEF Kept
    <3>2. me.warned \in BOOLEAN /\ me.killed \in BOOLEAN /\ z \in Int
      BY DEF MeType
    <3> HIDE DEF z
    <3>3. ASSUME NEW a \in Int, NEW b \in BOOLEAN, NEW c \in BOOLEAN
          PROVE  [Fresh EXCEPT !.rc = a, !.warned = b, !.killed = c] \in MeType
      BY <1>1 DEF MeType
    <3>4. [Fresh EXCEPT !.rc = z, !.warned = me.warned, !.killed = me.killed] \in MeType
      BY <3>2, <3>3
    <3> QED BY <3>1, <3>4
  <2> QED BY <2>1, <2>2, <2>3 DEF Parts
<1> QED BY <1>2 DEF GoTo, Goes

LEMMA Advances ==
    ASSUME Placed, NEW r \in Rigs, pc[r].part # "end", NEW me \in MeType, Advance(r, me)
    PROVE  /\ Onward(r)
           /\ \E m \in MeType : rig' = [rig EXCEPT ![r] = m]
<1> DEFINE n == Len(Part(r))
<1>1. n \in Nat /\ pc[r].i \in 1 .. n /\ pc[r].part \in Parts
    BY PlaceOf
<1>2. CASE pc[r].i < n
  <2>1. pc' = [pc EXCEPT ![r] = [part |-> @.part, i |-> @.i + 1]] /\ rig' = [rig EXCEPT ![r] = me]
    <3>1. pc[r].i # Len(Part(r)) /\ pc[r].i < Len(Part(r))
      BY <1>1, <1>2
    <3> QED BY <3>1, Zenon DEF Advance
  <2>2. Succ(r) = [part |-> pc[r].part, i |-> pc[r].i + 1]
    BY <1>2 DEF Succ
  <2> QED BY <2>1, <2>2 DEF Onward
<1>3. CASE pc[r].i = n
  <2>0. ~(pc[r].i < Len(Part(r)))
    BY <1>1, <1>3
  <2>1. CASE pc[r].part = "pre"
    <3>1. GoTo(r, "body", me)
      BY <1>3, <2>0, <2>1 DEF Advance
    <3> QED BY <2>0, <2>1, <3>1, Steered DEF Succ, Onward, Goes, Parts
  <2>2. CASE pc[r].part = "body"
    <3>1. GoTo(r, "fin", [me EXCEPT !.rc = IF me.bad THEN 1 ELSE 0])
      BY <1>3, <2>0, <2>2 DEF Advance
    <3>2. [me EXCEPT !.rc = IF me.bad THEN 1 ELSE 0] \in MeType
      BY DEF MeType
    <3> QED BY <2>0, <2>2, <3>1, <3>2, Steered DEF Succ, Onward, Goes, Parts
  <2>3. CASE pc[r].part = "late"
    <3>1. GoTo(r, "fin", [me EXCEPT !.rc = 1])
      BY <1>3, <2>0, <2>3 DEF Advance
    <3>2. [me EXCEPT !.rc = 1] \in MeType
      BY DEF MeType
    <3> QED BY <2>0, <2>3, <3>1, <3>2, Steered DEF Succ, Onward, Goes, Parts
  <2>4. CASE pc[r].part = "fin"
    <3>1. GoTo(r, "end", me)
      BY <1>3, <2>0, <2>4 DEF Advance
    <3> QED BY <2>0, <2>4, <3>1, Steered DEF Succ, Onward, Goes, Parts
  <2> QED BY <1>1, <2>1, <2>2, <2>3, <2>4 DEF Parts
<1> QED BY <1>1, <1>2, <1>3

LEMMA MeFields ==
    ASSUME NEW m \in MeType, NEW b \in BOOLEAN, NEW n \in Nat, NEW c \in Int
    PROVE  /\ [m EXCEPT !.fif = b] \in MeType /\ [m EXCEPT !.uci = b] \in MeType
           /\ [m EXCEPT !.store = b] \in MeType /\ [m EXCEPT !.rc = c] \in MeType
           /\ [m EXCEPT !.bad = b] \in MeType /\ [m EXCEPT !.seen = b] \in MeType
           /\ [m EXCEPT !.tries = n] \in MeType /\ [m EXCEPT !.nth = n] \in MeType
           /\ [m EXCEPT !.rc = c, !.killed = b] \in MeType
           /\ [m EXCEPT !.fif = b, !.nth = n] \in MeType
           /\ [m EXCEPT !.fif = b, !.warned = TRUE] \in MeType
           /\ [m EXCEPT !.nud = TRUE, !.seen = b] \in MeType
           /\ [m EXCEPT !.fif = b, !.keep = TRUE, !.warned = TRUE] \in MeType
BY ZenonT(40) DEF MeType

\* What a step of r does to r's own variables, its place and the lock.
Departs(r) ==
    \/ Onward(r) /\ holder' = holder /\ Op(r) \notin {"lock", "release"}
    \/ Onward(r) /\ Op(r) = "lock" /\ holder = NoRig /\ holder' = r
    \/ Onward(r) /\ Op(r) = "release" /\ holder' = NoRig
    \/ Goes(r, "fin") /\ Trying(r) /\ holder' = holder
    \/ Goes(r, "late") /\ pc[r].part = "body" /\ Script[job[r]].late # <<>> /\ holder' = holder
    \/ Goes(r, "end") /\ pc[r].part = "pre" /\ holder' = (IF holder = r THEN NoRig ELSE holder)
    \/ Goes(r, "end") /\ Op(r) = "lock" /\ holder' = holder
    \/ Goes(r, "end") /\ pc[r].part = "fin" /\ HasLock(r) /\ holder' = NoRig
Moves(r) == (pc' = pc /\ holder' = holder) \/ Departs(r)
Mine(r) == \E m \in MeType : rig' = [rig EXCEPT ![r] = m]
Listens(r) ==
    \/ lsn' = lsn /\ Op(r) # "release" /\ (pc[r].part = "fin" => holder' = holder)
    \/ Op(r) = "listen" /\ \E v \in LsnStates : lsn' = [lsn EXCEPT ![r] = v]
    \/ HasLock(r) /\ pc[r].part = "fin" /\ lsn' = [lsn EXCEPT ![r] = "off"]

LEMMA Lapses ==
    ASSUME Placed, NEW r \in Rigs, pc[r].part \in {"pre", "body", "late"}, NEW me \in MeType,
           Lapse(r, me), Op(r) \notin {"lock", "release"}
    PROVE  Departs(r) /\ Mine(r)
<1>0. pc[r].part # "end" /\ Code(r) \in Int
    BY OpPlace
<1>1. CASE Code(r) = Tallied
  <2>0. Code(r) # Ignored /\ ~(Code(r) > 0)
    BY <1>1 DEF Tallied, Ignored
  <2>1. Advance(r, [me EXCEPT !.bad = TRUE]) /\ UNCHANGED holder
    BY <1>1, <2>0, Zenon DEF Lapse
  <2>2. [me EXCEPT !.bad = TRUE] \in MeType
    BY DEF MeType
  <2> QED BY <1>0, <2>1, <2>2, Advances DEF Departs, Mine
<1>2. CASE Code(r) = Ignored
  <2>0. Code(r) # Tallied /\ ~(Code(r) > 0)
    BY <1>2 DEF Tallied, Ignored
  <2>1. Advance(r, me) /\ UNCHANGED holder
    BY <1>2, <2>0, Zenon DEF Lapse
  <2> QED BY <1>0, <2>1, Advances DEF Departs, Mine
<1>3. CASE /\ Code(r) > 0 /\ pc[r].part = "body" /\ Op(r) \in {"sentinel", "body_stable"}
           /\ Script[job[r]].late # <<>>
  <2>0. Code(r) # Tallied /\ Code(r) # Ignored
    BY <1>0, <1>3 DEF Tallied, Ignored
  <2>1. GoTo(r, "late", me) /\ UNCHANGED holder
    BY <1>3, <2>0, Zenon DEF Lapse
  <2> QED BY <1>3, <2>1, Steered DEF Departs, Mine, Parts
<1>4. CASE Leave(r, me, Code(r))
  <2>1. [me EXCEPT !.rc = Code(r)] \in MeType
    BY <1>0 DEF MeType
  <2>2. CASE Trying(r)
    <3>1. GoTo(r, "fin", [me EXCEPT !.rc = Code(r)]) /\ UNCHANGED holder
      BY <1>4, <2>2 DEF Leave
    <3> QED BY <2>1, <2>2, <3>1, Steered DEF Departs, Mine, Parts
  <2>3. CASE ~Trying(r)
    <3>1. GoTo(r, "end", [me EXCEPT !.rc = Code(r)]) /\ holder' = IF holder = r THEN NoRig ELSE holder
      BY <1>4, <2>3 DEF Leave
    <3>2. pc[r].part = "pre"
      BY <2>3 DEF Trying
    <3> QED BY <2>1, <3>1, <3>2, Steered DEF Departs, Mine
  <2> QED BY <2>2, <2>3
<1>5. CASE /\ Code(r) # Tallied /\ Code(r) # Ignored
           /\ ~(/\ Code(r) > 0 /\ pc[r].part = "body" /\ Op(r) \in {"sentinel", "body_stable"}
                /\ Script[job[r]].late # <<>>)
  <2>1. Leave(r, me, Code(r))
    BY <1>5, Zenon DEF Lapse
  <2> QED BY <2>1, <1>4
<1> QED BY <1>1, <1>2, <1>3, <1>5

LEMMA RigMoves ==
    ASSUME Placed, NEW r \in Rigs, RigStep(r)
    PROVE  pc[r].part # "end" /\ job' = job /\ Moves(r) /\ Mine(r) /\ Listens(r)
<1>0. pc[r].part # "end" /\ job' = job
    BY DEF RigStep, Work, Escape, Kill, Acquire, AcquireTimesOut, BadLockTimeout, Check, Release,
           Listen, Persist, EnableUci, DisableUci, PrepareDevice, PrepRefused, PreflightReu,
           PreflightRefuses, SetTurbo, TrustFiles, StoreUnavailable, WriteFiles, CleanUp,
           RestoreDrive, ResetC64, LoadPrg, VerifyAndRun, LoadAndRun, Press, Wait, Overdue,
           NudgeViewer, Landed, Guard, CloseOrphan, LeaveViewer, Judge
<1> DEFINE me == Me(r)
<1>1. me \in MeType
    BY DEF Me, Placed
<1>2. /\ pc[r].part = "pre" => Op(r) \in Checks \cup {"lock"}
      /\ pc[r].part \in {"body", "late"} => Op(r) \notin {"lock", "release"}
      /\ pc[r].part = "fin" => Op(r) \in Tidying \cup Judges
      /\ pc[r].part = "fin" /\ ~HasLock(r) => Op(r) \in Judges
      /\ pc[r].part \in Parts
    BY <1>0, OpPlace, PlaceOf
<1> HIDE DEF me
<1>3. ASSUME NEW m \in MeType, Advance(r, m), UNCHANGED holder, Op(r) \notin {"lock", "release"}
      PROVE  Moves(r) /\ Mine(r)
    BY <1>0, <1>3, Advances DEF Moves, Departs, Mine
<1>4. ASSUME NEW m \in MeType, Lapse(r, m), Op(r) \notin {"lock", "release"},
             pc[r].part # "fin" \/ Op(r) \notin Tidying \cup Judges
      PROVE  Moves(r) /\ Mine(r)
  <2>1. pc[r].part \in {"pre", "body", "late"}
    BY <1>0, <1>2, <1>4 DEF Parts
  <2> QED BY <1>4, <2>1, Lapses DEF Moves
<1>5. ASSUME NEW m \in MeType, NEW c \in Int, Leave(r, m, c), pc[r].part \in {"pre", "body", "late"}
      PROVE  Moves(r) /\ Mine(r)
  <2>1. [m EXCEPT !.rc = c] \in MeType
    BY DEF MeType
  <2>2. CASE Trying(r)
    <3>1. GoTo(r, "fin", [m EXCEPT !.rc = c]) /\ UNCHANGED holder
      BY <1>5, <2>2 DEF Leave
    <3> QED BY <2>1, <2>2, <3>1, Steered DEF Moves, Departs, Mine, Parts
  <2>3. CASE ~Trying(r)
    <3>1. GoTo(r, "end", [m EXCEPT !.rc = c]) /\ holder' = IF holder = r THEN NoRig ELSE holder
      BY <1>5, <2>3 DEF Leave
    <3>2. pc[r].part = "pre"
      BY <1>5, <2>3 DEF Trying
    <3> QED BY <2>1, <3>1, <3>2, Steered DEF Moves, Departs, Mine
  <2> QED BY <2>2, <2>3
<1>6. lsn' = lsn /\ Op(r) # "release" /\ (pc[r].part # "fin" \/ holder' = holder) => Listens(r)
    BY DEF Listens
<1>7. Op(r) \notin Tidying \cup Judges => pc[r].part # "fin"
    BY <1>2
\* The lock.
<1>11. CASE Acquire(r)
  <2>1. Op(r) = "lock" /\ holder = NoRig /\ Advance(r, me) /\ holder' = r /\ lsn' = lsn
    BY <1>11 DEF Acquire, me
  <2>2. pc[r].part # "fin"
    BY <1>7, <2>1 DEF Tidying, Guards, Judges
  <2> QED BY <1>0, <1>1, <1>6, <2>1, <2>2, Advances DEF Moves, Departs, Mine
<1>12. CASE AcquireTimesOut(r) \/ BadLockTimeout(r)
  <2>1. PICK c \in Int : GoTo(r, "end", [me EXCEPT !.rc = c])
    BY <1>0, <1>12, OpPlace DEF AcquireTimesOut, BadLockTimeout, me
  <2>2. Op(r) = "lock" /\ holder' = holder /\ lsn' = lsn
    BY <1>12 DEF AcquireTimesOut, BadLockTimeout
  <2>3. [me EXCEPT !.rc = c] \in MeType
    BY <1>1 DEF MeType
  <2> QED BY <1>0, <1>6, <2>1, <2>2, <2>3, Steered DEF Moves, Departs, Mine
<1>13. CASE Release(r)
  <2>1. /\ Op(r) = "release" /\ Advance(r, me) /\ holder' = NoRig
        /\ lsn' = [lsn EXCEPT ![r] = "off"]
    BY <1>13 DEF Release, me
  <2>2. pc[r].part = "fin" /\ HasLock(r)
    BY <1>2, <2>1 DEF Parts, Checks, Judges
  <2> QED BY <1>0, <1>1, <2>1, <2>2, Advances DEF Moves, Departs, Mine, Listens
<1>14. CASE Kill(r)
  <2>1. PICK b \in BOOLEAN : GoTo(r, "end", [me EXCEPT !.rc = 1, !.killed = b])
    BY <1>1, <1>14 DEF Kill, me, MeType
  <2>2. /\ pc[r].part = "fin" /\ holder' = NoRig /\ lsn' = [lsn EXCEPT ![r] = "off"]
        /\ Op(r) \notin Judges
    BY <1>14 DEF Kill, Judges
  <2>3. HasLock(r)
    BY <1>2, <2>2
  <2>4. [me EXCEPT !.rc = 1, !.killed = b] \in MeType
    <3>1. 1 \in Int
      OBVIOUS
    <3> QED BY <1>1, <3>1, MeFields, Zenon
  <2> QED BY <1>0, <2>1, <2>2, <2>3, <2>4, Steered DEF Moves, Departs, Mine, Listens
<1>15. CASE Escape(r)
    BY <1>0, <1>1, <1>2, <1>5, <1>6, <1>15 DEF Escape, me, Checks
\* Steps that go on or lapse.
<1>21. CASE Check(r)
    BY <1>0, <1>1, <1>3, <1>4, <1>7, <1>6, <1>21 DEF Check, me, Checks, Tidying, Guards, Judges
<1>22. CASE Listen(r)
    BY <1>0, <1>1, <1>3, <1>4, <1>7, <1>22
       DEF Listen, me, Tidying, Guards, Judges, Listens, LsnStates
<1>23. CASE \/ Persist(r) \/ PrepareDevice(r) \/ PreflightReu(r) \/ SetTurbo(r) \/ RestoreDrive(r)
            \/ ResetC64(r) \/ LoadAndRun(r) \/ DisableUci(r) \/ CloseOrphan(r)
    BY <1>0, <1>1, <1>3, <1>6, <1>23 DEF Persist, PrepareDevice, PreflightReu, SetTurbo, RestoreDrive,
                       ResetC64, LoadAndRun, DisableUci, CloseOrphan, ResetEffect, me
<1>24. CASE PrepRefused(r) \/ PreflightRefuses(r) \/ StoreUnavailable(r)
    BY <1>0, <1>1, <1>4, <1>7, <1>6, <1>24 DEF PrepRefused, PreflightRefuses, StoreUnavailable, me, Tidying,
                       Guards, Judges
<1>25. CASE WriteFiles(r)
    BY <1>0, <1>1, <1>3, <1>4, <1>7, <1>6, <1>25 DEF WriteFiles, me, Tidying, Guards, Judges
<1>26. CASE EnableUci(r) \/ TrustFiles(r) \/ Landed(r) \/ LeaveViewer(r) \/ CleanUp(r)
  <2>1. /\ [me EXCEPT !.uci = TRUE] \in MeType /\ [me EXCEPT !.store = TRUE] \in MeType
        /\ [me EXCEPT !.fif = FALSE] \in MeType /\ [me EXCEPT !.rc = 1] \in MeType
        /\ [me EXCEPT !.fif = FALSE, !.keep = TRUE, !.warned = TRUE] \in MeType
    <3>1. 1 \in Int
      OBVIOUS
    <3>2. 0 \in Nat
      OBVIOUS
    <3> QED BY <1>1, <3>1, <3>2, MeFields, Zenon
  <2> QED BY <1>0, <1>1, <1>3, <1>6, <1>26, <2>1 DEF EnableUci, TrustFiles, Landed, LeaveViewer, CleanUp, me
<1>27. CASE LoadPrg(r)
  <2>1. pc' = pc /\ holder' = holder /\ lsn' = lsn /\ Op(r) = "load"
        /\ rig' = [rig EXCEPT ![r].tries = @ + 1]
    BY <1>27 DEF LoadPrg
  <2>2. rig' = [rig EXCEPT ![r] = [me EXCEPT !.tries = @ + 1]]
    BY <2>1 DEF me, Me
  <2>3. [me EXCEPT !.tries = @ + 1] \in MeType
    BY <1>1 DEF MeType
  <2> QED BY <1>0, <1>6, <2>1, <2>2, <2>3 DEF Moves, Departs, Mine
<1>28. CASE VerifyAndRun(r)
  <2>1. [me EXCEPT !.tries = 0] \in MeType
    BY <1>1 DEF MeType
  <2> QED BY <1>0, <1>1, <1>3, <1>4, <1>7, <1>6, <1>28, <2>1 DEF VerifyAndRun, me, Tidying, Guards, Judges
<1>29. CASE Press(r)
  <2>1. /\ [me EXCEPT !.fif = TRUE, !.nth = @ + 1] \in MeType /\ [me EXCEPT !.nth = @ + 1] \in MeType
        /\ [me EXCEPT !.fif = TRUE] \in MeType /\ [me EXCEPT !.nth = 0] \in MeType
    <3>1. me.nth + 1 \in Nat
      BY <1>1 DEF MeType
    <3>2. 0 \in Nat /\ 0 \in Int
      OBVIOUS
    <3> QED BY <1>1, <3>1, <3>2, MeFields, Zenon
  <2> QED BY <1>0, <1>1, <1>3, <1>6, <1>29, <2>1 DEF Press, me
<1>30. CASE Wait(r)
  <2>1. StillInFlight(r) \in BOOLEAN
    BY <1>1 DEF StillInFlight, me, MeType
  <2>2. [me EXCEPT !.fif = StillInFlight(r)] \in MeType
    BY <1>1, <2>1 DEF MeType
  <2> QED BY <1>0, <1>1, <1>3, <1>6, <1>30, <2>2 DEF Wait, Waits, me
<1>31. CASE Overdue(r)
  <2>1. Op(r) \in Waits /\ lsn' = lsn
    BY <1>31 DEF Overdue
  <2>2. Op(r) \notin {"lock", "release"} /\ Op(r) \notin Tidying \cup Judges
        /\ pc[r].part \in {"body", "late"}
    BY <1>0, <1>2, <2>1 DEF Waits, Checks, Tidying, Guards, Judges, Parts
  <2>3. [me EXCEPT !.fif = FALSE] \in MeType /\ [me EXCEPT !.seen = ProbeOpen] \in MeType
    BY <1>1 DEF MeType, ProbeOpen
  <2> QED BY <1>0, <1>1, <1>4, <1>5, <1>6, <1>31, <2>1, <2>2, <2>3 DEF Overdue, me
<1>32. CASE NudgeViewer(r)
  <2>1. pc' = pc /\ rig' = rig /\ lsn' = lsn /\ holder' = holder /\ Op(r) = "ended"
    BY <1>32 DEF NudgeViewer
  <2>2. rig' = [rig EXCEPT ![r] = me]
    BY <2>1 DEF me, Me, Placed
  <2> QED BY <1>0, <1>1, <1>6, <2>1, <2>2 DEF Moves, Departs, Mine
<1>33. CASE Guard(r)
  <2>1. Op(r) \in Guards /\ lsn' = lsn /\ holder' = holder
    BY <1>33 DEF Guard
  <2>2. Op(r) \notin {"lock", "release"}
    BY <2>1 DEF Guards
  <2>3. /\ [me EXCEPT !.fif = FALSE] \in MeType
        /\ [me EXCEPT !.fif = FALSE, !.warned = TRUE] \in MeType
        /\ [me EXCEPT !.seen = TRUE] \in MeType
        /\ [[me EXCEPT !.nud = TRUE] EXCEPT !.seen = ProbeOpen] \in MeType
    BY <1>1 DEF MeType, ProbeOpen
  <2>4. \/ \E m \in MeType : Advance(r, m)
        \/ pc' = pc /\ Mine(r)
    <3>1. \/ Advance(r, me) \/ Advance(r, [me EXCEPT !.fif = FALSE])
          \/ Advance(r, [me EXCEPT !.fif = FALSE, !.warned = TRUE])
          \/ pc' = pc /\ rig' = [rig EXCEPT ![r].nud = TRUE, ![r].seen = ProbeOpen]
          \/ pc' = pc /\ rig' = [rig EXCEPT ![r].seen = TRUE]
      BY <1>33 DEF Guard, me
    <3>2. rig' = [rig EXCEPT ![r].seen = TRUE] => rig' = [rig EXCEPT ![r] = [me EXCEPT !.seen = TRUE]]
      BY DEF me, Me
    <3>3. rig' = [rig EXCEPT ![r].nud = TRUE, ![r].seen = ProbeOpen]
            => rig' = [rig EXCEPT ![r] = [[me EXCEPT !.nud = TRUE] EXCEPT !.seen = ProbeOpen]]
      BY DEF me, Me, Placed
    <3> QED BY <1>1, <2>3, <3>1, <3>2, <3>3 DEF Mine
  <2> QED BY <1>0, <1>3, <1>6, <2>1, <2>2, <2>4 DEF Moves
<1>34. CASE Judge(r)
  <2>1. Op(r) \in Judges /\ lsn' = lsn
    BY <1>34 DEF Judge
  <2>2. Op(r) \notin {"lock", "release"}
    BY <2>1 DEF Judges
  <2>3. PICK m \in MeType :
            \/ Advance(r, m) /\ UNCHANGED holder
            \/ pc[r].part # "fin" /\ Lapse(r, m)
    <3>1. PICK m \in {me, [me EXCEPT !.fif = FALSE]} :
              \/ Advance(r, m) /\ UNCHANGED holder
              \/ pc[r].part # "fin" /\ Lapse(r, m)
              \/ Advance(r, [m EXCEPT !.rc = 1]) /\ UNCHANGED holder
      BY <1>34 DEF Judge, me
    <3>2. [me EXCEPT !.fif = FALSE] \in MeType
      BY <1>1 DEF MeType
    <3>3. m \in MeType
      BY <1>1, <3>2
    <3>4. [m EXCEPT !.rc = 1] \in MeType
      BY <3>3 DEF MeType
    <3> QED BY <3>1, <3>3, <3>4
  <2> QED BY <1>0, <1>3, <1>4, <1>6, <2>1, <2>2, <2>3
<1> QED BY <1>11, <1>12, <1>13, <1>14, <1>15, <1>21, <1>22, <1>23, <1>24, <1>25, <1>26, <1>27, <1>28,
           <1>29, <1>30, <1>31, <1>32, <1>33, <1>34 DEF RigStep, Work

-----------------------------------------------------------------------------
(* The device and the C64 *)

DevType == [uci : BOOLEAN, reu : BOOLEAN, turbo : BOOLEAN, files : BOOLEAN, lease : BOOLEAN]
Phases == {"basic", "boot", "ready", "dial", "tls", "recv", "viewer", "close", "asking"}
Sockets == {"CLOSED", "CONNECTED", "ERROR", "CONNECT_FAIL"}
Ends == {"none", "full", "cut", "refused", "nodial"}
Lines == {"menu", "get", "closed", "tlsfail", "connfail"}
Answered == {"no", "n", "y", "a"}
Evidence == {"no", "ok", "err"}
Statuses == {"none", "200", "poison"}
C64Type ==
    [ph : Phases, img : {"none", "good", "torn"}, prog : Rigs \cup {NoRig}, key : BOOLEAN,
     q : BOOLEAN, ans : Answered, sock : BOOLEAN, tcp : Sockets,
     ev : Evidence, scr : Seq(Lines), st : Statuses, out : Ends,
     sent : BOOLEAN, kept : BOOLEAN]
MachineType == dev \in DevType /\ c64 \in C64Type

LEMMA BlankType == Blank \in C64Type
BY DEF Blank, C64Type, Phases, Sockets, Ends, Answered, Evidence, Statuses

LEMMA ShownType ==
    ASSUME MachineType, NEW line \in Lines
    PROVE  Shown(line) \in Seq(Lines) /\ Append(c64.scr, line) \in Seq(Lines)
<1>1. c64.scr \in Seq(Lines)
    BY DEF MachineType, C64Type
<1>2. Append(c64.scr, line) \in Seq(Lines)
    BY <1>1
<1> QED BY <1>1, <1>2, Zenon DEF Shown

\* What the C64 does by itself leaves the rigs, the lock, the settings and its
\* own image alone.
LEMMA C64Runs ==
    ASSUME Placed, MachineType, C64Step
    PROVE  /\ UNCHANGED <<job, pc, rig, holder, untold>>
           /\ MachineType'
           /\ c64'.img = c64.img /\ c64'.prog = c64.prog /\ c64.ph # "basic"
           /\ dev'.uci = dev.uci /\ dev'.reu = dev.reu /\ dev'.turbo = dev.turbo
           /\ dev'.lease = dev.lease
           /\ \/ lsn' = lsn
              \/ /\ lsn' = [lsn EXCEPT ![c64.prog] = "served"]
                 /\ lsn[c64.prog] \in {"on", "rekeyed"}
<1>0. UNCHANGED <<job, pc, rig, holder, untold>> /\ c64.ph # "basic"
    BY DEF C64Step, C64Only, Boot, TakeKey, TakeQuit, DialFails, DialOk, TlsOk, TlsFails, RecvHead,
           RecvEnd, LeavesViewer, CloseSocket, TakeAnswer
<1>1. dev \in DevType /\ c64 \in C64Type
    BY DEF MachineType
<1>2. /\ c64.tcp \in Sockets /\ c64.ans \in Answered /\ c64.ev \in Evidence
      /\ c64.sock \in BOOLEAN /\ c64.kept \in BOOLEAN /\ c64.sent \in BOOLEAN /\ c64.scr \in Seq(Lines)
    BY <1>1 DEF C64Type
<1>3. /\ Shown("get") \in Seq(Lines) /\ Shown("closed") \in Seq(Lines)
      /\ Shown("tlsfail") \in Seq(Lines)
      /\ Shown("connfail") \in Seq(Lines) /\ Append(c64.scr, "menu") \in Seq(Lines)
    BY ShownType DEF Lines
<1> DEFINE Same(d) == d \in C64Type /\ d.img = c64.img /\ d.prog = c64.prog
<1>4. ASSUME NEW d, Same(d) PROVE Same(Ready(d))
  <2> DEFINE ph2 == "ready"
             sent2 == d.sent \/ Kind \in Routine
  <2>1. Ready(d) = [d EXCEPT !.ph = ph2, !.sent = sent2]
    BY DEF Ready
  <2>2. ph2 \in Phases /\ sent2 \in BOOLEAN
    BY DEF Phases
  <2> HIDE DEF ph2, sent2
  <2>3. [d EXCEPT !.ph = ph2, !.sent = sent2] \in C64Type
    BY <1>4, <2>2 DEF C64Type
  <2>4. /\ [d EXCEPT !.ph = ph2, !.sent = sent2].img = d.img
        /\ [d EXCEPT !.ph = ph2, !.sent = sent2].prog = d.prog
    BY <1>4 DEF C64Type
  <2> QED BY <1>4, <2>1, <2>3, <2>4
<1>11. CASE Boot
  <2> DEFINE ph2 == "ready"
             tcp2 == "CLOSED"
             ev2 == "no"
             st2 == "none"
             scr2 == Append(c64.scr, "menu")
  <2>1. c64' = [c64 EXCEPT !.ph = ph2, !.tcp = tcp2, !.ev = ev2, !.st = st2, !.scr = scr2]
              /\ lsn' = lsn /\ dev' = dev
    BY <1>11 DEF Boot
  <2>2. ph2 \in Phases /\ tcp2 \in Sockets /\ ev2 \in Evidence /\ st2 \in Statuses
        /\ scr2 \in Seq(Lines)
    BY <1>2, <1>3 DEF Phases, Sockets, Evidence, Statuses
  <2> HIDE DEF ph2, tcp2, ev2, st2, scr2
  <2>3. [c64 EXCEPT !.ph = ph2, !.tcp = tcp2, !.ev = ev2, !.st = st2, !.scr = scr2] \in C64Type
    BY <1>1, <2>2 DEF C64Type
  <2>4. /\ [c64 EXCEPT !.ph = ph2, !.tcp = tcp2, !.ev = ev2, !.st = st2, !.scr = scr2].img = c64.img
        /\ [c64 EXCEPT !.ph = ph2, !.tcp = tcp2, !.ev = ev2, !.st = st2, !.scr = scr2].prog = c64.prog
    BY <1>1 DEF C64Type
  <2>5. Same(c64')
    BY <2>1, <2>3, <2>4
  <2> QED BY <1>0, <1>1, <2>1, <2>5 DEF MachineType
<1>12. CASE TakeKey
  <2> DEFINE ph2 == "dial"
             key2 == FALSE
             sent2 == FALSE
             ans2 == IF c64.ans = "a" THEN "a" ELSE "no"
             scr2 == Shown("get")
             st2 == "none"
             out2 == "none"
             tcp2 == IF Kind \in Routine THEN "CLOSED" ELSE c64.tcp
             ev2 == IF c64.ev = "err" THEN "err" ELSE "no"
  <2>1. c64' = [c64 EXCEPT !.ph = ph2, !.key = key2, !.sent = sent2, !.ans = ans2, !.scr = scr2,
              !.st = st2, !.out = out2, !.tcp = tcp2, !.ev = ev2] /\ lsn' = lsn /\ dev' = dev
    BY <1>12 DEF TakeKey
  <2>2. ph2 \in Phases /\ key2 \in BOOLEAN /\ sent2 \in BOOLEAN /\ ans2 \in Answered
        /\ scr2 \in Seq(Lines) /\ st2 \in Statuses /\ out2 \in Ends /\ tcp2 \in Sockets
              /\ ev2 \in Evidence
    BY <1>2, <1>3 DEF Phases, Answered, Statuses, Ends, Sockets, Evidence
  <2> HIDE DEF ph2, key2, sent2, ans2, scr2, st2, out2, tcp2, ev2
  <2>3. [c64 EXCEPT !.ph = ph2, !.key = key2, !.sent = sent2, !.ans = ans2, !.scr = scr2,
              !.st = st2, !.out = out2, !.tcp = tcp2, !.ev = ev2] \in C64Type
    BY <1>1, <2>2 DEF C64Type
  <2>4. /\ [c64 EXCEPT !.ph = ph2, !.key = key2, !.sent = sent2, !.ans = ans2, !.scr = scr2,
              !.st = st2, !.out = out2, !.tcp = tcp2, !.ev = ev2].img = c64.img
        /\ [c64 EXCEPT !.ph = ph2, !.key = key2, !.sent = sent2, !.ans = ans2, !.scr = scr2,
                    !.st = st2, !.out = out2, !.tcp = tcp2, !.ev = ev2].prog = c64.prog
    BY <1>1 DEF C64Type
  <2>5. Same(c64')
    BY <2>1, <2>3, <2>4
  <2> QED BY <1>0, <1>1, <2>1, <2>5 DEF MachineType
<1>13. CASE TakeQuit
  <2> DEFINE ph2 == "basic"
             q2 == FALSE
  <2>1. c64' = [c64 EXCEPT !.ph = ph2, !.q = q2] /\ lsn' = lsn /\ dev' = dev
    BY <1>13 DEF TakeQuit
  <2>2. ph2 \in Phases /\ q2 \in BOOLEAN
    BY <1>2, <1>3 DEF Phases
  <2> HIDE DEF ph2, q2
  <2>3. [c64 EXCEPT !.ph = ph2, !.q = q2] \in C64Type
    BY <1>1, <2>2 DEF C64Type
  <2>4. /\ [c64 EXCEPT !.ph = ph2, !.q = q2].img = c64.img
        /\ [c64 EXCEPT !.ph = ph2, !.q = q2].prog = c64.prog
    BY <1>1 DEF C64Type
  <2>5. Same(c64')
    BY <2>1, <2>3, <2>4
  <2> QED BY <1>0, <1>1, <2>1, <2>5 DEF MachineType
<1>14. CASE DialFails
  <2>0. PICK t \in {"CONNECT_FAIL", c64.tcp}, how \in {"nodial", "refused"} :
          c64' = Ready([c64 EXCEPT !.tcp = t, !.out = how,
                          !.ans = IF @ = "a" THEN "no" ELSE @,
                          !.scr = Shown(IF how = "refused" THEN "tlsfail" ELSE "connfail")])
    BY <1>14 DEF DialFails
  <2> DEFINE tcp2 == t
             out2 == how
             ans2 == IF c64.ans = "a" THEN "no" ELSE c64.ans
             scr2 == Shown(IF how = "refused" THEN "tlsfail" ELSE "connfail")
             d == [c64 EXCEPT !.tcp = tcp2, !.out = out2, !.ans = ans2, !.scr = scr2]
  <2>1. c64' = Ready(d) /\ lsn' = lsn /\ dev' = dev
    BY <1>14, <2>0 DEF DialFails
  <2>2. tcp2 \in Sockets /\ out2 \in Ends /\ ans2 \in Answered /\ scr2 \in Seq(Lines)
    BY <1>2, <1>3 DEF Sockets, Ends, Answered
  <2> HIDE DEF tcp2, out2, ans2, scr2
  <2>3. [c64 EXCEPT !.tcp = tcp2, !.out = out2, !.ans = ans2, !.scr = scr2] \in C64Type
    BY <1>1, <2>2 DEF C64Type
  <2>4. /\ [c64 EXCEPT !.tcp = tcp2, !.out = out2, !.ans = ans2, !.scr = scr2].img = c64.img
        /\ [c64 EXCEPT !.tcp = tcp2, !.out = out2, !.ans = ans2, !.scr = scr2].prog = c64.prog
    BY <1>1 DEF C64Type
  <2>5. Same(d)
    BY <2>3, <2>4
  <2> HIDE DEF d
  <2>6. Same(c64')
    BY <1>4, <2>1, <2>5
  <2> QED BY <1>0, <1>1, <2>1, <2>6 DEF MachineType
<1>15. CASE DialOk
  <2> DEFINE sock2 == TRUE
             tcp2 == "CONNECTED"
             ph2 == IF InFirmware \/ Kind \in PlainTcp THEN "recv" ELSE "tls"
             ev2 == IF InFirmware THEN "ok" ELSE c64.ev
  <2>1. c64' = [c64 EXCEPT !.sock = sock2, !.tcp = tcp2, !.ph = ph2, !.ev = ev2] /\ dev' = dev
    BY <1>15 DEF DialOk
  <2>2. sock2 \in BOOLEAN /\ tcp2 \in Sockets /\ ph2 \in Phases /\ ev2 \in Evidence
    BY <1>2, <1>3 DEF Sockets, Phases, Evidence
  <2> HIDE DEF sock2, tcp2, ph2, ev2
  <2>3. [c64 EXCEPT !.sock = sock2, !.tcp = tcp2, !.ph = ph2, !.ev = ev2] \in C64Type
    BY <1>1, <2>2 DEF C64Type
  <2>4. /\ [c64 EXCEPT !.sock = sock2, !.tcp = tcp2, !.ph = ph2, !.ev = ev2].img = c64.img
        /\ [c64 EXCEPT !.sock = sock2, !.tcp = tcp2, !.ph = ph2, !.ev = ev2].prog = c64.prog
    BY <1>1 DEF C64Type
  <2>5. Same(c64')
    BY <2>1, <2>3, <2>4
  <2>6. \/ lsn' = lsn
        \/ /\ lsn' = [lsn EXCEPT ![c64.prog] = "served"]
           /\ lsn[c64.prog] \in {"on", "rekeyed"}
    <3>1. CASE ListensHere(Kind) /\ Kind \notin Changing
      BY <1>15, <3>1 DEF DialOk, Answers
    <3>2. CASE ~(ListensHere(Kind) /\ Kind \notin Changing)
      <4>1. lsn' = [lsn EXCEPT ![c64.prog] = lsn[c64.prog]]
        BY <1>15, <3>2 DEF DialOk
      <4> QED BY <4>1 DEF Placed
    <3> QED BY <3>1, <3>2
  <2> QED BY <1>0, <1>1, <2>1, <2>5, <2>6 DEF MachineType
<1>16. CASE TlsOk
  <2> DEFINE ph2 == "recv"
             ev2 == "ok"
  <2>1. c64' = [c64 EXCEPT !.ph = ph2, !.ev = ev2] /\ lsn' = lsn /\ dev' = dev
    BY <1>16 DEF TlsOk
  <2>2. ph2 \in Phases /\ ev2 \in Evidence
    BY <1>2, <1>3 DEF Phases, Evidence
  <2> HIDE DEF ph2, ev2
  <2>3. [c64 EXCEPT !.ph = ph2, !.ev = ev2] \in C64Type
    BY <1>1, <2>2 DEF C64Type
  <2>4. /\ [c64 EXCEPT !.ph = ph2, !.ev = ev2].img = c64.img
        /\ [c64 EXCEPT !.ph = ph2, !.ev = ev2].prog = c64.prog
    BY <1>1 DEF C64Type
  <2>5. Same(c64')
    BY <2>1, <2>3, <2>4
  <2> QED BY <1>0, <1>1, <2>1, <2>5 DEF MachineType
<1>17. CASE TlsFails
  <2>0. PICK t \in {"CONNECTED", "ERROR"} :
          c64' = [c64 EXCEPT !.ph = "close", !.ev = "err", !.out = "refused", !.tcp = t,
                             !.scr = Shown("tlsfail")]
    BY <1>17 DEF TlsFails
  <2> DEFINE ph2 == "close"
             ev2 == "err"
             out2 == "refused"
             tcp2 == t
             scr2 == Shown("tlsfail")
  <2>1. c64' = [c64 EXCEPT !.ph = ph2, !.ev = ev2, !.out = out2, !.tcp = tcp2, !.scr = scr2]
              /\ lsn' = lsn /\ dev' = dev
    BY <1>17, <2>0 DEF TlsFails
  <2>2. ph2 \in Phases /\ ev2 \in Evidence /\ out2 \in Ends /\ tcp2 \in Sockets /\ scr2 \in Seq(Lines)
    BY <1>2, <1>3 DEF Phases, Evidence, Ends, Sockets
  <2> HIDE DEF ph2, ev2, out2, tcp2, scr2
  <2>3. [c64 EXCEPT !.ph = ph2, !.ev = ev2, !.out = out2, !.tcp = tcp2, !.scr = scr2] \in C64Type
    BY <1>1, <2>2 DEF C64Type
  <2>4. /\ [c64 EXCEPT !.ph = ph2, !.ev = ev2, !.out = out2, !.tcp = tcp2, !.scr = scr2].img = c64.img
        /\ [c64 EXCEPT !.ph = ph2, !.ev = ev2, !.out = out2, !.tcp = tcp2, !.scr = scr2].prog = c64.prog
    BY <1>1 DEF C64Type
  <2>5. Same(c64')
    BY <2>1, <2>3, <2>4
  <2> QED BY <1>0, <1>1, <2>1, <2>5 DEF MachineType
<1>18. CASE RecvHead
  <2> DEFINE st2 == "200"
  <2>1. c64' = [c64 EXCEPT !.st = st2] /\ lsn' = lsn /\ dev' = dev
    BY <1>18 DEF RecvHead
  <2>2. st2 \in Statuses
    BY <1>2, <1>3 DEF Statuses
  <2> HIDE DEF st2
  <2>3. [c64 EXCEPT !.st = st2] \in C64Type
    BY <1>1, <2>2 DEF C64Type
  <2>4. /\ [c64 EXCEPT !.st = st2].img = c64.img
        /\ [c64 EXCEPT !.st = st2].prog = c64.prog
    BY <1>1 DEF C64Type
  <2>5. Same(c64')
    BY <2>1, <2>3, <2>4
  <2> QED BY <1>0, <1>1, <2>1, <2>5 DEF MachineType
<1>19. CASE RecvEnd
  <2>0. PICK how \in Through, t \in {"CONNECTED", "CLOSED", "ERROR"}, ph \in AfterBody :
          c64' = [c64 EXCEPT !.out = how, !.tcp = t, !.sock = @ /\ t # "CLOSED", !.ph = ph]
    BY <1>19 DEF RecvEnd
  <2> DEFINE out2 == how
             tcp2 == t
             sock2 == c64.sock /\ t # "CLOSED"
             ph2 == ph
  <2>1. c64' = [c64 EXCEPT !.out = out2, !.tcp = tcp2, !.sock = sock2, !.ph = ph2] /\ lsn' = lsn
              /\ dev' = dev
    BY <1>19, <2>0 DEF RecvEnd
  <2>2. out2 \in Ends /\ tcp2 \in Sockets /\ sock2 \in BOOLEAN /\ ph2 \in Phases
    BY <1>2, <1>3 DEF Ends, Sockets, Phases, Through, AfterBody
  <2> HIDE DEF out2, tcp2, sock2, ph2
  <2>3. [c64 EXCEPT !.out = out2, !.tcp = tcp2, !.sock = sock2, !.ph = ph2] \in C64Type
    BY <1>1, <2>2 DEF C64Type
  <2>4. /\ [c64 EXCEPT !.out = out2, !.tcp = tcp2, !.sock = sock2, !.ph = ph2].img = c64.img
        /\ [c64 EXCEPT !.out = out2, !.tcp = tcp2, !.sock = sock2, !.ph = ph2].prog = c64.prog
    BY <1>1 DEF C64Type
  <2>5. Same(c64')
    BY <2>1, <2>3, <2>4
  <2> QED BY <1>0, <1>1, <2>1, <2>5 DEF MachineType
<1>20. CASE LeavesViewer
  <2> DEFINE ph2 == "close"
             q2 == FALSE
  <2>1. c64' = [c64 EXCEPT !.ph = ph2, !.q = q2] /\ lsn' = lsn /\ dev' = dev
    BY <1>20 DEF LeavesViewer
  <2>2. ph2 \in Phases /\ q2 \in BOOLEAN
    BY <1>2, <1>3 DEF Phases
  <2> HIDE DEF ph2, q2
  <2>3. [c64 EXCEPT !.ph = ph2, !.q = q2] \in C64Type
    BY <1>1, <2>2 DEF C64Type
  <2>4. /\ [c64 EXCEPT !.ph = ph2, !.q = q2].img = c64.img
        /\ [c64 EXCEPT !.ph = ph2, !.q = q2].prog = c64.prog
    BY <1>1 DEF C64Type
  <2>5. Same(c64')
    BY <2>1, <2>3, <2>4
  <2> QED BY <1>0, <1>1, <2>1, <2>5 DEF MachineType
<1>21. CASE CloseSocket
  <2> DEFINE records == Kind \in Trusting /\ c64.out # "refused" /\ c64.ans # "y" /\ dev.uci
             sock2 == c64.sock /\ ~dev.uci
             tcp2 == "CLOSED"
             ans2 == IF c64.ans = "a" THEN "no" ELSE c64.ans
             kept2 == c64.kept \/ (records /\ Kind \in Changing)
             scr2 == IF c64.out = "refused" THEN c64.scr ELSE Shown("closed")
             d == [c64 EXCEPT !.sock = sock2, !.tcp = tcp2, !.ans = ans2, !.kept = kept2, !.scr = scr2]
  <2>1. (c64' = Ready(d) \/ c64' = [d EXCEPT !.ph = "asking"]) /\ lsn' = lsn
    BY <1>21 DEF CloseSocket
  <2>2. sock2 \in BOOLEAN /\ tcp2 \in Sockets /\ ans2 \in Answered /\ kept2 \in BOOLEAN
        /\ scr2 \in Seq(Lines)
    BY <1>2, <1>3 DEF Sockets, Answered
  <2> HIDE DEF sock2, tcp2, ans2, kept2, scr2
  <2>3. [c64 EXCEPT !.sock = sock2, !.tcp = tcp2, !.ans = ans2, !.kept = kept2,
              !.scr = scr2] \in C64Type
    BY <1>1, <2>2 DEF C64Type
  <2>4. /\ [c64 EXCEPT !.sock = sock2, !.tcp = tcp2, !.ans = ans2, !.kept = kept2,
              !.scr = scr2].img = c64.img
        /\ [c64 EXCEPT !.sock = sock2, !.tcp = tcp2, !.ans = ans2, !.kept = kept2,
                    !.scr = scr2].prog = c64.prog
    BY <1>1 DEF C64Type
  <2>5. Same(d)
    BY <2>3, <2>4
  <2>6. dev' = [dev EXCEPT !.files = @ \/ records]
    BY <1>21 DEF CloseSocket
  <2>7. /\ dev' \in DevType /\ dev'.uci = dev.uci /\ dev'.reu = dev.reu /\ dev'.turbo = dev.turbo
        /\ dev'.lease = dev.lease
    BY <1>1, <2>6 DEF DevType
  <2> HIDE DEF d
  <2>8. Same([d EXCEPT !.ph = "asking"])
    <3> DEFINE ph2 == "asking"
    <3>1. ph2 \in Phases
      BY DEF Phases
    <3> HIDE DEF ph2
    <3>2. [d EXCEPT !.ph = ph2] \in C64Type
      BY <2>5, <3>1 DEF C64Type
    <3>3. [d EXCEPT !.ph = ph2].img = d.img /\ [d EXCEPT !.ph = ph2].prog = d.prog
      BY <2>5 DEF C64Type
    <3> QED BY <2>5, <3>2, <3>3 DEF ph2
  <2>9. Same(c64')
    BY <1>4, <2>1, <2>5, <2>8
  <2> QED BY <1>0, <2>1, <2>7, <2>9 DEF MachineType
<1>22. CASE TakeAnswer
  <2> DEFINE ph2 == "dial"
             scr2 == Shown("get")
             out2 == "none"
             d == [c64 EXCEPT !.ph = ph2, !.scr = scr2, !.out = out2]
  <2>1. (c64' = d \/ c64' = Ready(c64)) /\ lsn' = lsn /\ dev' = dev
    BY <1>22 DEF TakeAnswer
  <2>2. ph2 \in Phases /\ scr2 \in Seq(Lines) /\ out2 \in Ends
    BY <1>2, <1>3 DEF Phases, Ends
  <2> HIDE DEF ph2, scr2, out2
  <2>3. [c64 EXCEPT !.ph = ph2, !.scr = scr2, !.out = out2] \in C64Type
    BY <1>1, <2>2 DEF C64Type
  <2>4. /\ [c64 EXCEPT !.ph = ph2, !.scr = scr2, !.out = out2].img = c64.img
        /\ [c64 EXCEPT !.ph = ph2, !.scr = scr2, !.out = out2].prog = c64.prog
    BY <1>1 DEF C64Type
  <2>5. Same(d) /\ Same(c64)
    BY <1>1, <2>3, <2>4
  <2> HIDE DEF d
  <2>6. Same(c64')
    BY <1>4, <2>1, <2>5
  <2> QED BY <1>0, <1>1, <2>1, <2>6 DEF MachineType
<1> QED BY <1>11, <1>12, <1>13, <1>14, <1>15, <1>16, <1>17, <1>18, <1>19, <1>20, <1>21, <1>22 DEF C64Step

LEMMA OnwardMoves ==
    ASSUME Placed, NEW r \in Rigs, pc[r].part # "end", Onward(r)
    PROVE  pc'[r] # pc[r]
<1>0. pc[r] \in Place /\ pc \in [Rigs -> Place]
    BY DEF Placed
<1>1. pc'[r] = Succ(r)
    BY <1>0 DEF Onward
<1>2. CASE pc[r].i < Len(Part(r))
  <2>1. Succ(r).i = pc[r].i + 1 /\ pc[r].i \in Nat
    BY <1>0, <1>2 DEF Succ, Place
  <2>2. Succ(r).i # pc[r].i
    BY <2>1
  <2> QED BY <1>1, <2>2
<1>3. CASE ~(pc[r].i < Len(Part(r)))
  <2>1. Succ(r).part # pc[r].part
    BY <1>3 DEF Succ
  <2> QED BY <1>1, <2>1
<1> QED BY <1>2, <1>3

LEMMA DepartsMoves ==
    ASSUME Placed, NEW r \in Rigs, pc[r].part # "end", Departs(r)
    PROVE  pc'[r] # pc[r]
<1>1. ASSUME NEW p, Goes(r, p), pc[r].part # p
      PROVE  pc'[r] # pc[r]
  <2>1. pc'[r].part = p
    BY <1>1 DEF Goes, Placed
  <2> QED BY <1>1, <2>1
<1>2. CASE ~Onward(r)
  <2>1. (Goes(r, "fin") /\ Trying(r)) \/ (Goes(r, "late") /\ pc[r].part = "body") \/ Goes(r, "end")
    BY <1>2 DEF Departs
  <2>2. Trying(r) => pc[r].part # "fin"
    BY DEF Trying
  <2> QED BY <1>1, <2>1, <2>2
<1> QED BY <1>2, OnwardMoves

\* Op(r) is neither a check nor a judgement: r has the lock.
LEMMA DeviceOp ==
    ASSUME Placed, NEW r \in Rigs, pc[r].part # "end", Op(r) \notin Checks \cup Judges \cup {"lock"}
    PROVE  HasLock(r)
<1>1. /\ pc[r].part = "pre" => Op(r) \in Checks \cup {"lock"}
      /\ pc[r].part = "fin" /\ ~HasLock(r) => Op(r) \in Judges
      /\ pc[r].part \in Parts
    BY OpPlace, PlaceOf
<1> QED BY <1>1 DEF HasLock, Parts

\* The settings of the device and the image and owner of the C64's program.
Settings == <<dev.uci, dev.reu, dev.turbo, c64.img, c64.prog>>

LEMMA RigDevice ==
    ASSUME Placed, MachineType, NEW r \in Rigs, RigStep(r)
    PROVE  /\ MachineType'
           /\ \/ UNCHANGED Settings
              \/ HasLock(r) /\ <<rig[r], pc[r]>> # <<rig'[r], pc'[r]>>
<1>0. /\ pc[r].part # "end" /\ Moves(r) /\ dev \in DevType /\ c64 \in C64Type /\ rig[r] \in MeType
      /\ Me(r) \in MeType
    BY RigMoves DEF MachineType, Placed, Me
<1>1. ASSUME NEW m \in MeType, Advance(r, m), Op(r) \notin Checks \cup Judges \cup {"lock"}
      PROVE  HasLock(r) /\ <<rig[r], pc[r]>> # <<rig'[r], pc'[r]>>
  <2>1. Onward(r)
    BY <1>0, <1>1, Advances
  <2>2. pc'[r] # pc[r]
    BY <1>0, <2>1, OnwardMoves
  <2> QED BY <1>0, <1>1, <2>2, DeviceOp
<1>2. ASSUME Lapse(r, Me(r)), Op(r) \notin Checks \cup Judges \cup Tidying \cup {"lock", "release"}
      PROVE  HasLock(r) /\ <<rig[r], pc[r]>> # <<rig'[r], pc'[r]>>
  <2>1. HasLock(r)
    BY <1>0, <1>2, DeviceOp
  <2>2. pc[r].part \in {"pre", "body", "late"}
    BY <1>0, <1>2, OpPlace, PlaceOf DEF Parts
  <2>3. Departs(r)
    BY <1>0, <1>2, <2>2, Lapses
  <2>4. pc'[r] # pc[r]
    BY <1>0, <2>3, DepartsMoves
  <2> QED BY <2>1, <2>4
<1>3. CASE UNCHANGED <<dev, c64>>
    BY <1>3 DEF MachineType, Settings
<1>4. CASE \/ Check(r) \/ Escape(r) \/ Acquire(r) \/ AcquireTimesOut(r) \/ BadLockTimeout(r)
           \/ Release(r)
           \/ Listen(r) \/ Persist(r) \/ Kill(r) \/ PreflightReu(r) \/ PreflightRefuses(r)
           \/ StoreUnavailable(r) \/ RestoreDrive(r) \/ Wait(r) \/ Landed(r) \/ LeaveViewer(r)
           \/ Judge(r)
    BY <1>3, <1>4 DEF Check, Escape, Acquire, AcquireTimesOut, BadLockTimeout, Release, Listen, Persist,
                 Kill, PreflightReu, PreflightRefuses, StoreUnavailable, RestoreDrive, Wait, Landed,
                 LeaveViewer, Judge
\* Settings and files.
<1>5. CASE EnableUci(r) \/ DisableUci(r) \/ PrepareDevice(r) \/ SetTurbo(r)
  <2>1. c64' = c64 /\ Op(r) \notin Checks \cup Judges \cup {"lock"}
    BY <1>5 DEF EnableUci, DisableUci, PrepareDevice, SetTurbo, Checks, Judges
  <2>2. Advance(r, Me(r)) \/ Advance(r, [Me(r) EXCEPT !.uci = TRUE])
    BY <1>5 DEF EnableUci, DisableUci, PrepareDevice, SetTurbo
  <2>3. [Me(r) EXCEPT !.uci = TRUE] \in MeType
    BY <1>0 DEF MeType
  <2>4. \E a, b, c \in BOOLEAN : dev' = [dev EXCEPT !.uci = a, !.reu = b, !.turbo = c]
    <3>1. /\ dev = [dev EXCEPT !.uci = dev.uci, !.reu = dev.reu, !.turbo = dev.turbo]
          /\ \A a \in BOOLEAN : [dev EXCEPT !.uci = a]
                                  = [dev EXCEPT !.uci = a, !.reu = dev.reu, !.turbo = dev.turbo]
          /\ \A a \in BOOLEAN : [dev EXCEPT !.turbo = a]
                                  = [dev EXCEPT !.uci = dev.uci, !.reu = dev.reu, !.turbo = a]
          /\ \A a \in BOOLEAN : [dev EXCEPT !.reu = a, !.turbo = TRUE]
                                  = [dev EXCEPT !.uci = dev.uci, !.reu = a, !.turbo = TRUE]
      BY <1>0 DEF DevType
    <3> QED BY <1>0, <1>5, <3>1, ZenonT(40) DEF EnableUci, DisableUci, PrepareDevice, SetTurbo, WantsReu, DevType
  <2>5. dev' \in DevType
    BY <1>0, <2>4 DEF DevType
  <2> QED BY <1>0, <1>1, <2>1, <2>2, <2>3, <2>5 DEF MachineType
<1>6. CASE PrepRefused(r)
  <2>1. c64' = c64 /\ Op(r) = "prep" /\ Lapse(r, Me(r))
        /\ dev' \in {dev, [dev EXCEPT !.reu = WantsReu(job[r])]}
    BY <1>6 DEF PrepRefused
  <2>2. dev' \in DevType
    BY <1>0, <2>1 DEF DevType, WantsReu
  <2>3. Op(r) \notin Checks \cup Judges \cup Tidying \cup {"lock", "release"}
    BY <2>1 DEF Checks, Judges, Tidying, Guards
  <2> QED BY <1>0, <1>2, <2>1, <2>2, <2>3 DEF MachineType
<1>7. CASE TrustFiles(r) \/ WriteFiles(r) \/ CleanUp(r)
  <2>1. c64' = c64 /\ \E a \in BOOLEAN : dev' = dev \/ dev' = [dev EXCEPT !.files = a]
    BY <1>7 DEF TrustFiles, WriteFiles, CleanUp
  <2>2. dev' \in DevType /\ dev'.uci = dev.uci /\ dev'.reu = dev.reu /\ dev'.turbo = dev.turbo
    BY <1>0, <2>1 DEF DevType
  <2> QED BY <1>0, <2>1, <2>2 DEF MachineType, Settings
\* The C64.
<1>8. CASE ResetC64(r) \/ CloseOrphan(r)
  <2>1. Advance(r, Me(r)) /\ Op(r) \notin Checks \cup Judges \cup {"lock"}
    BY <1>8 DEF ResetC64, CloseOrphan, Checks, Judges
  <2>2. ResetEffect \/ UNCHANGED <<dev, c64>>
    BY <1>8 DEF ResetC64, CloseOrphan
  <2>3. MachineType'
    <3>1. CASE ResetEffect
      <4>1. c64' = Blank /\ dev' = [dev EXCEPT !.lease = @ /\ ~c64.sock]
        BY <3>1 DEF ResetEffect
      <4>2. dev' \in DevType
        BY <1>0, <4>1 DEF DevType
      <4> QED BY <4>1, <4>2, BlankType DEF MachineType
    <3> QED BY <2>2, <3>1 DEF MachineType
  <2> QED BY <1>0, <1>1, <2>1, <2>3
<1>9. CASE LoadPrg(r)
  <2>1. PICK img2 \in {"good", "torn"} : c64' = [c64 EXCEPT !.img = img2]
    BY <1>9 DEF LoadPrg
  <2>2. dev' = dev /\ Op(r) = "load" /\ rig' = [rig EXCEPT ![r].tries = @ + 1]
    BY <1>9 DEF LoadPrg
  <2>3. c64' \in C64Type
    BY <1>0, <2>1 DEF C64Type
  <2>4. HasLock(r)
    BY <1>0, <2>2, DeviceOp DEF Checks, Judges
  <2>5. rig'[r].tries = rig[r].tries + 1 /\ rig[r].tries \in Nat
    BY <1>0, <2>2 DEF MeType, Placed
  <2>6. rig'[r] # rig[r]
    <3>1. rig'[r].tries # rig[r].tries
      BY <2>5
    <3> QED BY <3>1
  <2> QED BY <1>0, <2>2, <2>3, <2>4, <2>6 DEF MachineType
<1>10. CASE VerifyAndRun(r) \/ LoadAndRun(r)
  <2>1. dev' = dev /\ Op(r) \in {"load", "load_run"}
    BY <1>10 DEF VerifyAndRun, LoadAndRun
  <2>2. Op(r) \notin Checks \cup Judges \cup Tidying \cup {"lock", "release"}
    BY <2>1 DEF Checks, Judges, Tidying, Guards
  <2>3. \/ c64' = c64 /\ Lapse(r, Me(r))
        \/ /\ \/ c64' = [c64 EXCEPT !.ph = "boot", !.prog = r]
              \/ c64' = [c64 EXCEPT !.ph = "boot", !.prog = r, !.img = "good"]
           /\ Advance(r, Me(r)) \/ Advance(r, [Me(r) EXCEPT !.tries = 0])
    BY <1>10 DEF VerifyAndRun, LoadAndRun
  <2>4. [Me(r) EXCEPT !.tries = 0] \in MeType
    BY <1>0 DEF MeType
  <2>5. c64' \in C64Type
    <3> DEFINE ph2 == "boot"
               img2 == "good"
    <3>1. ph2 \in Phases /\ img2 \in {"none", "good", "torn"} /\ r \in Rigs \cup {NoRig}
      BY DEF Phases
    <3>2. \/ c64' = c64 \/ c64' = [c64 EXCEPT !.ph = ph2, !.prog = r]
          \/ c64' = [c64 EXCEPT !.ph = ph2, !.prog = r, !.img = img2]
      BY <2>3
    <3> HIDE DEF ph2, img2
    <3>3. [c64 EXCEPT !.ph = ph2, !.prog = r] \in C64Type
      BY <1>0, <3>1 DEF C64Type
    <3>4. [c64 EXCEPT !.ph = ph2, !.prog = r, !.img = img2] \in C64Type
      BY <1>0, <3>1 DEF C64Type
    <3> QED BY <1>0, <3>2, <3>3, <3>4
  <2> QED BY <1>0, <1>1, <1>2, <2>1, <2>2, <2>3, <2>4, <2>5 DEF MachineType
<1>11. CASE Press(r) \/ Overdue(r) \/ NudgeViewer(r) \/ Guard(r)
  <2>1. dev' = dev
    BY <1>11 DEF Press, Overdue, NudgeViewer, Guard
  <2>2. \/ c64' = c64 \/ c64' = [c64 EXCEPT !.key = TRUE, !.sent = FALSE]
        \/ c64' = [c64 EXCEPT !.key = TRUE]
        \/ c64' = [c64 EXCEPT !.q = TRUE] \/ \E a \in {"y", "a", "n"} : c64' = [c64 EXCEPT !.ans = a]
        \/ c64' = [c64 EXCEPT !.st = "poison"] \/ c64' = [c64 EXCEPT !.scr = <<>>]
    BY <1>11 DEF Press, Overdue, NudgeViewer, Guard
  <2>3. c64'.img = c64.img /\ c64'.prog = c64.prog
    BY <1>0, <2>2 DEF C64Type
  <2>4. c64' \in C64Type
    <3>1. ASSUME NEW a \in Answered, NEW b \in BOOLEAN, NEW e \in BOOLEAN,
                 NEW t \in Statuses, NEW s \in Seq(Lines)
          PROVE  /\ [c64 EXCEPT !.key = b, !.sent = e] \in C64Type /\ [c64 EXCEPT !.key = b] \in C64Type
                 /\ [c64 EXCEPT !.q = b] \in C64Type /\ [c64 EXCEPT !.ans = a] \in C64Type
                 /\ [c64 EXCEPT !.st = t] \in C64Type /\ [c64 EXCEPT !.scr = s] \in C64Type
      BY <1>0 DEF C64Type
    <3>2. "poison" \in Statuses /\ {"y", "a", "n"} \subseteq Answered /\ <<>> \in Seq(Lines)
      BY DEF Statuses, Answered
    <3>3. CASE c64' = c64
      BY <1>0, <3>3
    <3>4. CASE c64' = [c64 EXCEPT !.key = TRUE, !.sent = FALSE]
      BY <3>1, <3>2, <3>4, Zenon
    <3>5. CASE c64' = [c64 EXCEPT !.key = TRUE] \/ c64' = [c64 EXCEPT !.q = TRUE]
      BY <3>1, <3>2, <3>5, Zenon
    <3>6. CASE \E a \in {"y", "a", "n"} : c64' = [c64 EXCEPT !.ans = a]
      BY <3>1, <3>2, <3>6, ZenonT(40)
    <3>7. CASE c64' = [c64 EXCEPT !.st = "poison"]
      BY <3>1, <3>2, <3>7, Zenon
    <3>8. CASE c64' = [c64 EXCEPT !.scr = <<>>]
      BY <3>1, <3>2, <3>8, Zenon
    <3> QED BY <2>2, <3>3, <3>4, <3>5, <3>6, <3>7, <3>8
  <2> QED BY <1>0, <2>1, <2>3, <2>4 DEF MachineType, Settings
<1> QED BY <1>4, <1>5, <1>6, <1>7, <1>8, <1>9, <1>10, <1>11 DEF RigStep, Work

-----------------------------------------------------------------------------
(* One rig at a time between the lock and its release *)

Section == holder \in Rigs \cup {NoRig} /\ \A r \in Rigs : HasLock(r) <=> holder = r
\* A listener lives in its rig's try statement and finally clause.
Quiet == \A r \in Rigs : lsn[r] # "off" => HasLock(r) /\ pc[r].part # "pre"
SectionInv == Placed /\ MachineType /\ Section /\ Quiet

LEMMA SuccPlace ==
    ASSUME Placed, NEW r \in Rigs, pc[r].part # "end"
    PROVE  /\ Succ(r) \in Place
           /\ Succ(r).part # "end" => Succ(r).i <= Len(Script[job[r]][Succ(r).part])
<1>1. /\ job[r] \in Kinds /\ pc[r].part \in Parts /\ pc[r].i \in Nat \ {0}
      /\ Part(r) = Script[job[r]][pc[r].part] /\ Len(Part(r)) \in Nat
    BY PlaceOf
<1>2. CASE pc[r].i < Len(Part(r))
  <2>1. Succ(r) = [part |-> pc[r].part, i |-> pc[r].i + 1]
    BY <1>2 DEF Succ
  <2>2. pc[r].i + 1 \in Nat \ {0} /\ pc[r].i + 1 <= Len(Part(r))
    BY <1>1, <1>2
  <2> QED BY <1>1, <2>1, <2>2 DEF Place
<1>3. CASE ~(pc[r].i < Len(Part(r)))
  <2>1. PICK p \in {"body", "fin", "end"} : Succ(r) = [part |-> p, i |-> 1]
    BY <1>3 DEF Succ
  <2>2. p # "end" => Len(Script[job[r]][p]) \in Nat /\ Len(Script[job[r]][p]) > 0
    <3>1. p # "end" => Script[job[r]][p] \in Seq(STRING \X Int) /\ Len(Script[job[r]][p]) > 0
      BY <1>1, <2>1, ScriptShape DEF Parts
    <3> QED BY <3>1
  <2> QED BY <2>1, <2>2 DEF Place, Parts
<1> QED BY <1>2, <1>3

LEMMA StepPlaced ==
    ASSUME Placed, NEW r \in Rigs, RigStep(r)
    PROVE  Placed' /\ \A q \in Rigs \ {r} : pc'[q] = pc[q] /\ rig'[q] = rig[q] /\ lsn'[q] = lsn[q]
<1>0. pc[r].part # "end" /\ job' = job /\ Moves(r) /\ Mine(r) /\ Listens(r)
    BY RigMoves
<1>1. job \in [Rigs -> Kinds] /\ pc \in [Rigs -> Place] /\ rig \in [Rigs -> MeType]
      /\ lsn \in [Rigs -> LsnStates]
    BY DEF Placed
<1>2. rig' \in [Rigs -> MeType] /\ \A q \in Rigs \ {r} : rig'[q] = rig[q]
    BY <1>0, <1>1 DEF Mine
<1>3. lsn' \in [Rigs -> LsnStates] /\ \A q \in Rigs \ {r} : lsn'[q] = lsn[q]
    BY <1>0, <1>1 DEF Listens, LsnStates
<1>4. PICK x \in Place : /\ pc' = [pc EXCEPT ![r] = x]
                         /\ x.part # "end" => x.i <= Len(Script[job[r]][x.part])
  <2>0. /\ job[r] \in Kinds /\ pc[r].part \in Parts /\ pc[r].i \in Nat \ {0} /\ pc[r].i <= Len(Part(r))
        /\ Part(r) = Script[job[r]][pc[r].part]
    BY <1>0, PlaceOf DEF Placed
  <2>1. CASE pc' = pc
    <3>1. pc' = [pc EXCEPT ![r] = pc[r]] /\ pc[r] \in Place
      BY <1>1, <2>1
    <3> QED BY <2>0, <3>1
  <2>2. CASE Onward(r)
    BY <1>0, <2>2, SuccPlace DEF Onward
  <2>3. CASE Goes(r, "fin") \/ Goes(r, "end")
    <3>1. PICK p \in {"fin", "end"} : pc' = [pc EXCEPT ![r] = [part |-> p, i |-> 1]]
      BY <2>3 DEF Goes
    <3>2. Script[job[r]]["fin"] \in Seq(STRING \X Int) /\ Len(Script[job[r]]["fin"]) > 0
      BY <2>0, ScriptShape DEF Parts
    <3>3. 1 <= Len(Script[job[r]]["fin"])
      BY <3>2
    <3>4. [part |-> p, i |-> 1] \in Place
      BY <3>1 DEF Place, Parts
    <3> QED BY <3>1, <3>3, <3>4
  <2>4. CASE Goes(r, "late") /\ Script[job[r]].late # <<>>
    <3>1. Script[job[r]]["late"] \in Seq(STRING \X Int)
      BY <2>0, ScriptShape DEF Parts
    <3>2. 1 <= Len(Script[job[r]]["late"])
      BY <2>4, <3>1
    <3>3. [part |-> "late", i |-> 1] \in Place
      BY DEF Place, Parts
    <3> QED BY <2>4, <3>2, <3>3 DEF Goes
  <2> QED BY <1>0, <2>1, <2>2, <2>3, <2>4 DEF Moves, Departs
<1>5. pc' \in [Rigs -> Place] /\ pc'[r] = x /\ \A q \in Rigs \ {r} : pc'[q] = pc[q]
    BY <1>1, <1>4
<1>6. \A q \in Rigs : pc'[q].part # "end" => pc'[q].i <= Len(Script[job'[q]][pc'[q].part])
  <2> TAKE q \in Rigs
  <2>1. CASE q = r
    BY <1>0, <1>4, <1>5, <2>1
  <2>2. CASE q # r
    BY <1>0, <1>5, <2>2 DEF Placed, Part
  <2> QED BY <2>1, <2>2
<1> QED BY <1>0, <1>1, <1>2, <1>3, <1>5, <1>6 DEF Placed, Part


\* Going on, r keeps what it has, except at the lock and at the release.
LEMMA OnwardLock ==
    ASSUME Placed, NEW r \in Rigs, pc[r].part # "end", job' = job, Onward(r)
    PROVE  /\ Op(r) = "lock" => HasLock(r)' /\ ~HasLock(r)
           /\ Op(r) = "release" => ~HasLock(r)' /\ HasLock(r)
           /\ Op(r) \notin {"lock", "release"} => (HasLock(r)' <=> HasLock(r))
<1> DEFINE s == Script[job[r]]
           n == pc[r].i
<1>1. /\ job[r] \in Kinds /\ pc[r].part \in Parts /\ n \in Nat \ {0}
      /\ Part(r) = s[pc[r].part] /\ Len(Part(r)) \in Nat /\ n \in 1 .. Len(Part(r))
    BY PlaceOf
<1>2. /\ Op(r) = s[pc[r].part][n][1]
      /\ pc[r].part = "pre" => Op(r) \in Checks \cup {"lock"}
      /\ pc[r].part \in {"body", "late"} => Op(r) \notin {"lock", "release"}
      /\ pc[r].part = "fin" => Op(r) \in Tidying \cup Judges
      /\ pc[r].part = "fin" /\ ~HasLock(r) => Op(r) \in Judges
    BY OpPlace
<1>3. pc'[r] = Succ(r) /\ job'[r] = job[r]
    BY DEF Onward, Placed
<1>4. CASE pc[r].part = "pre"
  <2>1. /\ \A i, j \in 1 .. Len(s["pre"]) : s["pre"][i][1] = "lock" /\ s["pre"][j][1] = "lock" => i = j
        /\ \E i \in 1 .. Len(s["pre"]) : s["pre"][i][1] = "lock"
    <3>1. \A i, j \in 1 .. Len(s["pre"]) : s["pre"][i][1] = "lock" /\ s["pre"][j][1] = "lock" => i = j
      BY <1>1, ScriptShape
    <3>2. "lock" \in Steps(job[r], "pre")
      BY <1>1, ScriptShape
    <3>3. \E i \in 1 .. Len(s["pre"]) : s["pre"][i][1] = "lock"
      BY <3>2 DEF Steps
    <3> QED BY <3>1, <3>3
  <2>2. HasLock(r) <=> \E i \in 1 .. n - 1 : s["pre"][i][1] = "lock"
    BY <1>4 DEF HasLock
  <2>3. Op(r) # "release"
    BY <1>2, <1>4 DEF Checks
  <2>4. Op(r) = "lock" => ~HasLock(r)
    BY <1>1, <1>2, <1>4, <2>1, <2>2, SMTT(30)
  <2>5. HasLock(r)' <=> (Op(r) = "lock" \/ HasLock(r))
    <3>1. CASE n < Len(Part(r))
      <4>1. pc'[r] = [part |-> "pre", i |-> n + 1]
        BY <1>3, <1>4, <3>1 DEF Succ
      <4>2. HasLock(r)' <=> \E i \in 1 .. n : s["pre"][i][1] = "lock"
        BY <1>1, <1>3, <4>1 DEF HasLock
      <4> QED BY <1>1, <1>2, <1>4, <2>2, <4>2
    <3>2. CASE ~(n < Len(Part(r)))
      <4>1. pc'[r].part = "body"
        BY <1>3, <1>4, <3>2 DEF Succ
      <4>2. HasLock(r)'
        BY <4>1, SMTT(30) DEF HasLock
      <4> QED BY <1>1, <1>2, <1>4, <2>1, <2>2, <3>2, <4>2, SMTT(30)
    <3> QED BY <3>1, <3>2
  <2> QED BY <2>3, <2>4, <2>5
<1>5. CASE pc[r].part \in {"body", "late"}
  <2>1. HasLock(r)
    BY <1>5 DEF HasLock
  <2>2. pc'[r].part \in {"body", "late"} \/ (pc'[r].part = "fin" /\ pc'[r].i = 1)
    BY <1>3, <1>5 DEF Succ
  <2>3. HasLock(r)'
    BY <2>2 DEF HasLock
  <2> QED BY <1>2, <1>5, <2>1, <2>3
<1>6. CASE pc[r].part = "fin"
  <2>1. \E i \in 1 .. Len(s["fin"]) : s["fin"][i][1] = "release"
    <3>1. "release" \in Steps(job[r], "fin")
      BY <1>1, ScriptShape
    <3> QED BY <3>1 DEF Steps
  <2>2. HasLock(r) <=> \A i \in 1 .. n - 1 : s["fin"][i][1] # "release"
    BY <1>6, SMTT(30) DEF HasLock
  <2>3. Op(r) # "lock" /\ (Op(r) = "release" => HasLock(r))
    BY <1>2, <1>6 DEF Tidying, Guards, Judges
  <2>4. HasLock(r)' <=> (HasLock(r) /\ Op(r) # "release")
    <3>1. CASE n < Len(Part(r))
      <4>1. pc'[r] = [part |-> "fin", i |-> n + 1]
        BY <1>3, <1>6, <3>1 DEF Succ
      <4>2. HasLock(r)' <=> \A i \in 1 .. n : s["fin"][i][1] # "release"
        BY <1>1, <1>3, <4>1 DEF HasLock
      <4> QED BY <1>1, <1>2, <1>6, <2>2, <4>2, SMTT(30)
    <3>2. CASE ~(n < Len(Part(r)))
      <4>1. pc'[r].part = "end"
        BY <1>3, <1>6, <3>2 DEF Succ
      <4>2. ~HasLock(r)'
        BY <4>1 DEF HasLock
      <4> QED BY <1>1, <1>2, <1>6, <2>1, <2>2, <3>2, <4>2
    <3> QED BY <3>1, <3>2
  <2> QED BY <2>3, <2>4
<1> QED BY <1>1, <1>4, <1>5, <1>6 DEF Parts

LEMMA GoesLock ==
    ASSUME Placed, NEW r \in Rigs, NEW p \in {"late", "fin", "end"}, Goes(r, p)
    PROVE  HasLock(r)' <=> p # "end"
<1>1. pc'[r] = [part |-> p, i |-> 1]
    BY DEF Goes, Placed
<1> QED BY <1>1 DEF HasLock

\* Whoever has the lock holds it, and nobody else does, after a step of r too.
LEMMA StepSection ==
    ASSUME SectionInv, NEW r \in Rigs, RigStep(r)
    PROVE  Section' /\ Quiet'
<1>0. /\ pc[r].part # "end" /\ job' = job /\ Moves(r) /\ Listens(r)
      /\ \A q \in Rigs \ {r} : pc'[q] = pc[q] /\ lsn'[q] = lsn[q]
      /\ Placed /\ Section /\ Quiet /\ r # NoRig
    BY RigMoves, StepPlaced, RigAssumption DEF SectionInv
<1>1. \A q \in Rigs \ {r} : HasLock(q)' <=> HasLock(q)
    BY <1>0 DEF HasLock
<1>2. HasLock(r) <=> holder = r
    BY <1>0 DEF Section
<1>3. /\ holder' \in {holder, r, NoRig} /\ (holder' = r <=> HasLock(r)')
      /\ holder' # holder => holder \in {r, NoRig}
  <2>1. CASE pc' = pc /\ holder' = holder
    BY <1>0, <1>2, <2>1 DEF HasLock
  <2>2. CASE Onward(r) /\ (\/ holder' = holder /\ Op(r) \notin {"lock", "release"}
                           \/ Op(r) = "lock" /\ holder = NoRig /\ holder' = r
                           \/ Op(r) = "release" /\ holder' = NoRig)
    BY <1>0, <1>2, <2>2, OnwardLock
  <2>3. CASE \E p \in {"late", "fin"} : Goes(r, p) /\ pc[r].part \in {"body", "late"}
        /\ holder' = holder
    <3>1. HasLock(r) /\ HasLock(r)'
      BY <1>0, <2>3, GoesLock DEF HasLock
    <3> QED BY <1>2, <2>3, <3>1
  <2>4. CASE Goes(r, "end")
    <3>1. ~HasLock(r)'
      BY <1>0, <2>4, GoesLock
    <3>2. holder' # r /\ (holder' = holder \/ (holder' = NoRig /\ holder = r))
      <4>1. CASE pc[r].part = "pre" /\ holder' = (IF holder = r THEN NoRig ELSE holder)
        BY <1>0, <4>1
      <4>2. CASE Op(r) = "lock" /\ holder' = holder
        <5>1. /\ job[r] \in Kinds /\ pc[r].i \in 1 .. Len(Part(r))
              /\ Part(r) = Script[job[r]][pc[r].part]
              /\ Len(Part(r)) \in Nat /\ pc[r].part \in Parts
          BY <1>0, PlaceOf
        <5>2. /\ Op(r) = Script[job[r]][pc[r].part][pc[r].i][1] /\ pc[r].part = "pre"
          BY <1>0, <4>2, <5>1, OpPlace DEF Parts, Tidying, Guards, Judges
        <5>3. \A i, j \in 1 .. Len(Script[job[r]]["pre"]) :
                Script[job[r]]["pre"][i][1] = "lock" /\ Script[job[r]]["pre"][j][1] = "lock" => i = j
          BY <5>1, ScriptShape
        <5>4. ~HasLock(r)
          BY <4>2, <5>1, <5>2, <5>3, SMTT(30) DEF HasLock
        <5> QED BY <1>2, <4>2, <5>4
      <4>3. CASE HasLock(r) /\ holder' = NoRig
        BY <1>0, <1>2, <4>3
      <4>4. CASE Onward(r) /\ (\/ holder' = holder /\ Op(r) \notin {"lock", "release"}
                               \/ Op(r) = "lock" /\ holder = NoRig /\ holder' = r
                               \/ Op(r) = "release" /\ holder' = NoRig)
        BY <1>0, <1>2, <3>1, <4>4, OnwardLock
      <4>5. pc' # pc /\ ~Goes(r, "fin") /\ ~Goes(r, "late")
        <5>1. pc'[r].part = "end"
          BY <1>0, <2>4 DEF Goes, Placed
        <5>2. \A p : Goes(r, p) => pc'[r].part = p
          BY <1>0 DEF Goes, Placed
        <5> QED BY <1>0, <5>1, <5>2
      <4> QED BY <1>0, <4>1, <4>2, <4>3, <4>4, <4>5 DEF Moves, Departs
    <3> QED BY <3>1, <3>2
  <2> QED BY <1>0, <2>1, <2>2, <2>3, <2>4 DEF Moves, Departs, Trying
<1>4. Section'
  <2>1. holder' \in Rigs \cup {NoRig}
    BY <1>0, <1>3 DEF Section
  <2>2. \A q \in Rigs \ {r} : HasLock(q)' <=> holder' = q
    BY <1>0, <1>1, <1>2, <1>3, RigAssumption DEF Section
  <2> QED BY <1>3, <2>1, <2>2 DEF Section
<1>5. Quiet'
  <2>1. ASSUME NEW q \in Rigs, q # r, lsn'[q] # "off" PROVE HasLock(q)' /\ pc'[q].part # "pre"
    BY <1>0, <1>1, <2>1 DEF Quiet
  <2>2. ASSUME lsn'[r] # "off" PROVE HasLock(r)' /\ pc'[r].part # "pre"
    <3>1. /\ HasLock(r) /\ pc[r].part # "pre" /\ holder = r /\ Op(r) # "release"
          /\ pc[r].part = "fin" => holder' = holder
      <4>1. CASE lsn' = lsn /\ Op(r) # "release" /\ (pc[r].part = "fin" => holder' = holder)
        BY <1>0, <1>2, <2>2, <4>1 DEF Quiet
      <4>2. CASE Op(r) = "listen"
        <5>1. HasLock(r)
          BY <1>0, <4>2, DeviceOp DEF Checks, Judges
        <5>2. pc[r].part \notin {"pre", "fin"}
          BY <1>0, <4>2, OpPlace DEF Checks, Judges, Tidying, Guards
        <5> QED BY <1>2, <4>2, <5>1, <5>2
      <4>3. lsn' # [lsn EXCEPT ![r] = "off"]
        BY <1>0, <2>2 DEF Placed
      <4> QED BY <1>0, <4>1, <4>2, <4>3 DEF Listens
    <3>2. HasLock(r)'
      <4>1. CASE Onward(r) \/ pc' = pc
        BY <1>0, <3>1, <4>1, OnwardLock DEF HasLock
      <4>2. CASE \E p \in {"late", "fin"} : Goes(r, p)
        BY <1>0, <4>2, GoesLock
      <4>3. CASE Goes(r, "end") /\ ~Onward(r) /\ pc' # pc /\ ~Goes(r, "fin") /\ ~Goes(r, "late")
        <5>1. Op(r) = "lock"
          BY <1>0, <3>1, <4>3, RigAssumption DEF Moves, Departs
        <5> QED BY <1>0, <3>1, <5>1, OpPlace, PlaceOf DEF Parts, Tidying, Guards, Judges
      <4> QED BY <1>0, <4>1, <4>2, <4>3, SMTT(30) DEF Moves, Departs
    <3>3. pc'[r].part # "pre"
      <4>1. CASE Onward(r)
        BY <1>0, <3>1, <4>1 DEF Onward, Succ, Placed
      <4>2. CASE \E p \in {"late", "fin", "end"} : Goes(r, p)
        BY <1>0, <4>2 DEF Goes, Placed
      <4> QED BY <1>0, <3>1, <4>1, <4>2 DEF Moves, Departs
    <3> QED BY <3>2, <3>3
  <2> QED BY <2>1, <2>2 DEF Quiet
<1> QED BY <1>4, <1>5

LEMMA InitSection ==
    ASSUME Init
    PROVE  SectionInv
<1>1. job \in [Rigs -> Kinds]
    BY RigAssumption DEF Init
<1>2. Fresh \in MeType
    BY DEF Fresh, MeType
<1>3. [part |-> "pre", i |-> 1] \in Place
    BY DEF Place, Parts
<1>4. ASSUME NEW r \in Rigs
      PROVE  pc[r] = [part |-> "pre", i |-> 1] /\ pc[r].i <= Len(Part(r)) /\ ~HasLock(r)
  <2>1. pc[r] = [part |-> "pre", i |-> 1]
    BY DEF Init
  <2>2. Script[job[r]]["pre"] \in Seq(STRING \X Int) /\ Len(Script[job[r]]["pre"]) > 0
    BY <1>1, ScriptShape DEF Parts
  <2>3. 1 <= Len(Script[job[r]]["pre"])
    BY <2>2
  <2> QED BY <2>1, <2>3 DEF Part, HasLock
<1>5. Placed
    BY <1>1, <1>2, <1>3, <1>4 DEF Init, Placed, LsnStates
<1>6. dev \in DevType
    BY DEF Init, DevType
<1>7. Section /\ Quiet
    BY <1>4, RigAssumption DEF Init, Section, Quiet
<1> QED BY <1>5, <1>6, <1>7, BlankType DEF Init, SectionInv, MachineType

LEMMA SameSection ==
    ASSUME SectionInv, UNCHANGED <<job, pc, rig, holder>>, MachineType', lsn' \in [Rigs -> LsnStates],
           \A q \in Rigs : lsn'[q] # lsn[q] => lsn[q] # "off"
    PROVE  SectionInv'
<1>1. \A q \in Rigs : HasLock(q)' <=> HasLock(q)
    BY DEF HasLock
<1>2. Placed'
    BY DEF SectionInv, Placed, Part
<1>3. Section' /\ Quiet'
    BY <1>1 DEF SectionInv, Section, Quiet
<1> QED BY <1>2, <1>3 DEF SectionInv

\* What a step of the C64, or of the accept clock, does to the listeners.
LEMMA ListenersKept ==
    ASSUME SectionInv, C64Step \/ \E r \in Rigs : Expire(r)
    PROVE  /\ UNCHANGED <<job, pc, rig, holder, untold>> /\ MachineType' /\ UNCHANGED Settings
           /\ lsn' \in [Rigs -> LsnStates]
           /\ \A q \in Rigs : lsn'[q] # lsn[q] => lsn[q] # "off"
<1>0. Placed /\ MachineType /\ lsn \in [Rigs -> LsnStates]
    BY DEF SectionInv, Placed
<1>1. CASE C64Step
  <2>1. /\ UNCHANGED <<job, pc, rig, holder, untold>> /\ MachineType' /\ c64'.img = c64.img
        /\ c64'.prog = c64.prog /\ dev'.uci = dev.uci /\ dev'.reu = dev.reu /\ dev'.turbo = dev.turbo
        /\ \/ lsn' = lsn
           \/ lsn' = [lsn EXCEPT ![c64.prog] = "served"] /\ lsn[c64.prog] \in {"on", "rekeyed"}
    BY <1>0, <1>1, C64Runs
  <2>2. lsn' \in [Rigs -> LsnStates] /\ \A q \in Rigs : lsn'[q] # lsn[q] => lsn[q] # "off"
    BY <1>0, <2>1 DEF LsnStates
  <2> QED BY <2>1, <2>2 DEF Settings
<1>2. CASE \E r \in Rigs : Expire(r)
  <2>1. PICK r \in Rigs : Expire(r)
    BY <1>2
  <2>2. UNCHANGED <<job, pc, rig, holder, untold, dev, c64>>
    BY <2>1 DEF Expire
  <2>3. lsn' \in [Rigs -> LsnStates] /\ \A q \in Rigs : lsn'[q] # lsn[q] => lsn[q] # "off"
    BY <1>0, <2>1 DEF Expire, LsnStates
  <2> QED BY <1>0, <2>2, <2>3 DEF Settings, MachineType
<1> QED BY <1>1, <1>2

LEMMA NextSection ==
    ASSUME SectionInv, [Next]_vars
    PROVE  SectionInv'
<1>1. CASE \E r \in Rigs : RigStep(r)
  <2>1. PICK r \in Rigs : RigStep(r)
    BY <1>1
  <2> QED BY <2>1, StepPlaced, RigDevice, StepSection DEF SectionInv
<1>2. CASE C64Step \/ \E r \in Rigs : Expire(r)
    BY <1>2, ListenersKept, SameSection
<1>3. CASE UNCHANGED vars
    BY <1>3, SameSection DEF vars, SectionInv, Placed, MachineType
<1> QED BY <1>1, <1>2, <1>3 DEF Next

\* The DeviceLock shuts the other rigs out (acquire_device_lock to release): a
\* rig is between those two steps of its script exactly while it is the holder,
\* for any number of rigs of any kinds.
THEOREM OneAtATime == Spec => []Section
<1>1. SectionInv => Section
    BY DEF SectionInv
<1> QED BY <1>1, InitSection, NextSection, PTL DEF Spec

\* The settings, the image and its owner change only in a step of the holder;
\* no accept clock runs, or runs out, in front of the lock.
THEOREM HolderOnly == Spec => OnlyTheHolder
<1> DEFINE Mild == /\ Settings' # Settings
                        => holder # NoRig /\ <<rig[holder], pc[holder]>> # <<rig'[holder], pc'[holder]>>
                   /\ \A r \in Rigs : lsn'[r] # lsn[r] => holder = r
<1>1. ASSUME SectionInv, [Next]_vars PROVE Mild
  <2>0. Placed /\ MachineType /\ Section /\ Quiet /\ NoRig \notin Rigs
    BY <1>1, RigAssumption DEF SectionInv
  <2>1. CASE \E r \in Rigs : RigStep(r)
    <3>1. PICK r \in Rigs : RigStep(r)
      BY <2>1
    <3>2. \A q \in Rigs \ {r} : lsn'[q] = lsn[q]
      BY <2>0, <3>1, StepPlaced
    <3>3. UNCHANGED Settings \/ (HasLock(r) /\ <<rig[r], pc[r]>> # <<rig'[r], pc'[r]>>)
      BY <2>0, <3>1, RigDevice
    <3>4. lsn'[r] # lsn[r] => HasLock(r)
      <4>1. Listens(r) /\ pc[r].part # "end"
        BY <2>0, <3>1, RigMoves
      <4>2. Op(r) = "listen" => HasLock(r)
        BY <2>0, <4>1, DeviceOp DEF Checks, Judges
      <4> QED BY <4>1, <4>2 DEF Listens
    <3> QED BY <2>0, <3>2, <3>3, <3>4 DEF Section
  <2>2. CASE C64Step \/ \E r \in Rigs : Expire(r)
    BY <1>1, <2>0, <2>2, ListenersKept DEF Section, Quiet
  <2>3. CASE UNCHANGED vars
    BY <2>3 DEF vars, Settings
  <2> QED BY <1>1, <2>1, <2>2, <2>3 DEF Next
<1>2. SectionInv /\ [Next]_vars => [Mild]_vars
    BY <1>1
<1>3. [Mild]_vars <=> [ /\ <<dev.uci, dev.reu, dev.turbo, c64.img, c64.prog>>'
                             # <<dev.uci, dev.reu, dev.turbo, c64.img, c64.prog>>
                           => holder # NoRig
                                 /\ <<rig[holder], pc[holder]>> # <<rig'[holder], pc'[holder]>>
                        /\ \A r \in Rigs : lsn'[r] # lsn[r] => holder = r ]_vars
    BY DEF Settings
<1> QED BY <1>2, <1>3, InitSection, NextSection, PTL DEF Spec, OnlyTheHolder

-----------------------------------------------------------------------------
(* The machine a program runs on *)

\* The settings a rig of kind k asked prepare_device for.
Suits(k) == dev.reu = WantsReu(k) /\ (dev.turbo \/ k \in {"bench", "m3_timed"})
AfterPrep(r) ==
    pc[r].part = "body" /\ \E i \in 1 .. pc[r].i - 1 : Script[job[r]]["body"][i][1] = "prep"

\* Whatever runs was read back whole, and belongs to a rig that got the lock.
Loaded == /\ c64.img # "good" => c64.ph = "basic"
          /\ \A r \in Rigs : c64.prog = r => pc[r].part # "pre"
\* Between the preparation and the release the settings stay as asked for.
Prepared ==
    \A r \in Rigs :
        HasLock(r) /\ Prepares(job[r]) /\ (AfterPrep(r) \/ c64.prog = r) => Suits(job[r])
MachineInv == SectionInv /\ Loaded /\ Prepared

\* A step of r changes the REU and the clock, and the program, in these ways.
LEMMA StepMachine ==
    ASSUME Placed, MachineType, Loaded, NEW r \in Rigs, RigStep(r)
    PROVE  /\ \/ dev'.reu = dev.reu /\ dev'.turbo = dev.turbo /\ (Op(r) = "prep" => pc'[r].part = "fin")
              \/ Op(r) = "prep" /\ dev'.reu = WantsReu(job[r]) /\ dev'.turbo = TRUE
              \/ Op(r) = "prep" /\ dev'.reu = WantsReu(job[r]) /\ dev'.turbo = dev.turbo
                 /\ pc'[r].part = "fin"
              \/ Op(r) = "turbo" /\ dev'.reu = dev.reu
           /\ \/ c64'.prog = c64.prog
              \/ c64'.prog = NoRig
              \/ c64'.prog = r /\ Op(r) \in {"load", "load_run"} /\ Onward(r)
           /\ c64'.img # "good" => c64'.ph = "basic"
<1>0. /\ pc[r].part # "end" /\ dev \in DevType /\ c64 \in C64Type /\ Me(r) \in MeType
      /\ c64.img # "good" => c64.ph = "basic"
    BY RigMoves DEF MachineType, Placed, Me, Loaded
<1>13. Op(r) = "prep" => pc[r].part = "body"
  <2>1. /\ job[r] \in Kinds /\ pc[r].part \in Parts /\ Part(r) = Script[job[r]][pc[r].part]
        /\ pc[r].i \in 1 .. Len(Part(r))
    BY <1>0, PlaceOf
  <2>2. /\ Op(r) = Script[job[r]][pc[r].part][pc[r].i][1]
        /\ pc[r].part = "pre" => Op(r) \in Checks \cup {"lock"}
        /\ pc[r].part = "fin" => Op(r) \in Tidying \cup Judges
    BY <1>0, OpPlace, SMTT(30)
  <2>3. Op(r) \in Steps(job[r], pc[r].part)
    BY <2>1, <2>2 DEF Steps
  <2>4. "prep" \notin Steps(job[r], "late")
    BY <2>1, ScriptShape
  <2> QED BY <2>1, <2>2, <2>3, <2>4 DEF Parts, Checks, Tidying, Guards, Judges
<1>12. ASSUME NEW c, Leave(r, Me(r), c), Op(r) = "prep" PROVE pc'[r].part = "fin"
    BY <1>12, <1>13 DEF Leave, Trying, GoTo, Placed
<1>1. CASE dev' = dev /\ c64' = c64 /\ Op(r) # "prep"
    BY <1>0, <1>1
<1>2. CASE \/ Check(r) \/ Acquire(r) \/ AcquireTimesOut(r) \/ BadLockTimeout(r) \/ Release(r)
           \/ Listen(r) \/ Persist(r) \/ Kill(r) \/ PreflightReu(r) \/ PreflightRefuses(r)
           \/ StoreUnavailable(r) \/ RestoreDrive(r) \/ Wait(r) \/ Landed(r) \/ LeaveViewer(r)
           \/ Judge(r)
  <2>1. Op(r) # "prep"
    BY <1>2 DEF Check, Acquire, AcquireTimesOut, BadLockTimeout, Release, Listen, Persist, Checks, Waits,
                Kill, PreflightReu, PreflightRefuses, StoreUnavailable, RestoreDrive, Wait, Landed,
                LeaveViewer, Judge, Judges
  <2>2. dev' = dev /\ c64' = c64
    BY <1>2 DEF Check, Acquire, AcquireTimesOut, BadLockTimeout, Release, Listen, Persist,
                Kill, PreflightReu, PreflightRefuses, StoreUnavailable, RestoreDrive, Wait, Landed,
                LeaveViewer, Judge
  <2> QED BY <1>1, <2>1, <2>2
<1>3. CASE Escape(r)
  <2>1. dev' = dev /\ c64' = c64 /\ Leave(r, Me(r), 1) /\ pc[r].part \in {"pre", "body", "late"}
    BY <1>3 DEF Escape
  <2>2. Op(r) = "prep" => pc'[r].part = "fin"
    BY <1>0, <2>1, <1>12
  <2> QED BY <1>0, <2>1, <2>2
<1>4. CASE EnableUci(r) \/ DisableUci(r) \/ TrustFiles(r) \/ WriteFiles(r) \/ CleanUp(r)
  <2>1. c64' = c64 /\ Op(r) # "prep"
    BY <1>4 DEF EnableUci, DisableUci, TrustFiles, WriteFiles, CleanUp
  <2>2. \E a \in BOOLEAN : \/ dev' = dev \/ dev' = [dev EXCEPT !.files = a]
                           \/ dev' = [dev EXCEPT !.uci = a]
    BY <1>4 DEF EnableUci, DisableUci, TrustFiles, WriteFiles, CleanUp
  <2>3. dev'.reu = dev.reu /\ dev'.turbo = dev.turbo
    BY <1>0, <2>2 DEF DevType
  <2> QED BY <1>0, <2>1, <2>3
<1>5. CASE PrepareDevice(r)
  <2>1. c64' = c64 /\ Op(r) = "prep" /\ dev' = [dev EXCEPT !.reu = WantsReu(job[r]), !.turbo = TRUE]
    BY <1>5 DEF PrepareDevice
  <2>2. dev'.reu = WantsReu(job[r]) /\ dev'.turbo = TRUE
    BY <1>0, <2>1 DEF DevType
  <2> QED BY <1>0, <2>1, <2>2
<1>6. CASE PrepRefused(r)
  <2>1. /\ c64' = c64 /\ Op(r) = "prep" /\ Lapse(r, Me(r))
        /\ dev' \in {dev, [dev EXCEPT !.reu = WantsReu(job[r])]}
    BY <1>6 DEF PrepRefused
  <2>2. dev'.turbo = dev.turbo /\ (dev'.reu = dev.reu \/ dev'.reu = WantsReu(job[r]))
    BY <1>0, <2>1 DEF DevType
  <2>3. pc'[r].part = "fin"
    <3>1. Code(r) > 0 /\ Code(r) # Tallied /\ Code(r) # Ignored
      <4>1. /\ job[r] \in Kinds /\ Part(r) = Script[job[r]]["body"] /\ pc[r].i \in 1 .. Len(Part(r))
            /\ Op(r) = Script[job[r]]["body"][pc[r].i][1]
        BY <1>0, <1>13, <2>1, PlaceOf, OpPlace
      <4>2. Script[job[r]]["body"][pc[r].i][2] > 0
        BY <2>1, <4>1, ScriptShape
      <4>3. Code(r) > 0
        BY <4>1, <4>2 DEF Code
      <4> QED BY <4>3 DEF Tallied, Ignored
    <3>2. Leave(r, Me(r), Code(r))
      <4>1. Op(r) \notin {"sentinel", "body_stable"}
        BY <2>1
      <4> QED BY <2>1, <3>1, <4>1, Zenon DEF Lapse
    <3> QED BY <1>0, <1>12, <2>1, <3>2
  <2> QED BY <1>0, <2>1, <2>2, <2>3
<1>7. CASE SetTurbo(r)
  <2>1. c64' = c64 /\ Op(r) = "turbo" /\ \E fast \in BOOLEAN : dev' = [dev EXCEPT !.turbo = fast]
    BY <1>7 DEF SetTurbo
  <2>2. dev'.reu = dev.reu
    BY <1>0, <2>1 DEF DevType
  <2> QED BY <1>0, <2>1, <2>2
<1>8. CASE ResetC64(r) \/ CloseOrphan(r)
  <2>1. Op(r) # "prep" /\ (ResetEffect \/ UNCHANGED <<dev, c64>>)
    BY <1>8 DEF ResetC64, CloseOrphan
  <2>2. CASE ResetEffect
    <3>1. c64' = Blank /\ dev' = [dev EXCEPT !.lease = @ /\ ~c64.sock]
      BY <2>2 DEF ResetEffect
    <3>2. dev'.reu = dev.reu /\ dev'.turbo = dev.turbo
      BY <1>0, <3>1 DEF DevType
    <3> QED BY <1>0, <2>1, <3>1, <3>2 DEF Blank
  <2> QED BY <1>1, <2>1, <2>2
<1>9. CASE LoadPrg(r)
  <2>1. PICK img2 \in {"good", "torn"} : c64' = [c64 EXCEPT !.img = img2]
    BY <1>9 DEF LoadPrg
  <2>2. dev' = dev /\ Op(r) = "load" /\ c64.img \in {"none", "torn"}
    BY <1>9 DEF LoadPrg
  <2>3. c64'.prog = c64.prog /\ c64'.ph = c64.ph
    BY <1>0, <2>1 DEF C64Type
  <2> QED BY <1>0, <2>2, <2>3
<1>10. CASE VerifyAndRun(r) \/ LoadAndRun(r)
  <2>1. dev' = dev /\ Op(r) \in {"load", "load_run"}
    BY <1>10 DEF VerifyAndRun, LoadAndRun
  <2>2. \/ c64' = c64
        \/ /\ \/ c64' = [c64 EXCEPT !.ph = "boot", !.prog = r] /\ c64.img = "good"
              \/ c64' = [c64 EXCEPT !.ph = "boot", !.prog = r, !.img = "good"]
           /\ Advance(r, Me(r)) \/ Advance(r, [Me(r) EXCEPT !.tries = 0])
    BY <1>10 DEF VerifyAndRun, LoadAndRun
  <2>3. [Me(r) EXCEPT !.tries = 0] \in MeType
    BY <1>0 DEF MeType
  <2>4. CASE c64' # c64
    <3>1. Onward(r)
      BY <1>0, <2>2, <2>3, <2>4, Advances
    <3>2. c64'.prog = r /\ c64'.img = "good"
      <4> DEFINE ph2 == "boot"
                 img2 == "good"
      <4>1. \/ c64' = [c64 EXCEPT !.ph = ph2, !.prog = r] /\ c64.img = img2
            \/ c64' = [c64 EXCEPT !.ph = ph2, !.prog = r, !.img = img2]
        BY <2>2, <2>4
      <4> HIDE DEF ph2, img2
      <4>2. c64'.prog = r /\ c64'.img = img2
        BY <1>0, <4>1 DEF C64Type
      <4> QED BY <4>2 DEF img2
    <3> QED BY <1>0, <2>1, <3>1, <3>2
  <2> QED BY <1>0, <1>1, <2>1, <2>4
<1>11. CASE Press(r) \/ Overdue(r) \/ NudgeViewer(r) \/ Guard(r)
  <2>1. dev' = dev /\ Op(r) # "prep"
    BY <1>11 DEF Press, Overdue, NudgeViewer, Guard, Waits, Guards
  <2>2. \/ c64' = c64 \/ c64' = [c64 EXCEPT !.key = TRUE, !.sent = FALSE]
        \/ c64' = [c64 EXCEPT !.key = TRUE]
        \/ c64' = [c64 EXCEPT !.q = TRUE] \/ \E a \in {"y", "a", "n"} : c64' = [c64 EXCEPT !.ans = a]
        \/ c64' = [c64 EXCEPT !.st = "poison"] \/ c64' = [c64 EXCEPT !.scr = <<>>]
    BY <1>11 DEF Press, Overdue, NudgeViewer, Guard
  <2>3. c64'.img = c64.img /\ c64'.prog = c64.prog /\ c64'.ph = c64.ph
    BY <1>0, <2>2 DEF C64Type
  <2> QED BY <1>0, <2>1, <2>3
<1> QED BY <1>2, <1>3, <1>4, <1>5, <1>6, <1>7, <1>8, <1>9, <1>10, <1>11 DEF RigStep, Work

\* The place r moves to, as far as the preparation is concerned.
LEMMA PrepPlace ==
    ASSUME Placed, NEW r \in Rigs, pc[r].part # "end", job' = job, Moves(r)
    PROVE  /\ AfterPrep(r)' => AfterPrep(r) \/ Op(r) = "prep"
           /\ Op(r) \in {"load", "load_run"} /\ Prepares(job[r]) => AfterPrep(r)
           /\ Op(r) \in {"load", "load_run"} => pc[r].part = "body"
           /\ Op(r) = "turbo" => job[r] \in {"bench", "m3_timed"}
           /\ pc[r].part # "pre" => pc'[r].part # "pre"
<1> DEFINE s == Script[job[r]]
           n == pc[r].i
<1>1. /\ job[r] \in Kinds /\ pc[r].part \in Parts /\ n \in Nat \ {0}
      /\ Part(r) = s[pc[r].part] /\ Len(Part(r)) \in Nat /\ n \in 1 .. Len(Part(r))
    BY PlaceOf
<1>2. /\ Op(r) = s[pc[r].part][n][1]
      /\ pc[r].part = "pre" => Op(r) \in Checks \cup {"lock"}
      /\ pc[r].part = "fin" => Op(r) \in Tidying \cup Judges
    BY OpPlace, SMTT(30)
<1>3. Op(r) \in Steps(job[r], pc[r].part)
    BY <1>1, <1>2 DEF Steps
<1>4. /\ {"load", "load_run", "prep", "turbo"} \cap Steps(job[r], "late") = {}
      /\ "turbo" \in Steps(job[r], "body") => job[r] \in {"bench", "m3_timed"}
    BY <1>1, ScriptShape, SMTT(30)
<1>5. Op(r) \in {"load", "load_run", "turbo"} => pc[r].part = "body"
    BY <1>1, <1>2, <1>3, <1>4 DEF Parts, Checks, Tidying, Guards, Judges
<1>6. Op(r) = "turbo" => job[r] \in {"bench", "m3_timed"}
    BY <1>3, <1>4, <1>5, SMTT(30)
<1>7. Op(r) \in {"load", "load_run"} /\ Prepares(job[r]) => AfterPrep(r)
  <2>1. Prepares(job[r]) => \A j \in 1 .. Len(s["body"]) :
              s["body"][j][1] \in {"load", "load_run"} => \E i \in 1 .. j - 1 : s["body"][i][1] = "prep"
    BY <1>1, ScriptShape
  <2> QED BY <1>1, <1>2, <1>5, <2>1 DEF AfterPrep
<1>8. CASE Onward(r)
  <2>1. pc'[r] = Succ(r) /\ job'[r] = job[r]
    BY <1>8 DEF Onward, Placed
  <2>2. CASE n < Len(Part(r))
    <3>1. pc'[r] = [part |-> pc[r].part, i |-> n + 1]
      BY <2>1, <2>2 DEF Succ
    <3>2. AfterPrep(r)' <=> pc[r].part = "body" /\ \E i \in 1 .. n : s["body"][i][1] = "prep"
      <4>1. pc'[r].part = pc[r].part /\ pc'[r].i - 1 = n
        BY <1>1, <3>1
      <4> QED BY <2>1, <4>1 DEF AfterPrep
    <3>3. AfterPrep(r)' => AfterPrep(r) \/ Op(r) = "prep"
      <4> SUFFICES ASSUME AfterPrep(r)', Op(r) # "prep" PROVE AfterPrep(r)
        OBVIOUS
      <4>1. PICK i \in 1 .. n : s["body"][i][1] = "prep"
        BY <3>2, SMTT(30)
      <4>2. pc[r].part = "body" /\ i # n
        BY <1>2, <3>2, <4>1
      <4>3. i \in 1 .. n - 1
        BY <1>1, <4>1, <4>2
      <4> QED BY <4>1, <4>2, <4>3 DEF AfterPrep
    <3> QED BY <1>5, <1>6, <1>7, <3>1, <3>3
  <2>3. CASE ~(n < Len(Part(r)))
    <3>1. pc'[r].part # "pre" /\ pc'[r].i = 1
      BY <2>1, <2>3 DEF Succ
    <3>2. ~AfterPrep(r)'
      BY <3>1 DEF AfterPrep
    <3> QED BY <1>5, <1>6, <1>7, <3>1, <3>2
  <2> QED BY <2>2, <2>3
<1>9. CASE \E p \in {"late", "fin", "end"} : Goes(r, p)
  <2>1. pc'[r].part \in {"late", "fin", "end"}
    BY <1>9 DEF Goes, Placed
  <2>2. ~AfterPrep(r)'
    BY <2>1 DEF AfterPrep
  <2> QED BY <1>5, <1>6, <1>7, <2>1, <2>2
<1>10. CASE pc' = pc
  <2>1. AfterPrep(r)' => AfterPrep(r)
    BY <1>10 DEF AfterPrep
  <2> QED BY <1>5, <1>6, <1>7, <1>10, <2>1
<1> QED BY <1>8, <1>9, <1>10 DEF Moves, Departs

LEMMA NextMachine ==
    ASSUME MachineInv, [Next]_vars
    PROVE  MachineInv'
<1>0. SectionInv /\ Placed /\ MachineType /\ Section /\ Loaded /\ Prepared /\ NoRig \notin Rigs
    BY RigAssumption DEF MachineInv, SectionInv
<1>1. SectionInv'
    BY <1>0, NextSection
<1>2. CASE \E r \in Rigs : RigStep(r)
  <2>1. PICK r \in Rigs : RigStep(r)
    BY <1>2
  <2>2. /\ pc[r].part # "end" /\ job' = job /\ Moves(r)
        /\ \A q \in Rigs \ {r} : pc'[q] = pc[q]
    BY <1>0, <2>1, RigMoves, StepPlaced
  <2>3. /\ \/ dev'.reu = dev.reu /\ dev'.turbo = dev.turbo /\ (Op(r) = "prep" => pc'[r].part = "fin")
           \/ Op(r) = "prep" /\ dev'.reu = WantsReu(job[r]) /\ dev'.turbo = TRUE
           \/ Op(r) = "prep" /\ dev'.reu = WantsReu(job[r]) /\ dev'.turbo = dev.turbo
                 /\ pc'[r].part = "fin"
           \/ Op(r) = "turbo" /\ dev'.reu = dev.reu
        /\ \/ c64'.prog = c64.prog
           \/ c64'.prog = NoRig
           \/ c64'.prog = r /\ Op(r) \in {"load", "load_run"} /\ Onward(r)
        /\ c64'.img # "good" => c64'.ph = "basic"
    BY <1>0, <2>1, StepMachine
  <2>4. /\ AfterPrep(r)' => AfterPrep(r) \/ Op(r) = "prep"
        /\ Op(r) \in {"load", "load_run"} /\ Prepares(job[r]) => AfterPrep(r)
        /\ Op(r) \in {"load", "load_run"} => pc[r].part = "body"
        /\ Op(r) = "turbo" => job[r] \in {"bench", "m3_timed"}
        /\ pc[r].part # "pre" => pc'[r].part # "pre"
    BY <1>0, <2>2, PrepPlace
  <2>5. Loaded'
    BY <1>0, <2>2, <2>3, <2>4 DEF Loaded
  <2>6. ASSUME NEW q \in Rigs, q # r, HasLock(q)', Prepares(job[q]), AfterPrep(q)' \/ c64'.prog = q
        PROVE  Suits(job[q])'
    <3>1. HasLock(q) /\ (AfterPrep(q)' => AfterPrep(q)) /\ (c64'.prog = q => c64.prog = q)
      BY <1>0, <2>2, <2>3, <2>6 DEF HasLock, AfterPrep
    <3>2. ~HasLock(r)
      BY <1>0, <2>6, <3>1 DEF Section
    <3>3. UNCHANGED Settings
      BY <1>0, <2>1, <3>2, RigDevice
    <3> QED BY <1>0, <2>2, <2>6, <3>1, <3>3 DEF Prepared, Suits, Settings
  <2>7. ASSUME HasLock(r)', Prepares(job[r]), AfterPrep(r)' \/ c64'.prog = r
        PROVE  Suits(job[r])'
    <3>1. CASE Op(r) = "prep" /\ dev'.reu = WantsReu(job[r]) /\ dev'.turbo = TRUE
      BY <2>2, <3>1 DEF Suits
    <3>2. CASE ~(Op(r) = "prep" /\ dev'.reu = WantsReu(job[r]) /\ dev'.turbo = TRUE)
      <4>1. AfterPrep(r) \/ (c64.prog = r /\ pc[r].part # "pre")
        <5>1. Op(r) = "prep" => ~AfterPrep(r)'
          BY <2>3, <3>2 DEF AfterPrep
        <5> QED BY <1>0, <2>3, <2>4, <2>7, <5>1 DEF Loaded
      <4>2. pc[r].part # "pre" /\ Op(r) # "lock"
        <5>1. pc[r].part # "pre"
          BY <4>1 DEF AfterPrep
        <5> QED BY <1>0, <2>2, <5>1, OpPlace, PlaceOf DEF Parts, Tidying, Guards, Judges
      <4>3. holder' = r
        BY <1>1, <2>7 DEF SectionInv, Section
      <4>4. holder = r
        BY <1>0, <2>2, <4>2, <4>3 DEF Moves, Departs
      <4>5. HasLock(r)
        BY <1>0, <4>4 DEF Section
      <4>6. Suits(job[r])
        BY <1>0, <2>7, <4>1, <4>5 DEF Prepared
      <4> QED BY <2>2, <2>3, <2>4, <3>2, <4>6 DEF Suits
    <3> QED BY <3>1, <3>2
  <2>8. Prepared'
    BY <2>2, <2>6, <2>7 DEF Prepared
  <2> QED BY <1>1, <2>5, <2>8 DEF MachineInv
<1>3. CASE C64Step \/ \E r \in Rigs : Expire(r)
  <2>1. UNCHANGED <<job, pc>> /\ UNCHANGED Settings
    BY <1>0, <1>3, ListenersKept
  <2>2. c64.img # "good" => c64'.ph = "basic"
    BY <1>0, <1>3, C64Runs DEF Loaded, Expire
  <2> QED BY <1>0, <1>1, <2>1, <2>2 DEF MachineInv, Loaded, Prepared, HasLock, AfterPrep, Suits, Settings
<1>4. CASE UNCHANGED vars
    BY <1>0, <1>1, <1>4 DEF vars, MachineInv, Loaded, Prepared, HasLock, AfterPrep, Suits
<1> QED BY <1>2, <1>3, <1>4 DEF Next

LEMMA InitMachine ==
    ASSUME Init
    PROVE  MachineInv
<1>1. SectionInv
    BY InitSection
<1>2. c64.ph = "basic" /\ c64.prog = NoRig
    BY DEF Init, Blank
<1>3. \A r \in Rigs : ~HasLock(r)
    BY <1>1, RigAssumption DEF SectionInv, Section, Init
<1> QED BY <1>1, <1>2, <1>3, RigAssumption DEF MachineInv, Loaded, Prepared

\* Nothing runs that was not read back whole, and while its rig holds the lock a
\* program that prepare_device prepared for keeps the REU and the clock asked for.
THEOREM MachineAsAsked == Spec => []RightMachine
<1>1. ASSUME MachineInv PROVE RightMachine
    BY <1>1 DEF MachineInv, SectionInv, Section, Loaded, Prepared, Suits, RightMachine
<1> QED BY <1>1, InitMachine, NextMachine, PTL DEF Spec

-----------------------------------------------------------------------------
(* Where a rig is between its presses and its looks *)

LEMMA SinceNext ==
    ASSUME NEW s, NEW i \in Nat \ {0}, NEW S, NEW T
    PROVE  /\ Since(s, i + 1, S, T) <=> s[i][1] \in S \/ (Since(s, i, S, T) /\ s[i][1] \notin T)
           /\ ~Since(s, 1, S, T)
<1>1. ~Since(s, 1, S, T)
    BY DEF Since
<1>2. ASSUME s[i][1] \in S PROVE Since(s, i + 1, S, T)
  <2>1. i \in 1 .. (i + 1) - 1 /\ i + 1 .. (i + 1) - 1 = {}
    OBVIOUS
  <2> QED BY <1>2, <2>1 DEF Since
<1>3. ASSUME Since(s, i, S, T), s[i][1] \notin T PROVE Since(s, i + 1, S, T)
  <2>1. PICK j \in 1 .. i - 1 : s[j][1] \in S /\ \A m \in j + 1 .. i - 1 : s[m][1] \notin T
    BY <1>3 DEF Since
  <2>2. j \in 1 .. (i + 1) - 1 /\ \A m \in j + 1 .. (i + 1) - 1 : m = i \/ m \in j + 1 .. i - 1
    OBVIOUS
  <2> QED BY <1>3, <2>1, <2>2 DEF Since
<1>4. ASSUME Since(s, i + 1, S, T), s[i][1] \notin S PROVE Since(s, i, S, T) /\ s[i][1] \notin T
  <2>1. PICK j \in 1 .. (i + 1) - 1 : s[j][1] \in S /\ \A m \in j + 1 .. (i + 1) - 1 : s[m][1] \notin T
    BY <1>4 DEF Since
  <2>2. j # i
    BY <1>4, <2>1
  <2>3. j \in 1 .. i - 1 /\ i \in j + 1 .. (i + 1) - 1
        /\ \A m \in j + 1 .. i - 1 : m \in j + 1 .. (i + 1) - 1
    BY <2>2
  <2> QED BY <2>1, <2>3 DEF Since
<1> QED BY <1>1, <1>2, <1>3, <1>4

LEMMA JustResetNext ==
    ASSUME NEW k, NEW i \in Nat \ {0}
    PROVE  /\ JustReset(k, i + 1) <=> \/ Body(k)[i][1] = "reset"
                                      \/ JustReset(k, i) /\ Body(k)[i][1] = "listen"
           /\ ~JustReset(k, 1)
<1> DEFINE s == Body(k)
<1>1. ~JustReset(k, 1)
    BY DEF JustReset
<1>2. ASSUME s[i][1] = "reset" PROVE JustReset(k, i + 1)
  <2>1. i \in 1 .. (i + 1) - 1 /\ i + 1 .. (i + 1) - 1 = {}
    OBVIOUS
  <2> QED BY <1>2, <2>1 DEF JustReset
<1>3. ASSUME JustReset(k, i), s[i][1] = "listen" PROVE JustReset(k, i + 1)
  <2>1. PICK j \in 1 .. i - 1 : s[j][1] = "reset" /\ \A m \in j + 1 .. i - 1 : s[m][1] = "listen"
    BY <1>3 DEF JustReset
  <2>2. j \in 1 .. (i + 1) - 1 /\ \A m \in j + 1 .. (i + 1) - 1 : m = i \/ m \in j + 1 .. i - 1
    OBVIOUS
  <2> QED BY <1>3, <2>1, <2>2 DEF JustReset
<1>4. ASSUME JustReset(k, i + 1), s[i][1] # "reset" PROVE JustReset(k, i) /\ s[i][1] = "listen"
  <2>1. PICK j \in 1 .. (i + 1) - 1 : s[j][1] = "reset"
                                  /\ \A m \in j + 1 .. (i + 1) - 1 : s[m][1] = "listen"
    BY <1>4 DEF JustReset
  <2>2. j # i
    BY <1>4, <2>1
  <2>3. j \in 1 .. i - 1 /\ i \in j + 1 .. (i + 1) - 1
        /\ \A m \in j + 1 .. i - 1 : m \in j + 1 .. (i + 1) - 1
    BY <2>2
  <2> QED BY <2>1, <2>3 DEF JustReset
<1> QED BY <1>1, <1>2, <1>3, <1>4

InBody(r) == pc[r].part = "body"
At(r) == pc[r].i

\* What changes when r goes from one step of its body to the next.
Stepped(r) ==
    /\ AfterEnable(job[r], At(r))' => Op(r) = "enable" \/ AfterEnable(job[r], At(r))
    /\ JustReset(job[r], At(r))' => Op(r) = "reset" \/ (JustReset(job[r], At(r)) /\ Op(r) = "listen")
    /\ Running(job[r], At(r))' => Op(r) \in Starts \/ (Running(job[r], At(r)) /\ Op(r) # "reset")
    /\ Pressed(job[r], At(r))' <=> \/ Op(r) \in Presses
                                   \/ Pressed(job[r], At(r)) /\ Op(r) \notin Starts \cup {"arm_done"}
    /\ Pending(job[r], At(r))' <=> \/ Op(r) \in Presses
                                   \/ /\ Pending(job[r], At(r))
                                      /\ Op(r) \notin Starts \cup {"arm_done", "settled", "closed", "reset"}
    /\ Flying(job[r], At(r))' => Op(r) = "in_flight" \/ (Flying(job[r], At(r)) /\ Op(r) \notin Clears)
    /\ Booted(job[r], At(r))' => \/ Op(r) = "dhcp"
                                 \/ Booted(job[r], At(r)) /\ Op(r) \notin Starts \cup {"reset"}
    /\ Waited(job[r], At(r))' => Op(r) = "ended" \/ (Waited(job[r], At(r)) /\ Op(r) \notin Presses)
\* Before its first step nothing has been done.
Begun(r) ==
    /\ ~AfterEnable(job[r], At(r))' /\ ~JustReset(job[r], At(r))' /\ ~Running(job[r], At(r))'
    /\ ~Pressed(job[r], At(r))' /\ ~Pending(job[r], At(r))' /\ ~Flying(job[r], At(r))'
    /\ ~Booted(job[r], At(r))' /\ ~Waited(job[r], At(r))'

LEMMA BodyMoves ==
    ASSUME Placed, NEW r \in Rigs, pc[r].part # "end", job' = job, Moves(r), InBody(r)'
    PROVE  \/ pc'[r] = pc[r] /\ InBody(r)
           \/ Onward(r) /\ InBody(r) /\ pc'[r].i = pc[r].i + 1 /\ Stepped(r)
           \/ Onward(r) /\ pc[r].part = "pre" /\ pc'[r].i = 1 /\ Begun(r)
<1>1. /\ job[r] \in Kinds /\ pc[r].part \in Parts /\ pc[r].i \in Nat \ {0}
      /\ Part(r) = Script[job[r]][pc[r].part] /\ Len(Part(r)) \in Nat /\ pc[r].i \in 1 .. Len(Part(r))
    BY PlaceOf
<1>2. Op(r) = Script[job[r]][pc[r].part][pc[r].i][1]
    BY OpPlace
<1>3. CASE pc' = pc
    BY <1>3 DEF InBody
<1>4. CASE \E p \in {"fin", "late", "end"} : Goes(r, p)
    BY <1>4 DEF Goes, InBody, Placed
<1>5. CASE Onward(r)
  <2>1. pc'[r] = Succ(r) /\ job'[r] = job[r]
    BY <1>5 DEF Onward, Placed
  <2>2. CASE pc[r].i < Len(Part(r))
    <3>1. pc'[r] = [part |-> pc[r].part, i |-> pc[r].i + 1]
      BY <2>1, <2>2 DEF Succ
    <3>2. InBody(r) /\ pc'[r].i = pc[r].i + 1
      BY <3>1 DEF InBody
    <3>3. Op(r) = Body(job[r])[pc[r].i][1]
      BY <1>2, <3>2 DEF InBody, Body
    <3>4. \A S, T : Since(Body(job[r]), pc[r].i + 1, S, T)
                     <=> Op(r) \in S \/ (Since(Body(job[r]), pc[r].i, S, T) /\ Op(r) \notin T)
      BY <1>1, <3>3, SinceNext
    <3>5. JustReset(job[r], pc[r].i + 1) <=> \/ Op(r) = "reset"
                                             \/ JustReset(job[r], pc[r].i) /\ Op(r) = "listen"
      BY <1>1, <3>3, JustResetNext
    <3>6. Stepped(r)
      <4>1. At(r)' = pc[r].i + 1 /\ At(r) = pc[r].i
        BY <3>2 DEF At
      <4>2. AfterEnable(job[r], At(r))' => Op(r) = "enable" \/ AfterEnable(job[r], At(r))
        BY <2>1, <3>4, <4>1 DEF AfterEnable
      <4>3. Running(job[r], At(r))' => Op(r) \in Starts \/ (Running(job[r], At(r)) /\ Op(r) # "reset")
        BY <2>1, <3>4, <4>1 DEF Running
      <4>4. Pressed(job[r], At(r))' <=>
              \/ Op(r) \in Presses
              \/ Pressed(job[r], At(r)) /\ Op(r) \notin Starts \cup {"arm_done"}
        BY <2>1, <3>4, <4>1 DEF Pressed
      <4>5. Pending(job[r], At(r))' <=>
              \/ Op(r) \in Presses
              \/ /\ Pending(job[r], At(r))
                 /\ Op(r) \notin Starts \cup {"arm_done", "settled", "closed", "reset"}
        BY <2>1, <3>4, <4>1 DEF Pending
      <4>6. Flying(job[r], At(r))' => Op(r) = "in_flight" \/ (Flying(job[r], At(r)) /\ Op(r) \notin Clears)
        BY <2>1, <3>4, <4>1 DEF Flying
      <4>7. JustReset(job[r], At(r))' => Op(r) = "reset" \/ (JustReset(job[r], At(r)) /\ Op(r) = "listen")
        BY <2>1, <3>5, <4>1
      <4>8. Booted(job[r], At(r))' => \/ Op(r) = "dhcp"
                                      \/ Booted(job[r], At(r)) /\ Op(r) \notin Starts \cup {"reset"}
        BY <2>1, <3>4, <4>1 DEF Booted
      <4>9. Waited(job[r], At(r))' => Op(r) = "ended" \/ (Waited(job[r], At(r)) /\ Op(r) \notin Presses)
        BY <2>1, <3>4, <4>1 DEF Waited
      <4> QED BY <4>2, <4>3, <4>4, <4>5, <4>6, <4>7, <4>8, <4>9 DEF Stepped
    <3> QED BY <1>5, <3>2, <3>6
  <2>3. CASE ~(pc[r].i < Len(Part(r)))
    <3>1. pc[r].part = "pre" /\ pc'[r].i = 1
      BY <1>1, <2>1, <2>3 DEF Succ, InBody, Parts
    <3>2. Begun(r)
      <4>1. \A S, T : ~Since(Body(job[r]), 1, S, T)
        BY <1>1, SinceNext, Zenon
      <4>2. ~JustReset(job[r], 1)
        BY <1>1, JustResetNext
      <4>3. At(r)' = 1
        BY <3>1 DEF At
      <4> QED BY <2>1, <4>1, <4>2, <4>3 DEF Begun, AfterEnable, Running, Pressed, Pending, Flying, Booted, Waited
    <3> QED BY <1>5, <3>1, <3>2
  <2> QED BY <2>2, <2>3
<1> QED BY <1>3, <1>4, <1>5 DEF Moves, Departs

\* What a process takes along to its next step.
Carry(r, me) ==
    /\ \A q \in Rigs \ {r} : rig'[q] = rig[q]
    /\ pc'[r].part = "end" => /\ rig'[r].fif = FALSE /\ rig'[r].warned = me.warned
                              /\ rig'[r].killed = me.killed
    /\ pc'[r].part # "end" => /\ rig'[r].fif = me.fif /\ rig'[r].warned = me.warned
                              /\ rig'[r].killed = me.killed /\ rig'[r].seen = me.seen
                              /\ rig'[r].store = me.store

LEMMA CarryGoTo ==
    ASSUME Placed, NEW r \in Rigs, NEW me \in MeType, NEW c \in Int,
           NEW p \in {"body", "late", "fin", "end"}, GoTo(r, p, [me EXCEPT !.rc = c]) \/ GoTo(r, p, me)
    PROVE  Carry(r, me) /\ pc'[r].part = p
<1>1. PICK m \in MeType : /\ m.fif = me.fif /\ m.warned = me.warned /\ m.killed = me.killed
                          /\ m.seen = me.seen /\ m.store = me.store /\ GoTo(r, p, m)
  <2>1. [me EXCEPT !.rc = c] \in MeType
    BY DEF MeType
  <2>2. /\ [me EXCEPT !.rc = c].fif = me.fif /\ [me EXCEPT !.rc = c].warned = me.warned
        /\ [me EXCEPT !.rc = c].killed = me.killed /\ [me EXCEPT !.rc = c].seen = me.seen
        /\ [me EXCEPT !.rc = c].store = me.store
    BY DEF MeType
  <2> QED BY <2>1, <2>2
<1>2. pc'[r].part = p /\ rig'[r] = Kept(p, m) /\ \A q \in Rigs \ {r} : rig'[q] = rig[q]
    BY <1>1 DEF GoTo, Placed
<1>3. CASE p \in {"body", "late"}
    BY <1>1, <1>2, <1>3 DEF Carry, Kept
<1>4. CASE p = "fin"
  <2>1. rig'[r] = [m EXCEPT !.bad = FALSE, !.tries = 0, !.nth = 0]
    BY <1>2, <1>4 DEF Kept
  <2>2. /\ rig'[r].fif = m.fif /\ rig'[r].warned = m.warned /\ rig'[r].killed = m.killed
        /\ rig'[r].seen = m.seen /\ rig'[r].store = m.store
    BY <2>1 DEF MeType
  <2> QED BY <1>1, <1>2, <1>4, <2>2 DEF Carry
<1>5. CASE p = "end"
  <2>1. rig'[r] = [Fresh EXCEPT !.rc = IF m.rc = 0 THEN 0 ELSE 1, !.warned = m.warned, !.killed = m.killed]
    BY <1>2, <1>5 DEF Kept
  <2>2. rig'[r].fif = FALSE /\ rig'[r].warned = m.warned /\ rig'[r].killed = m.killed
    BY <2>1 DEF Fresh
  <2> QED BY <1>1, <1>2, <1>5, <2>2 DEF Carry
<1> QED BY <1>3, <1>4, <1>5

LEMMA CarryAdvance ==
    ASSUME Placed, NEW r \in Rigs, pc[r].part # "end", NEW me \in MeType, Advance(r, me)
    PROVE  Carry(r, me) /\ Onward(r)
<1>0. Onward(r)
    BY Advances
<1>1. Len(Part(r)) \in Nat /\ pc[r].i \in 1 .. Len(Part(r)) /\ pc[r].part \in Parts
    BY PlaceOf
<1>2. CASE pc[r].i < Len(Part(r))
  <2>1. pc[r].i # Len(Part(r))
    BY <1>1, <1>2
  <2>2. /\ pc' = [pc EXCEPT ![r] = [part |-> @.part, i |-> @.i + 1]]
        /\ rig' = [rig EXCEPT ![r] = me]
    BY <1>2, <2>1, Zenon DEF Advance
  <2>3. pc'[r].part # "end" /\ rig'[r] = me /\ \A q \in Rigs \ {r} : rig'[q] = rig[q]
    BY <2>2 DEF Placed
  <2> QED BY <1>0, <2>3 DEF Carry
<1>3. CASE pc[r].i = Len(Part(r))
  <2>1. ~(pc[r].i < Len(Part(r)))
    BY <1>1, <1>3
  <2>2. \E p \in {"body", "late", "fin", "end"}, c \in Int :
           GoTo(r, p, [me EXCEPT !.rc = c]) \/ GoTo(r, p, me)
    <3>1. CASE pc[r].part = "pre"
      <4>1. GoTo(r, "body", me)
        BY <1>3, <2>1, <3>1 DEF Advance
      <4> QED BY <4>1
    <3>2. CASE pc[r].part = "body"
      <4>1. GoTo(r, "fin", [me EXCEPT !.rc = IF me.bad THEN 1 ELSE 0])
        BY <1>3, <2>1, <3>2 DEF Advance
      <4> DEFINE c == IF me.bad THEN 1 ELSE 0
      <4>2. c \in Int /\ GoTo(r, "fin", [me EXCEPT !.rc = c])
        BY <4>1
      <4> HIDE DEF c
      <4> QED BY <4>2
    <3>3. CASE pc[r].part = "late"
      <4>1. GoTo(r, "fin", [me EXCEPT !.rc = 1])
        BY <1>3, <2>1, <3>3 DEF Advance
      <4> QED BY <4>1, SMTT(30)
    <3>4. CASE pc[r].part = "fin"
      <4>1. GoTo(r, "end", me)
        BY <1>3, <2>1, <3>4 DEF Advance
      <4> QED BY <4>1
    <3> QED BY <1>1, <3>1, <3>2, <3>3, <3>4 DEF Parts
  <2> QED BY <1>0, <2>2, CarryGoTo
<1> QED BY <1>1, <1>2, <1>3

LEMMA CarryLeave ==
    ASSUME Placed, NEW r \in Rigs, NEW me \in MeType, NEW c \in Int, Leave(r, me, c)
    PROVE  Carry(r, me) /\ pc'[r].part \in {"fin", "end"} /\ (Trying(r) => pc'[r].part = "fin")
<1>1. \/ Trying(r) /\ GoTo(r, "fin", [me EXCEPT !.rc = c])
      \/ ~Trying(r) /\ GoTo(r, "end", [me EXCEPT !.rc = c])
    BY DEF Leave
<1> QED BY <1>1, CarryGoTo

\* A step that fails is passed, with its code at most 0, or leaves the body.
LEMMA CarryLapse ==
    ASSUME Placed, NEW r \in Rigs, pc[r].part \in {"pre", "body", "late"}, NEW me \in MeType,
           Lapse(r, me)
    PROVE  /\ Carry(r, me)
           /\ \/ Onward(r) /\ Code(r) <= 0
              \/ pc'[r].part \in {"late", "fin"}
              \/ pc'[r].part = "end" /\ pc[r].part = "pre"
<1>0. pc[r].part # "end" /\ Code(r) \in Int
    BY OpPlace
<1>1. CASE Code(r) = Tallied
  <2>0. Code(r) # Ignored /\ ~(Code(r) > 0) /\ Code(r) <= 0
    BY <1>1 DEF Tallied, Ignored
  <2>1. Advance(r, [me EXCEPT !.bad = TRUE])
    BY <1>1, <2>0, Zenon DEF Lapse
  <2>2. [me EXCEPT !.bad = TRUE] \in MeType
    BY DEF MeType
  <2>3. Carry(r, [me EXCEPT !.bad = TRUE]) /\ Onward(r)
    BY <1>0, <2>1, <2>2, CarryAdvance
  <2>4. Carry(r, me)
    <3> DEFINE m == [me EXCEPT !.bad = TRUE]
    <3>1. /\ m.fif = me.fif /\ m.warned = me.warned /\ m.killed = me.killed /\ m.seen = me.seen
          /\ m.store = me.store
      BY DEF MeType
    <3> HIDE DEF m
    <3>2. Carry(r, m)
      BY <2>3 DEF m
    <3> QED BY <3>1, <3>2 DEF Carry
  <2> QED BY <2>0, <2>3, <2>4
<1>2. CASE Code(r) = Ignored
  <2>0. Code(r) # Tallied /\ ~(Code(r) > 0) /\ Code(r) <= 0
    BY <1>2 DEF Tallied, Ignored
  <2>1. Advance(r, me)
    BY <1>2, <2>0, Zenon DEF Lapse
  <2> QED BY <1>0, <2>0, <2>1, CarryAdvance
<1>3. CASE /\ Code(r) > 0 /\ pc[r].part = "body" /\ Op(r) \in {"sentinel", "body_stable"}
           /\ Script[job[r]].late # <<>>
  <2>0. Code(r) # Tallied /\ Code(r) # Ignored
    BY <1>0, <1>3 DEF Tallied, Ignored
  <2>1. GoTo(r, "late", me)
    BY <1>3, <2>0, Zenon DEF Lapse
  <2> QED BY <1>0, <2>1, CarryGoTo
<1>4. CASE /\ Code(r) # Tallied /\ Code(r) # Ignored
           /\ ~(/\ Code(r) > 0 /\ pc[r].part = "body" /\ Op(r) \in {"sentinel", "body_stable"}
                /\ Script[job[r]].late # <<>>)
  <2>1. Leave(r, me, Code(r))
    BY <1>4, Zenon DEF Lapse
  <2> QED BY <1>0, <2>1, CarryLeave DEF Trying
<1> QED BY <1>1, <1>2, <1>3, <1>4

-----------------------------------------------------------------------------
(* No socket is lost unannounced by a rig with one fetch per boot *)

Single(r) == job[r] \notin ManyFetches
\* r's program runs, and r will still look at it before it lets the device go.
Watched(r) == c64.prog = r /\ (InBody(r) \/ rig[r].fif)
\* r's program has a socket, or will open one unasked.
Live(r) == c64.prog = r /\ (c64.sock \/ c64.key \/ c64.ph = "dial")
Fetching == c64.ph \in {"tls", "recv", "viewer", "close"}
Silent == ~OnScreen("closed") /\ ~OnScreen("connfail") /\ ~OnScreen("tlsfail")
NotOpened == Tcp \in {"CLOSED", "unreadable"} /\ c64.ev = "no" /\ Silent
Bare == /\ c64.prog = NoRig /\ c64.ph = "basic" /\ ~c64.key /\ ~c64.q /\ ~c64.sock /\ ~c64.sent
        /\ ~c64.kept /\ c64.ev = "no" /\ c64.scr = <<>>

\* Of any rig: the command interface stays on while a fetch may need it, a fetch
\* noted as in flight is still to be guarded, and the body's places say what the
\* C64 runs.
Powered(r) == (InBody(r) /\ AfterEnable(job[r], At(r))) \/ rig[r].fif \/ Watched(r) => dev.uci
Aloft(r) == rig[r].fif => /\ Flies(job[r]) /\ pc[r].part \in {"body", "late", "fin"}
                          /\ pc[r].part = "fin" => ~Since(Fin(job[r]), At(r), Guards, {})
Unseen(r) == /\ pc[r].part \in {"pre", "body"} => ~rig[r].seen
             /\ pc[r].part # "end" => ~rig[r].killed
Runs(r) == InBody(r) => /\ Running(job[r], At(r)) => c64.prog = r
                        /\ JustReset(job[r], At(r)) => Bare
General(r) == Powered(r) /\ Aloft(r) /\ Unseen(r) /\ Runs(r)

\* A failed handshake of m3_ab's 6510-TLS build, taken for closed while net_tcp_close
\* may still be at work, and in the body about to be judged.
Excused(r) == /\ job[r] = "m3_ab" /\ c64.prog = r /\ c64.out = "refused"
              /\ c64.ph \in {"close", "ready", "basic"} /\ ~c64.key
Hanging(r) == Excused(r) /\ Body(job[r])[At(r)][1] = "judge_closed"

\* Of a rig with one fetch per boot: how far its program may be, by its place.
Unasked(r) == c64.prog = r => ~c64.kept /\ c64.ph # "asking"
Announced(r) == Live(r) => rig[r].fif \/ rig[r].warned \/ rig[r].killed \/ Excused(r)
Course(r) ==
    Watched(r) =>
        /\ c64.sock => Fetching
        /\ Fetching => /\ ~c64.key /\ ~c64.sent /\ c64.tcp # "CONNECT_FAIL"
                       /\ c64.tcp = "CLOSED" => ~c64.sock
                       /\ ~OnScreen("closed") /\ ~OnScreen("connfail")
        /\ c64.key \/ c64.ph = "dial" => ~c64.sent /\ NotOpened /\ ~rig[r].seen
        /\ c64.ph = "dial" => ~c64.key
        /\ c64.key => c64.ph \in {"boot", "ready"}
        /\ c64.sent => c64.ph = "ready" /\ ~c64.key /\ job[r] \in Routine
        /\ job[r] \in Routine => Silent /\ ~c64.q
        /\ job[r] \in PlainTcp \ NoCrypto => c64.ev = "no" /\ c64.ph # "tls"
        /\ Fetching /\ OnScreen("tlsfail") => c64.ph = "close" /\ c64.out = "refused"
        /\ job[r] \in NoCrypto \ {"m3_ab"} =>
             c64.ph # "tls" /\ ~(Fetching /\ OnScreen("tlsfail"))
Before(r) ==
    InBody(r) /\ c64.prog = r /\ ~Pressed(job[r], At(r)) =>
        c64.ph \in {"boot", "ready"} /\ ~c64.key /\ ~c64.q /\ ~c64.sock /\ NotOpened
After(r) ==
    InBody(r) =>
        /\ ~Pending(job[r], At(r)) => ~Live(r) \/ Hanging(r)
        /\ Flying(job[r], At(r)) => rig[r].fif
        /\ Booted(job[r], At(r)) /\ c64.prog = r =>
             c64.ph # "boot" /\ (Waited(job[r], At(r)) => ~c64.key)
Solo(r) == Unasked(r) /\ Announced(r) /\ Course(r) /\ Before(r) /\ After(r)

PoisonInv ==
    /\ MachineInv /\ NoSilentPoison
    /\ c64.prog = NoRig => c64.ph = "basic" /\ ~c64.sock
    /\ \A r \in Rigs : General(r) /\ (Single(r) => Solo(r))

\* What the scripts promise about the step r is at.
Promised(r) ==
    /\ Op(r) \in Starts => JustReset(job[r], At(r)) /\ AfterEnable(job[r], At(r)) /\ Code(r) > 0
    /\ Op(r) \in Presses => Running(job[r], At(r)) /\ AfterEnable(job[r], At(r))
    /\ Op(r) \in {"in_flight", "terminal"} => AfterEnable(job[r], At(r)) /\ Flies(job[r])
    /\ Op(r) = "arm_done" => job[r] \in PlainTcp \ NoCrypto /\ "park" \notin Calls[job[r]]
    /\ Single(r) =>
         /\ Op(r) \notin {"terminal", "settled_after"}
         /\ Op(r) \in Presses \cup {"dhcp"} => ~Pressed(job[r], At(r))
         /\ Op(r) \in {"reset", "landed"} => ~Pending(job[r], At(r))
         /\ Op(r) = "press_g" => Flying(job[r], At(r))
         /\ Op(r) = "press_q" => Pressed(job[r], At(r))
         /\ Op(r) = "settled_now" => Booted(job[r], At(r)) /\ Waited(job[r], At(r))
         /\ Op(r) = "judge_reu" => JustReset(job[r], At(r))
         /\ Op(r) \in {"arm_done", "settled", "dhcp"} => Code(r) > 0
         /\ Op(r) = "closed" => Code(r) > 0 \/ pc[r].i = Len(Part(r))
         /\ Op(r) \in {"settled", "viewer"} => job[r] \in NoCrypto
         /\ job[r] = "m3_ab" /\ Op(r) = "settled" => Body(job[r])[At(r) + 1][1] = "judge_closed"
         /\ Op(r) = "judge_closed" => Code(r) > 0

LEMMA BodyPromise ==
    ASSUME Placed, NEW r \in Rigs, InBody(r)
    PROVE  Promised(r)
<1> DEFINE k == job[r]
           i == pc[r].i
<1>1. pc[r].part = "body" /\ pc[r].part # "end"
    BY DEF InBody
<1>2. k \in Kinds /\ Part(r) = Body(k) /\ i \in 1 .. Len(Body(k)) /\ At(r) = i
    BY <1>1, PlaceOf DEF Body, At
<1>3. Op(r) = Body(k)[i][1] /\ Code(r) = Body(k)[i][2]
    BY <1>1, <1>2, OpPlace DEF Body, Code
<1>4. Op(r) \in Steps(k, "body")
    BY <1>1, <1>2, <1>3 DEF Steps, Body
<1>5. /\ \A j \in 1 .. Len(Body(k)) :
              /\ Body(k)[j][1] \in Starts => JustReset(k, j) /\ AfterEnable(k, j) /\ Body(k)[j][2] > 0
              /\ Body(k)[j][1] \in Presses => Running(k, j) /\ AfterEnable(k, j)
              /\ Body(k)[j][1] \in {"in_flight", "terminal"} => AfterEnable(k, j) /\ Flies(k)
      /\ "arm_done" \in Steps(k, "body") => k \in PlainTcp \ NoCrypto /\ "park" \notin Calls[k]
      /\ k \notin ManyFetches => \A j \in 1 .. Len(Body(k)) :
              /\ Body(k)[j][1] \notin {"terminal", "settled_after"}
              /\ Body(k)[j][1] \in Presses \cup {"dhcp"} => ~Pressed(k, j)
              /\ Body(k)[j][1] \in {"reset", "landed"} => ~Pending(k, j)
              /\ Body(k)[j][1] = "press_g" => Flying(k, j)
              /\ Body(k)[j][1] = "press_q" => Pressed(k, j)
              /\ Body(k)[j][1] = "settled_now" => Booted(k, j) /\ Waited(k, j)
              /\ Body(k)[j][1] = "judge_reu" => JustReset(k, j)
              /\ Body(k)[j][1] \in {"arm_done", "settled", "dhcp"} => Body(k)[j][2] > 0
              /\ Body(k)[j][1] = "closed" => Body(k)[j][2] > 0 \/ j = Len(Body(k))
              /\ Body(k)[j][1] \in {"settled", "viewer"} => k \in NoCrypto
              /\ k = "m3_ab" /\ Body(k)[j][1] = "settled" => Body(k)[j + 1][1] = "judge_closed"
              /\ Body(k)[j][1] = "judge_closed" => Body(k)[j][2] > 0
    BY <1>2, FetchShape
<1>6. /\ Op(r) \in Starts => JustReset(k, i) /\ AfterEnable(k, i) /\ Code(r) > 0
      /\ Op(r) \in Presses => Running(k, i) /\ AfterEnable(k, i)
      /\ Op(r) \in {"in_flight", "terminal"} => AfterEnable(k, i) /\ Flies(k)
      /\ Op(r) = "arm_done" => k \in PlainTcp \ NoCrypto /\ "park" \notin Calls[k]
    BY <1>2, <1>3, <1>4, <1>5
<1>7. Single(r) =>
         /\ Op(r) \notin {"terminal", "settled_after"}
         /\ Op(r) \in Presses \cup {"dhcp"} => ~Pressed(k, i)
         /\ Op(r) \in {"reset", "landed"} => ~Pending(k, i)
         /\ Op(r) = "press_g" => Flying(k, i)
         /\ Op(r) = "press_q" => Pressed(k, i)
         /\ Op(r) = "settled_now" => Booted(k, i) /\ Waited(k, i)
         /\ Op(r) = "judge_reu" => JustReset(k, i)
         /\ Op(r) \in {"arm_done", "settled", "dhcp"} => Code(r) > 0
         /\ Op(r) = "closed" => Code(r) > 0 \/ i = Len(Part(r))
         /\ Op(r) \in {"settled", "viewer"} => k \in NoCrypto
         /\ k = "m3_ab" /\ Op(r) = "settled" => Body(k)[i + 1][1] = "judge_closed"
         /\ Op(r) = "judge_closed" => Code(r) > 0
    BY <1>2, <1>3, <1>5 DEF Single
<1> QED BY <1>2, <1>6, <1>7 DEF Promised

LEMMA BodyOp ==
    ASSUME Placed, NEW r \in Rigs, InBody(r)
    PROVE  Body(job[r])[At(r)][1] = Op(r)
BY OpPlace, PlaceOf DEF InBody, Body, At

LEMMA OpWhere ==
    ASSUME Placed, NEW r \in Rigs, pc[r].part # "end"
    PROVE  /\ Op(r) \notin Checks \cup Judges \cup Tidying \cup {"lock", "orphan"} => InBody(r)
           /\ Op(r) \in Guards => pc[r].part \in {"late", "fin"}
           /\ Op(r) = "orphan" => pc[r].part = "late"
           /\ pc[r].part = "late" => Op(r) \in Guards \cup {"orphan"}
           /\ Op(r) \in {"disable", "disable_always"} => pc[r].part = "fin"
           /\ Op(r) = "reset" => InBody(r) \/ (pc[r].part = "fin" /\ ~Flies(job[r]))
           /\ Op(r) \in Judges => pc[r].part \in {"body", "fin"}
           /\ Op(r) = "judge_reu" => InBody(r)
           /\ Op(r) \in Presses \cup {"in_flight"} => Flies(job[r])
           /\ Op(r) \in {"press_g", "press_q", "viewer", "ended", "guard_tls_q"} => job[r] \notin Routine
<1> DEFINE k == job[r]
<1>1. /\ k \in Kinds /\ pc[r].part \in Parts /\ pc[r].i \in 1 .. Len(Script[k][pc[r].part])
    BY PlaceOf
<1>2. /\ Op(r) = Script[k][pc[r].part][pc[r].i][1]
      /\ pc[r].part = "pre" => Op(r) \in Checks \cup {"lock"}
      /\ pc[r].part = "fin" => Op(r) \in Tidying \cup Judges
    BY OpPlace, SMTT(30)
<1>3. Op(r) \in Steps(k, pc[r].part)
    BY <1>1, <1>2 DEF Steps
<1>4. /\ Steps(k, "late") \subseteq Guards \cup {"orphan"}
      /\ (Guards \cup {"orphan", "disable", "disable_always"}) \cap Steps(k, "body") = {}
      /\ "reset" \in Steps(k, "fin") => ~Flies(k)
      /\ "judge_reu" \notin Steps(k, "fin")
      /\ k \in Routine => \A p \in Parts :
              Steps(k, p) \cap {"press_g", "press_q", "viewer", "ended", "guard_tls_q"} = {}
    BY <1>1, FetchShape
<1>5. pc[r].part \in {"pre", "body", "late", "fin"}
    BY <1>1 DEF Parts
<1>6. pc[r].part = "late" => Op(r) \in Guards \cup {"orphan"}
    BY <1>3, <1>4
<1>7. pc[r].part = "body" => Op(r) \notin Guards \cup {"orphan", "disable", "disable_always"}
    BY <1>3, <1>4
<1>8. Op(r) \in {"press_g", "press_q", "viewer", "ended", "guard_tls_q"} => k \notin Routine
    BY <1>1, <1>3, <1>4
<1>9. Guards \subseteq Tidying
    BY SMTT(30) DEF Tidying
<1>10. Op(r) \notin Checks \cup Judges \cup Tidying \cup {"lock", "orphan"} => InBody(r)
    BY <1>2, <1>5, <1>6, <1>9 DEF InBody
<1>11. Op(r) \in Presses \cup {"in_flight"} => Flies(k)
  <2>1. Op(r) \in Presses \cup {"in_flight"} => InBody(r)
    BY <1>10, SMTT(30) DEF Presses, Checks, Judges, Tidying, Guards
  <2> QED BY <1>3, <2>1 DEF Flies, InBody
<1>12. Op(r) \in Guards => pc[r].part \in {"late", "fin"}
    BY <1>2, <1>5, <1>7 DEF Guards, Checks
<1>13. Op(r) = "orphan" => pc[r].part = "late"
    BY <1>2, <1>5, <1>7, SMTT(30) DEF Checks, Tidying, Guards, Judges
<1>14. Op(r) \in {"disable", "disable_always"} => pc[r].part = "fin"
    BY <1>2, <1>5, <1>6, <1>7 DEF Checks, Guards
<1>15. Op(r) = "reset" => InBody(r) \/ (pc[r].part = "fin" /\ ~Flies(k))
    BY <1>2, <1>3, <1>4, <1>5, <1>6, SMTT(30) DEF Checks, Guards, InBody
<1>16. Op(r) \in Judges => pc[r].part \in {"body", "fin"}
    BY <1>2, <1>5, <1>6 DEF Checks, Guards, Judges
<1>17. Op(r) = "judge_reu" => InBody(r)
    BY <1>2, <1>3, <1>4, <1>5, <1>6 DEF Checks, Guards, InBody
<1> QED BY <1>6, <1>8, <1>10, <1>11, <1>12, <1>13, <1>14, <1>15, <1>16, <1>17

\* A fetch in flight: its rig has the lock, and has not reached the steps that
\* come after the guard.
LEMMA AloftLock ==
    ASSUME Placed, NEW r \in Rigs, Aloft(r), rig[r].fif
    PROVE  /\ HasLock(r)
           /\ pc[r].part = "fin" => /\ Op(r) \notin {"disable", "disable_always", "release"}
                                    /\ pc[r].i < Len(Part(r))
<1> DEFINE k == job[r]
           i == pc[r].i
<1>1. Flies(k) /\ pc[r].part \in {"body", "late", "fin"} /\ pc[r].part # "end"
    BY DEF Aloft
<1>2. CASE pc[r].part # "fin"
    BY <1>1, <1>2 DEF HasLock
<1>3. CASE pc[r].part = "fin"
  <2>1. k \in Kinds /\ Part(r) = Fin(k) /\ i \in 1 .. Len(Fin(k)) /\ At(r) = i /\ Len(Fin(k)) \in Nat
    BY <1>1, <1>3, PlaceOf DEF Fin, At
  <2>2. Op(r) = Fin(k)[i][1]
    BY <1>1, <1>3, OpPlace DEF Fin
  <2>3. ~Since(Fin(k), i, Guards, {})
    BY <1>3, <2>1 DEF Aloft
  <2>4. \A j \in 1 .. Len(Fin(k)) :
            Fin(k)[j][1] \in {"disable", "disable_always", "release"} => Since(Fin(k), j, Guards, {})
    BY <1>1, <2>1, FetchShape
  <2>5. ASSUME NEW j \in 1 .. i, Since(Fin(k), j, Guards, {}) PROVE FALSE
    <3>1. PICK m \in 1 .. j - 1 : Fin(k)[m][1] \in Guards
      BY <2>5 DEF Since
    <3>2. m \in 1 .. i - 1
      BY <2>1, <2>5, <3>1
    <3> QED BY <2>3, <3>1, <3>2 DEF Since
  <2>6. \A j \in 1 .. i : Fin(k)[j][1] \notin {"disable", "disable_always", "release"}
    BY <2>1, <2>4, <2>5
  <2>7. Op(r) \notin {"disable", "disable_always", "release"}
    BY <2>1, <2>2, <2>6
  <2>8. HasLock(r)
    <3>1. \A j \in 1 .. i - 1 : Script[k]["fin"][j][1] # "release"
      BY <2>1, <2>6 DEF Fin
    <3> QED BY <1>3, <3>1 DEF HasLock
  <2>9. i # Len(Fin(k))
    <3>1. "release" \in Steps(k, "fin")
      BY <2>1, ScriptShape
    <3>2. PICK j \in 1 .. Len(Fin(k)) : Fin(k)[j][1] = "release"
      BY <3>1 DEF Steps, Fin
    <3> QED BY <2>6, <3>2
  <2> QED BY <2>1, <2>7, <2>8, <2>9
<1> QED BY <1>2, <1>3

LEMMA AloftNext ==
    ASSUME Placed, NEW r \in Rigs, pc[r].part # "end", Aloft(r), job' = job, Moves(r),
           rig'[r].fif => /\ rig[r].fif \/ (InBody(r) /\ Flies(job[r]))
                          /\ pc'[r].part # "end" /\ (Onward(r) => Op(r) \notin Guards)
    PROVE  Aloft(r)'
<1> SUFFICES ASSUME rig'[r].fif
             PROVE  /\ Flies(job[r]) /\ pc'[r].part \in {"body", "late", "fin"}
                    /\ pc'[r].part = "fin" => ~Since(Fin(job[r]), pc'[r].i, Guards, {})
    BY DEF Aloft, At
<1>1. Flies(job[r]) /\ pc[r].part \in {"body", "late", "fin"}
    BY DEF Aloft, InBody
<1>2. pc[r].part = "fin" => ~Since(Fin(job[r]), pc[r].i, Guards, {})
    BY DEF Aloft, InBody, At
<1>3. ~Since(Fin(job[r]), 1, Guards, {}) /\ pc[r].i \in Nat \ {0}
    BY SinceNext, PlaceOf
<1>4. CASE pc' = pc
    BY <1>1, <1>2, <1>4
<1>5. CASE \E p \in {"fin", "late", "end"} : Goes(r, p)
  <2>1. pc'[r].part \in {"fin", "late"} /\ pc'[r].i = 1
    BY <1>5 DEF Goes, Placed
  <2> QED BY <1>1, <1>3, <2>1
<1>6. CASE Onward(r)
  <2>1. pc'[r] = Succ(r)
    BY <1>6 DEF Onward, Placed
  <2>2. CASE pc[r].i < Len(Part(r))
    <3>1. pc'[r].part = pc[r].part /\ pc'[r].i = pc[r].i + 1
      BY <2>1, <2>2 DEF Succ
    <3>2. pc[r].part = "fin" => Op(r) = Fin(job[r])[pc[r].i][1]
      BY OpPlace DEF Fin
    <3> QED BY <1>1, <1>2, <1>3, <1>6, <3>1, <3>2, SinceNext
  <2>3. CASE ~(pc[r].i < Len(Part(r)))
    <3>1. pc'[r].part \in {"fin", "end"} /\ pc'[r].i = 1
      BY <1>1, <2>1, <2>3 DEF Succ
    <3> QED BY <1>1, <1>3, <3>1
  <2> QED BY <2>2, <2>3
<1> QED BY <1>4, <1>5, <1>6 DEF Moves, Departs

\* What a step of r may do to its fetch and the C64.  Most steps at most look.
Mild(r) ==
    /\ c64'.ph = c64.ph /\ c64'.prog = c64.prog /\ c64'.key = c64.key /\ c64'.sock = c64.sock
    /\ c64'.tcp = c64.tcp /\ c64'.ev = c64.ev /\ c64'.sent = c64.sent /\ c64'.kept = c64.kept
    /\ c64'.out = c64.out
    /\ c64'.scr = c64.scr \/ c64'.scr = <<>>
    /\ \/ c64'.q = c64.q
       \/ job[r] \notin Routine /\ (InBody(r)' => (Op(r) = "press_q" /\ Onward(r)) \/ c64.ph = "viewer")
\* What r saw that lets it take the fetch for over.
Shows(r) ==
    \/ ~Single(r) \/ c64.sent \/ OnScreen("closed") \/ Op(r) \in {"landed", "judge_reu"}
    \/ OnScreen("tlsfail") /\ job[r] \in NoCrypto
    \/ Op(r) = "settled_now" /\ c64.ph = "ready"
    \/ rig[r].fif /\ ProbeClosed(rig[r].seen \/ TlsRan)
\* What lets r go on to the next step of its body.
Passes(r) ==
    /\ Op(r) \notin {"reset"} \cup Starts \cup Presses
    /\ Op(r) = "enable" => dev'.uci
    /\ Op(r) = "in_flight" => rig'[r].fif
    /\ Op(r) = "arm_done" => c64.sent \/ Code(r) <= 0
    /\ Op(r) = "settled" => Ending(ToSet(c64.scr)) \/ Code(r) <= 0
    /\ Op(r) \in {"closed", "judge_closed"} => OnScreen("closed") \/ Code(r) <= 0
    /\ Op(r) = "dhcp" => c64.ph = "ready" \/ Code(r) <= 0
    /\ Op(r) = "ended" => ~(c64.ph = "ready" /\ c64.key) \/ OnScreen("closed")
Going(r) ==
    /\ Onward(r) /\ InBody(r)' => Passes(r)
    /\ Onward(r) /\ Op(r) \in Guards => ~rig'[r].fif
    /\ pc'[r].part = "end" => ~rig'[r].fif /\ (pc[r].part = "pre" \/ Onward(r))
Looks(r) ==
    /\ Mild(r) /\ (dev'.uci = dev.uci \/ dev'.uci) /\ untold' = untold /\ Going(r)
    /\ rig'[r].killed = rig[r].killed /\ (rig'[r].warned = rig[r].warned \/ rig'[r].warned)
    /\ \/ rig'[r].fif = rig[r].fif
       \/ /\ InBody(r) /\ pc'[r].part # "end"
          /\ Op(r) = "terminal" \/ (Op(r) = "in_flight" /\ rig'[r].fif)
       \/ /\ ~rig'[r].fif /\ (rig'[r].warned \/ Shows(r) \/ pc'[r].part = "end")
          /\ InBody(r)' => Onward(r) /\ Op(r) \in Clears
    /\ \/ rig'[r].seen = rig[r].seen
       \/ pc'[r].part \notin {"pre", "body"} /\ (pc'[r].part = "end" \/ (rig'[r].seen => ProbeOpen))
\* The others turn the command interface off, reset the C64, start a program,
\* press a key, or end the process in its finally clause.
Told(r) == /\ pc'[r].part = "end" => ~rig'[r].fif
           /\ pc'[r].part # "end" => rig'[r].fif = rig[r].fif /\ rig'[r].seen = rig[r].seen
           /\ rig'[r].warned = rig[r].warned /\ rig'[r].killed = rig[r].killed
Disables(r) == /\ Op(r) \in {"disable", "disable_always"} /\ Onward(r) /\ Told(r)
               /\ c64' = c64 /\ untold' = untold
Resets(r) == /\ Op(r) = "reset" \/ (Op(r) = "orphan" /\ rig[r].warned)
             /\ Onward(r) /\ Told(r) /\ ResetEffect
Boots(r) == /\ Op(r) \in Starts /\ Onward(r) /\ Told(r) /\ dev' = dev /\ untold' = untold
            /\ c64'.ph = "boot" /\ c64'.prog = r /\ c64'.key = c64.key /\ c64'.sock = c64.sock
            /\ c64'.ev = c64.ev /\ c64'.sent = c64.sent
            /\ c64'.kept = c64.kept /\ c64'.scr = c64.scr /\ c64'.q = c64.q
Asks(r) == /\ Op(r) \in Presses /\ Onward(r) /\ dev' = dev /\ untold' = untold
           /\ c64'.ph = c64.ph /\ c64'.prog = c64.prog /\ c64'.key /\ c64'.sock = c64.sock
           /\ c64'.tcp = c64.tcp /\ c64'.ev = c64.ev /\ c64'.kept = c64.kept
           /\ c64'.scr = c64.scr /\ c64'.q = c64.q
           /\ ~c64'.sent \/ (c64'.sent = c64.sent /\ Op(r) = "press_g")
           /\ rig'[r].warned = rig[r].warned /\ rig'[r].killed = rig[r].killed
           /\ rig'[r].seen = rig[r].seen
           /\ rig'[r].fif \/ (rig'[r].fif = rig[r].fif /\ Op(r) = "press_g")
Dies(r) == /\ pc[r].part = "fin" /\ pc'[r].part = "end" /\ dev' = dev /\ untold' = untold /\ c64' = c64
           /\ ~rig'[r].fif /\ rig'[r].warned = rig[r].warned /\ rig'[r].killed = rig[r].fif

LEMMA MeCarries ==
    ASSUME NEW m \in MeType, NEW b \in BOOLEAN, NEW n \in Nat, NEW c \in Int, NEW r \in Rigs
    PROVE  /\ Carry(r, [m EXCEPT !.uci = b]) => Carry(r, m)
           /\ Carry(r, [m EXCEPT !.rc = c]) => Carry(r, m)
           /\ Carry(r, [m EXCEPT !.tries = n]) => Carry(r, m)
           /\ Carry(r, [m EXCEPT !.nth = n]) => Carry(r, m)
           /\ Carry(r, [m EXCEPT !.fif = b, !.nth = n]) => Carry(r, [m EXCEPT !.fif = b])
           /\ Carry(r, [m EXCEPT !.fif = b, !.keep = TRUE, !.warned = TRUE])
                => Carry(r, [m EXCEPT !.fif = b, !.warned = TRUE])
<1>1. /\ [m EXCEPT !.uci = b].fif = m.fif /\ [m EXCEPT !.uci = b].warned = m.warned
      /\ [m EXCEPT !.uci = b].killed = m.killed /\ [m EXCEPT !.uci = b].seen = m.seen
      /\ [m EXCEPT !.uci = b].store = m.store
    BY DEF MeType
<1>2. /\ [m EXCEPT !.rc = c].fif = m.fif /\ [m EXCEPT !.rc = c].warned = m.warned
      /\ [m EXCEPT !.rc = c].killed = m.killed /\ [m EXCEPT !.rc = c].seen = m.seen
      /\ [m EXCEPT !.rc = c].store = m.store
    BY DEF MeType
<1>3. /\ [m EXCEPT !.tries = n].fif = m.fif /\ [m EXCEPT !.tries = n].warned = m.warned
      /\ [m EXCEPT !.tries = n].killed = m.killed /\ [m EXCEPT !.tries = n].seen = m.seen
      /\ [m EXCEPT !.tries = n].store = m.store
    BY DEF MeType
<1>4. /\ [m EXCEPT !.nth = n].fif = m.fif /\ [m EXCEPT !.nth = n].warned = m.warned
      /\ [m EXCEPT !.nth = n].killed = m.killed /\ [m EXCEPT !.nth = n].seen = m.seen
      /\ [m EXCEPT !.nth = n].store = m.store
    BY DEF MeType
<1>5. ASSUME NEW a, NEW e, a.fif = e.fif, a.warned = e.warned, a.killed = e.killed, a.seen = e.seen,
             a.store = e.store, Carry(r, a)
      PROVE  Carry(r, e)
    BY <1>5 DEF Carry
<1>6. Carry(r, [m EXCEPT !.fif = b, !.nth = n]) => Carry(r, [m EXCEPT !.fif = b])
  <2> DEFINE a == [m EXCEPT !.fif = b, !.nth = n]
             e == [m EXCEPT !.fif = b]
  <2>1. /\ a.fif = b /\ a.warned = m.warned /\ a.killed = m.killed /\ a.seen = m.seen /\ a.store = m.store
    BY DEF MeType
  <2>2. /\ e.fif = b /\ e.warned = m.warned /\ e.killed = m.killed /\ e.seen = m.seen /\ e.store = m.store
    BY DEF MeType
  <2> HIDE DEF a, e
  <2>3. Carry(r, a) => Carry(r, e)
    BY <1>5, <2>1, <2>2
  <2> QED BY <2>3 DEF a, e
<1>7. Carry(r, [m EXCEPT !.fif = b, !.keep = TRUE, !.warned = TRUE])
        => Carry(r, [m EXCEPT !.fif = b, !.warned = TRUE])
  <2> DEFINE a == [m EXCEPT !.fif = b, !.keep = TRUE, !.warned = TRUE]
             e == [m EXCEPT !.fif = b, !.warned = TRUE]
  <2>1. /\ a.fif = b /\ a.warned = TRUE /\ a.killed = m.killed /\ a.seen = m.seen /\ a.store = m.store
    BY DEF MeType
  <2>2. /\ e.fif = b /\ e.warned = TRUE /\ e.killed = m.killed /\ e.seen = m.seen /\ e.store = m.store
    BY DEF MeType
  <2> HIDE DEF a, e
  <2>3. Carry(r, a) => Carry(r, e)
    BY <1>5, <2>1, <2>2
  <2> QED BY <2>3 DEF a, e
<1>8. ASSUME NEW a, a.fif = m.fif, a.warned = m.warned, a.killed = m.killed, a.seen = m.seen,
             a.store = m.store
      PROVE  Carry(r, a) => Carry(r, m)
    BY <1>5, <1>8
<1>9. Carry(r, [m EXCEPT !.uci = b]) => Carry(r, m)
    BY <1>1, <1>8
<1>10. Carry(r, [m EXCEPT !.rc = c]) => Carry(r, m)
    BY <1>2, <1>8
<1>11. Carry(r, [m EXCEPT !.tries = n]) => Carry(r, m)
    BY <1>3, <1>8
<1>12. Carry(r, [m EXCEPT !.nth = n]) => Carry(r, m)
    BY <1>4, <1>8
<1> QED BY <1>6, <1>7, <1>9, <1>10, <1>11, <1>12

\* Steps at which r's place alone does not tell what it found.
Telling == {"enable", "reset", "in_flight", "arm_done", "settled", "closed", "dhcp", "ended",
            "judge_closed"}
           \cup Starts \cup Presses

LEMMA PlainLooks ==
    ASSUME Placed, NEW r \in Rigs, Carry(r, Me(r)), Mild(r), dev'.uci = dev.uci, untold' = untold,
           Op(r) \notin Guards, Onward(r) /\ InBody(r)' => Passes(r),
           pc'[r].part = "end" => pc[r].part = "pre" \/ Onward(r)
    PROVE  Looks(r)
<1>1. rig'[r].warned = rig[r].warned /\ rig'[r].killed = rig[r].killed
    BY DEF Carry, Me
<1>2. Going(r)
    BY DEF Going, Carry
<1>3. CASE pc'[r].part = "end"
  <2>1. ~rig'[r].fif /\ ~InBody(r)'
    BY <1>3 DEF Carry, InBody
  <2> QED BY <1>1, <1>2, <1>3, <2>1 DEF Looks
<1>4. CASE pc'[r].part # "end"
    BY <1>1, <1>2, <1>4 DEF Looks, Carry, Me
<1> QED BY <1>3, <1>4

LEMMA SameMild == ASSUME NEW r \in Rigs, c64' = c64 PROVE Mild(r)
BY DEF Mild

LEMMA CarryTold ==
    ASSUME NEW r \in Rigs, Carry(r, Me(r))
    PROVE  Told(r)
BY DEF Carry, Told, Me

LEMMA PlainPasses ==
    ASSUME NEW r \in Rigs, Op(r) \notin Telling
    PROVE  Passes(r)
BY DEF Passes, Telling

LEMMA RigShape ==
    ASSUME Placed, MachineType, NEW r \in Rigs, RigStep(r)
    PROVE  Looks(r) \/ Disables(r) \/ Resets(r) \/ Boots(r) \/ Asks(r) \/ Dies(r)
<1>0. /\ pc[r].part # "end" /\ dev \in DevType /\ c64 \in C64Type /\ Me(r) \in MeType /\ rig[r] = Me(r)
      /\ Code(r) \in Int
    BY RigMoves, OpPlace DEF MachineType, Placed, Me
<1>1. /\ pc[r].part \in {"pre", "body", "late", "fin"}
      /\ pc[r].part = "fin" => Op(r) \in Tidying \cup Judges
    BY <1>0, OpPlace, PlaceOf DEF Parts
<1>2. /\ Op(r) \notin Checks \cup Judges \cup Tidying \cup {"lock", "orphan"} => InBody(r)
      /\ Op(r) \in Guards => pc[r].part \in {"late", "fin"}
      /\ Op(r) \in {"press_g", "press_q", "viewer", "ended", "guard_tls_q"} => job[r] \notin Routine
    BY <1>0, OpWhere
\* A step without a trace.
<1>3. ASSUME NEW m \in MeType, Advance(r, m), Carry(r, m) => Carry(r, Me(r)), c64' = c64,
             dev'.uci = dev.uci, untold' = untold, Op(r) \notin Guards \cup Telling
      PROVE  Looks(r)
  <2>1. Carry(r, Me(r)) /\ Onward(r)
    BY <1>0, <1>3, CarryAdvance
  <2> QED BY <1>3, <2>1, PlainLooks, PlainPasses, SameMild
<1>4. ASSUME Lapse(r, Me(r)), c64' = c64, dev'.uci = dev.uci, untold' = untold, Op(r) \notin Guards,
             pc[r].part # "fin", Code(r) <= 0 => Passes(r)
      PROVE  Looks(r)
  <2>0. pc[r].part \in {"pre", "body", "late"}
    BY <1>1, <1>4
  <2>1. /\ Carry(r, Me(r))
        /\ \/ Onward(r) /\ Code(r) <= 0
           \/ pc'[r].part \in {"late", "fin"}
           \/ pc'[r].part = "end" /\ pc[r].part = "pre"
    BY <1>0, <1>4, <2>0, CarryLapse
  <2>2. Onward(r) /\ InBody(r)' => Passes(r)
    BY <1>4, <2>1 DEF InBody
  <2> QED BY <1>4, <2>1, <2>2, PlainLooks, SameMild
<1>5. ASSUME NEW m \in MeType, NEW c \in Int, Leave(r, m, c), Carry(r, m) => Carry(r, Me(r)), c64' = c64,
             dev'.uci = dev.uci, untold' = untold, Op(r) \notin Guards, pc[r].part # "fin"
      PROVE  Looks(r)
  <2>1. Carry(r, Me(r)) /\ pc'[r].part \in {"fin", "end"} /\ (Trying(r) => pc'[r].part = "fin")
    BY <1>5, CarryLeave
  <2>2. ~InBody(r)' /\ (pc'[r].part = "end" => pc[r].part = "pre")
    BY <1>1, <1>5, <2>1 DEF InBody, Trying
  <2> QED BY <1>5, <2>1, <2>2, PlainLooks, SameMild
<1>6. Carry(r, Me(r)) => Told(r)
    BY CarryTold
\* The lock, checks, listeners, files.
<1>11. CASE Acquire(r) \/ Release(r) \/ Persist(r) \/ PreflightReu(r) \/ RestoreDrive(r)
  <2>1. /\ Advance(r, Me(r)) /\ c64' = c64 /\ dev' = dev /\ untold' = untold
        /\ Op(r) \in {"lock", "release", "persist", "persist_raw", "preflight", "restore"}
    BY <1>11 DEF Acquire, Release, Persist, PreflightReu, RestoreDrive
  <2>2. Op(r) \notin Guards \cup Telling
    BY <2>1 DEF Guards, Telling, Starts, Presses
  <2> QED BY <1>0, <1>3, <2>1, <2>2
<1>12. CASE AcquireTimesOut(r) \/ BadLockTimeout(r)
  <2>1. PICK c \in Int : GoTo(r, "end", [Me(r) EXCEPT !.rc = c])
    BY <1>0, <1>12 DEF AcquireTimesOut, BadLockTimeout
  <2>2. Op(r) = "lock" /\ c64' = c64 /\ dev' = dev /\ untold' = untold
    BY <1>12 DEF AcquireTimesOut, BadLockTimeout
  <2>3. Carry(r, Me(r)) /\ pc'[r].part = "end"
    BY <1>0, <2>1, CarryGoTo
  <2>4. pc[r].part = "pre" /\ Op(r) \notin Guards /\ ~InBody(r)'
    <3>1. pc[r].part \notin {"body", "late"}
      BY <1>0, <2>2, OpPlace
    <3> QED BY <1>1, <2>2, <2>3, <3>1 DEF Tidying, Guards, Judges, InBody
  <2> QED BY <2>2, <2>3, <2>4, PlainLooks, SameMild
<1>13. CASE Check(r) \/ Listen(r)
  <2>1. /\ Advance(r, Me(r)) \/ Lapse(r, Me(r))
        /\ c64' = c64 /\ dev' = dev /\ untold' = untold /\ Op(r) \in Checks \cup {"listen"}
    BY <1>13 DEF Check, Listen
  <2>2. Op(r) \notin Guards \cup Telling \cup Tidying \cup Judges
    BY <2>1 DEF Guards, Telling, Starts, Presses, Checks, Tidying, Judges
  <2>3. pc[r].part # "fin" /\ Passes(r)
    BY <1>1, <2>2, PlainPasses
  <2> QED BY <1>0, <1>3, <1>4, <2>1, <2>2, <2>3
<1>14. CASE PrepRefused(r) \/ PreflightRefuses(r) \/ StoreUnavailable(r)
  <2>1. /\ Lapse(r, Me(r)) /\ c64' = c64 /\ untold' = untold /\ Op(r) \in {"prep", "preflight", "files"}
        /\ dev' \in {dev, [dev EXCEPT !.reu = WantsReu(job[r])]}
    BY <1>14 DEF PrepRefused, PreflightRefuses, StoreUnavailable
  <2>2. Op(r) \notin Guards \cup Telling \cup Tidying \cup Judges
    BY <2>1 DEF Guards, Telling, Starts, Presses, Tidying, Judges
  <2>3. pc[r].part # "fin" /\ Passes(r)
    BY <1>1, <2>2, PlainPasses
  <2>4. dev'.uci = dev.uci
    BY <1>0, <2>1 DEF DevType
  <2> QED BY <1>4, <2>1, <2>2, <2>3, <2>4
<1>15. CASE PrepareDevice(r) \/ SetTurbo(r) \/ TrustFiles(r) \/ WriteFiles(r) \/ CleanUp(r)
  <2>1. /\ c64' = c64 /\ untold' = untold
        /\ Op(r) \in {"prep", "turbo", "files", "write_files", "cleanup"}
    BY <1>15 DEF PrepareDevice, SetTurbo, TrustFiles, WriteFiles, CleanUp
  <2>2. \E a, b \in BOOLEAN : \/ dev' = dev \/ dev' = [dev EXCEPT !.files = a]
                              \/ dev' = [dev EXCEPT !.turbo = a] \/ dev' = [dev EXCEPT !.reu = b, !.turbo = a]
    BY <1>15, ZenonT(40) DEF PrepareDevice, SetTurbo, TrustFiles, WriteFiles, CleanUp, WantsReu
  <2>3. dev'.uci = dev.uci
    BY <1>0, <2>2 DEF DevType
  <2>4. Op(r) \notin Guards \cup Telling
    BY <2>1 DEF Guards, Telling, Starts, Presses
  <2>5. \/ Advance(r, Me(r)) \/ Advance(r, [Me(r) EXCEPT !.store = TRUE])
        \/ Advance(r, [Me(r) EXCEPT !.rc = 1])
        \/ Lapse(r, Me(r)) /\ Op(r) = "write_files"
    BY <1>15 DEF PrepareDevice, SetTurbo, TrustFiles, WriteFiles, CleanUp
  <2>6. CASE Advance(r, Me(r))
    BY <1>0, <1>3, <2>1, <2>3, <2>4, <2>6
  <2>7. CASE Advance(r, [Me(r) EXCEPT !.rc = 1])
    <3>1. /\ [Me(r) EXCEPT !.rc = 1] \in MeType
          /\ Carry(r, [Me(r) EXCEPT !.rc = 1]) => Carry(r, Me(r))
      <4>1. 1 \in Int /\ 0 \in Nat /\ TRUE \in BOOLEAN
        OBVIOUS
      <4> QED BY <1>0, <4>1, MeFields, MeCarries, Zenon
    <3> QED BY <1>3, <2>1, <2>3, <2>4, <2>7, <3>1
  <2>8. CASE Lapse(r, Me(r)) /\ Op(r) = "write_files"
    <3>1. pc[r].part # "fin" /\ Passes(r)
      BY <1>1, <2>4, <2>8, PlainPasses DEF Tidying, Guards, Judges
    <3> QED BY <1>4, <2>1, <2>3, <2>4, <2>8, <3>1
  <2>9. CASE Advance(r, [Me(r) EXCEPT !.store = TRUE])
    <3> DEFINE m == [Me(r) EXCEPT !.store = TRUE]
    <3>1. m \in MeType
      BY <1>0, MeFields
    <3>2. /\ m.fif = Me(r).fif /\ m.warned = Me(r).warned /\ m.killed = Me(r).killed
          /\ m.seen = Me(r).seen
      BY <1>0 DEF MeType
    <3> HIDE DEF m
    <3>3. Carry(r, m) /\ Onward(r)
      BY <1>0, <2>9, <3>1, CarryAdvance DEF m
    <3>4. Told(r)
      BY <1>0, <3>2, <3>3 DEF Carry, Told
    <3>5. Going(r)
      BY <2>4, <3>3, <3>4, PlainPasses DEF Going, Told
    <3> QED BY <2>1, <2>3, <3>4, <3>5, SameMild, SMTT(30) DEF Looks, Told, InBody
  <2> QED BY <2>5, <2>6, <2>7, <2>8, <2>9
<1>16. CASE Escape(r)
  <2>1. /\ Leave(r, Me(r), 1) /\ c64' = c64 /\ dev' = dev /\ untold' = untold /\ Op(r) \notin Guards
        /\ pc[r].part # "fin"
    BY <1>16 DEF Escape
  <2>2. 1 \in Int
    OBVIOUS
  <2> QED BY <1>0, <1>5, <2>1, <2>2
<1>17. CASE Kill(r)
  <2> DEFINE b == Me(r).fif
             m == [Me(r) EXCEPT !.rc = 1, !.killed = b]
  <2>1. /\ GoTo(r, "end", m) /\ pc[r].part = "fin" /\ c64' = c64 /\ dev' = dev /\ untold' = untold
    BY <1>17 DEF Kill
  <2>2. m \in MeType /\ m.killed = Me(r).fif /\ m.warned = Me(r).warned
    <3>1. b \in BOOLEAN
      BY <1>0 DEF MeType
    <3> HIDE DEF b
    <3>2. m \in MeType
      <4>1. 1 \in Int /\ 0 \in Nat
        OBVIOUS
      <4> QED BY <1>0, <3>1, <4>1, MeFields, Zenon
    <3>3. m.killed = b /\ m.warned = Me(r).warned
      BY <1>0, <3>1 DEF MeType
    <3> QED BY <3>2, <3>3 DEF b
  <2> HIDE DEF m
  <2>3. Carry(r, m) /\ pc'[r].part = "end"
    BY <1>0, <2>1, <2>2, CarryGoTo
  <2> QED BY <1>0, <2>1, <2>2, <2>3 DEF Dies, Carry
\* The device and the C64.
<1>21. CASE EnableUci(r)
  <2>1. /\ Op(r) = "enable" /\ Advance(r, [Me(r) EXCEPT !.uci = TRUE]) /\ c64' = c64 /\ untold' = untold
        /\ dev' = [dev EXCEPT !.uci = TRUE]
    BY <1>21 DEF EnableUci
  <2>2. /\ [Me(r) EXCEPT !.uci = TRUE] \in MeType
        /\ Carry(r, [Me(r) EXCEPT !.uci = TRUE]) => Carry(r, Me(r))
    <3>1. 1 \in Int /\ 0 \in Nat /\ TRUE \in BOOLEAN
      OBVIOUS
    <3> QED BY <1>0, <3>1, MeFields, MeCarries, Zenon
  <2>3. dev'.uci
    BY <1>0, <2>1 DEF DevType
  <2>4. Carry(r, Me(r)) /\ Onward(r)
    BY <1>0, <2>1, <2>2, CarryAdvance
  <2>5. Mild(r) /\ Passes(r) /\ InBody(r)
    BY <1>2, <2>1, <2>3, SameMild DEF Passes, Starts, Presses, Checks, Judges, Tidying, Guards
  <2>6. pc'[r].part # "end"
    BY <2>4, <2>5 DEF Onward, Succ, InBody, Placed
  <2>7. Going(r)
    BY <2>1, <2>5, <2>6 DEF Going, Guards
  <2> QED BY <1>6, <2>1, <2>3, <2>4, <2>5, <2>6, <2>7 DEF Looks, Told
<1>22. CASE DisableUci(r)
  <2>1. /\ Op(r) \in {"disable", "disable_always"} /\ Advance(r, Me(r)) /\ c64' = c64 /\ untold' = untold
    BY <1>22 DEF DisableUci
  <2>2. Carry(r, Me(r)) /\ Onward(r)
    BY <1>0, <2>1, CarryAdvance
  <2> QED BY <1>6, <2>1, <2>2 DEF Disables
<1>23. CASE ResetC64(r)
  <2>1. Op(r) = "reset" /\ ResetEffect /\ Advance(r, Me(r))
    BY <1>23 DEF ResetC64
  <2>2. Carry(r, Me(r)) /\ Onward(r)
    BY <1>0, <2>1, CarryAdvance
  <2> QED BY <1>6, <2>1, <2>2 DEF Resets
<1>24. CASE CloseOrphan(r)
  <2>1. /\ Op(r) = "orphan" /\ Advance(r, Me(r))
        /\ \/ Me(r).warned /\ ResetEffect
           \/ UNCHANGED <<c64, dev, untold>>
    BY <1>24 DEF CloseOrphan
  <2>2. Carry(r, Me(r)) /\ Onward(r)
    BY <1>0, <2>1, CarryAdvance
  <2>3. Op(r) \notin Guards \cup Telling
    BY <2>1 DEF Guards, Telling, Starts, Presses
  <2>4. CASE Me(r).warned /\ ResetEffect
    BY <1>0, <1>6, <2>1, <2>2, <2>4 DEF Resets
  <2>5. CASE UNCHANGED <<c64, dev, untold>>
    BY <1>0, <1>3, <2>1, <2>3, <2>5
  <2> QED BY <2>1, <2>4, <2>5
<1>25. CASE LoadPrg(r)
  <2>1. PICK img2 \in {"good", "torn"} : c64' = [c64 EXCEPT !.img = img2]
    BY <1>25 DEF LoadPrg
  <2>2. dev' = dev /\ untold' = untold /\ Op(r) = "load" /\ pc' = pc /\ rig' = [rig EXCEPT ![r].tries = @ + 1]
    BY <1>25 DEF LoadPrg
  <2>3. Mild(r)
    BY <1>0, <2>1 DEF C64Type, Mild
  <2>4. /\ rig'[r].fif = rig[r].fif /\ rig'[r].warned = rig[r].warned
        /\ rig'[r].killed = rig[r].killed /\ rig'[r].seen = rig[r].seen
    BY <1>0, <2>2 DEF Placed, MeType
  <2>5. ~Onward(r)
    BY <1>0, <2>2, OnwardMoves
  <2>6. Going(r)
    BY <1>0, <2>2, <2>5 DEF Going
  <2> QED BY <2>2, <2>3, <2>4, <2>6 DEF Looks
<1>26. CASE VerifyAndRun(r) \/ LoadAndRun(r)
  <2>1. dev' = dev /\ untold' = untold /\ Op(r) \in Starts
    BY <1>26 DEF VerifyAndRun, LoadAndRun, Starts
  <2>2. \/ c64' = c64 /\ Lapse(r, Me(r))
        \/ /\ \/ c64' = [c64 EXCEPT !.ph = "boot", !.prog = r]
              \/ c64' = [c64 EXCEPT !.ph = "boot", !.prog = r, !.img = "good"]
           /\ Advance(r, Me(r)) \/ Advance(r, [Me(r) EXCEPT !.tries = 0])
    BY <1>26 DEF VerifyAndRun, LoadAndRun
  <2>3. InBody(r) /\ Op(r) \notin Guards
    BY <1>2, <2>1 DEF Starts, Checks, Judges, Tidying, Guards
  <2>4. CASE c64' = c64 /\ Lapse(r, Me(r))
    <3>1. Code(r) > 0
      BY <2>1, <2>3, BodyPromise DEF Promised
    <3>2. ~(Code(r) <= 0) /\ pc[r].part # "fin"
      BY <1>0, <2>3, <3>1 DEF InBody
    <3> QED BY <1>4, <2>1, <2>3, <2>4, <3>2
  <2>5. CASE /\ \/ c64' = [c64 EXCEPT !.ph = "boot", !.prog = r]
                \/ c64' = [c64 EXCEPT !.ph = "boot", !.prog = r, !.img = "good"]
             /\ Advance(r, Me(r)) \/ Advance(r, [Me(r) EXCEPT !.tries = 0])
    <3>1. /\ [Me(r) EXCEPT !.tries = 0] \in MeType
          /\ Carry(r, [Me(r) EXCEPT !.tries = 0]) => Carry(r, Me(r))
      <4>1. 1 \in Int /\ 0 \in Nat /\ TRUE \in BOOLEAN
        OBVIOUS
      <4> QED BY <1>0, <4>1, MeFields, MeCarries, Zenon
    <3>2. Carry(r, Me(r)) /\ Onward(r)
      BY <1>0, <2>5, <3>1, CarryAdvance
    <3> DEFINE ph2 == "boot"
               img2 == "good"
    <3>3. \/ c64' = [c64 EXCEPT !.ph = ph2, !.prog = r]
          \/ c64' = [c64 EXCEPT !.ph = ph2, !.prog = r, !.img = img2]
      BY <2>5
    <3> HIDE DEF ph2, img2
    <3>4. /\ c64'.ph = ph2 /\ c64'.prog = r /\ c64'.key = c64.key /\ c64'.sock = c64.sock
          /\ c64'.ev = c64.ev /\ c64'.sent = c64.sent
          /\ c64'.kept = c64.kept /\ c64'.scr = c64.scr /\ c64'.q = c64.q
      BY <1>0, <3>3, ZenonT(40) DEF C64Type
    <3> QED BY <1>6, <2>1, <3>2, <3>4 DEF Boots, ph2
  <2> QED BY <2>2, <2>4, <2>5
<1>27. CASE Press(r)
  <2>0. dev' = dev /\ untold' = untold
    BY <1>27 DEF Press
  <2>1. CASE /\ Op(r) \in {"fetch", "arm"} /\ c64' = [c64 EXCEPT !.key = TRUE, !.sent = FALSE]
             /\ Advance(r, [Me(r) EXCEPT !.fif = TRUE, !.nth = @ + 1])
    <3> DEFINE n == Me(r).nth + 1
               m == [Me(r) EXCEPT !.fif = TRUE, !.nth = n]
               e == [Me(r) EXCEPT !.fif = TRUE]
    <3>1. n \in Nat
      BY <1>0 DEF MeType
    <3> HIDE DEF n
    <3>2. m \in MeType /\ (Carry(r, m) => Carry(r, e))
      BY <1>0, <3>1, MeFields, MeCarries, Zenon
    <3>3. e.fif = TRUE /\ e.warned = Me(r).warned /\ e.killed = Me(r).killed /\ e.seen = Me(r).seen
      BY <1>0 DEF MeType
    <3>4. Advance(r, m)
      BY <2>1 DEF n
    <3> HIDE DEF m, e
    <3>5. Carry(r, e) /\ Onward(r)
      BY <1>0, <3>2, <3>4, CarryAdvance
    <3>6. InBody(r)
      BY <1>2, <2>1 DEF Checks, Judges, Tidying, Guards
    <3>7. pc'[r].part # "end"
      BY <3>5, <3>6 DEF Onward, Succ, InBody, Placed
    <3>8. /\ c64'.ph = c64.ph /\ c64'.prog = c64.prog /\ c64'.key = TRUE /\ c64'.sock = c64.sock
          /\ c64'.tcp = c64.tcp /\ c64'.ev = c64.ev /\ c64'.kept = c64.kept
          /\ c64'.scr = c64.scr /\ c64'.q = c64.q /\ c64'.sent = FALSE
      BY <1>0, <2>1 DEF C64Type
    <3>9. Op(r) \in Presses
      BY <2>1 DEF Presses
    <3> QED BY <1>0, <2>0, <3>3, <3>5, <3>7, <3>8, <3>9 DEF Asks, Carry
  <2>2. CASE /\ Op(r) = "press_g" /\ c64' = [c64 EXCEPT !.key = TRUE]
             /\ Advance(r, [Me(r) EXCEPT !.nth = @ + 1])
    <3> DEFINE n == Me(r).nth + 1
               m == [Me(r) EXCEPT !.nth = n]
    <3>1. n \in Nat
      BY <1>0 DEF MeType
    <3> HIDE DEF n
    <3>2. m \in MeType /\ (Carry(r, m) => Carry(r, Me(r)))
      <4>1. 1 \in Int /\ TRUE \in BOOLEAN
        OBVIOUS
      <4> QED BY <1>0, <3>1, <4>1, MeFields, MeCarries, Zenon
    <3>4. Advance(r, m)
      BY <2>2 DEF n
    <3> HIDE DEF m
    <3>5. Carry(r, Me(r)) /\ Onward(r)
      BY <1>0, <3>2, <3>4, CarryAdvance
    <3>6. InBody(r)
      BY <1>2, <2>2 DEF Checks, Judges, Tidying, Guards
    <3>7. pc'[r].part # "end"
      BY <3>5, <3>6 DEF Onward, Succ, InBody, Placed
    <3>8. /\ c64'.ph = c64.ph /\ c64'.prog = c64.prog /\ c64'.key = TRUE /\ c64'.sock = c64.sock
          /\ c64'.tcp = c64.tcp /\ c64'.ev = c64.ev /\ c64'.kept = c64.kept
          /\ c64'.scr = c64.scr /\ c64'.q = c64.q /\ c64'.sent = c64.sent
      BY <1>0, <2>2 DEF C64Type
    <3>9. Op(r) \in Presses
      BY <2>2 DEF Presses
    <3> QED BY <1>0, <2>0, <2>2, <3>5, <3>7, <3>8, <3>9 DEF Asks, Carry
  <2>3. CASE Op(r) = "in_flight" /\ Advance(r, [Me(r) EXCEPT !.fif = TRUE]) /\ UNCHANGED c64
    <3> DEFINE e == [Me(r) EXCEPT !.fif = TRUE]
    <3>1. e \in MeType
      BY <1>0, MeFields
    <3>2. e.fif = TRUE /\ e.warned = Me(r).warned /\ e.killed = Me(r).killed /\ e.seen = Me(r).seen
      BY <1>0 DEF MeType
    <3> HIDE DEF e
    <3>3. Carry(r, e) /\ Onward(r)
      BY <1>0, <2>3, <3>1, CarryAdvance DEF e
    <3>4. InBody(r)
      BY <1>2, <2>3 DEF Checks, Judges, Tidying, Guards
    <3>5. pc'[r].part # "end"
      BY <3>3, <3>4 DEF Onward, Succ, InBody, Placed
    <3>6. /\ rig'[r].warned = rig[r].warned /\ rig'[r].killed = rig[r].killed
          /\ rig'[r].seen = rig[r].seen /\ rig'[r].fif
      BY <1>0, <3>2, <3>3, <3>5 DEF Carry
    <3>7. Going(r)
      BY <2>3, <3>5, <3>6 DEF Going, Passes, Starts, Presses, Guards
    <3> QED BY <2>0, <2>3, <3>4, <3>5, <3>6, <3>7, SameMild DEF Looks
  <2>4. CASE /\ Op(r) \in {"press_q", "answer_n", "answer_y", "answer_a", "poison"}
             /\ Advance(r, Me(r))
             /\ \/ c64' = [c64 EXCEPT !.q = TRUE] /\ Op(r) = "press_q"
                \/ c64' = c64 \/ (\E a : c64' = [c64 EXCEPT !.ans = a])
                \/ c64' = [c64 EXCEPT !.st = "poison"]
    <3>1. Carry(r, Me(r)) /\ Onward(r)
      BY <1>0, <2>4, CarryAdvance
    <3>2. Op(r) \notin Guards \cup Telling
      BY <2>4 DEF Guards, Telling, Starts, Presses
    <3>3. Mild(r)
      BY <1>0, <1>2, <2>4, <3>1 DEF Mild, C64Type
    <3> QED BY <2>0, <3>1, <3>2, <3>3, PlainLooks, PlainPasses
  <2>5. CASE /\ Op(r) = "clear_screen" /\ c64' = [c64 EXCEPT !.scr = <<>>]
             /\ Advance(r, [Me(r) EXCEPT !.nth = 0])
    <3>1. /\ [Me(r) EXCEPT !.nth = 0] \in MeType
          /\ Carry(r, [Me(r) EXCEPT !.nth = 0]) => Carry(r, Me(r))
      <4>1. 1 \in Int /\ 0 \in Nat /\ TRUE \in BOOLEAN
        OBVIOUS
      <4> QED BY <1>0, <4>1, MeFields, MeCarries, Zenon
    <3>2. Carry(r, Me(r)) /\ Onward(r)
      BY <1>0, <2>5, <3>1, CarryAdvance
    <3>3. Op(r) \notin Guards \cup Telling
      BY <2>5 DEF Guards, Telling, Starts, Presses
    <3>4. Mild(r)
      BY <1>0, <2>5 DEF Mild, C64Type
    <3> QED BY <2>0, <3>2, <3>3, <3>4, PlainLooks, PlainPasses
  <2> QED BY <1>27, <2>1, <2>2, <2>3, <2>4, <2>5, Zenon DEF Press
\* Waits.
<1>31. CASE Wait(r)
  <2> DEFINE b == StillInFlight(r)
             m == [Me(r) EXCEPT !.fif = b]
  <2>1. Op(r) \in Waits /\ Met(r) /\ Advance(r, m) /\ c64' = c64 /\ dev' = dev /\ untold' = untold
    BY <1>31 DEF Wait
  <2>2. b \in BOOLEAN
    BY <1>0 DEF StillInFlight, MeType
  <2>3. \/ b = Me(r).fif
        \/ ~b /\ Op(r) \in {"sentinel", "settled_after", "settled_now", "closed"}
        \/ ~b /\ Op(r) = "settled" /\ Settled(ToSet(c64.scr))
        \/ Op(r) = "terminal"
    BY <1>0, <2>2 DEF StillInFlight, MeType
  <2> HIDE DEF b
  <2>4. m \in MeType /\ m.fif = b /\ m.warned = Me(r).warned /\ m.killed = Me(r).killed /\ m.seen = Me(r).seen
    BY <1>0, <2>2 DEF MeType
  <2> HIDE DEF m
  <2>5. Carry(r, m) /\ Onward(r)
    BY <1>0, <2>1, <2>4, CarryAdvance
  <2>6. InBody(r) /\ Op(r) \notin Guards
    BY <1>2, <2>1 DEF Waits, Checks, Judges, Tidying, Guards
  <2>7. pc'[r].part # "end"
    BY <2>5, <2>6 DEF Onward, Succ, InBody, Placed
  <2>8. /\ rig'[r].fif = b /\ rig'[r].warned = rig[r].warned /\ rig'[r].killed = rig[r].killed
        /\ rig'[r].seen = rig[r].seen
    BY <1>0, <2>4, <2>5, <2>7 DEF Carry
  <2>9. /\ Op(r) \in {"sentinel", "arm_done"} => c64.sent
        /\ Op(r) = "settled" => Ending(ToSet(c64.scr))
        /\ Op(r) = "closed" => OnScreen("closed")
        /\ Op(r) = "dhcp" => c64.ph = "ready"
        /\ Op(r) = "ended" => OnScreen("closed")
        /\ Op(r) = "settled_now" => c64.ph = "ready"
    <3>1. Op(r) \in {"sentinel", "arm_done"} => c64.sent
      BY <2>1 DEF Met
    <3>2. Op(r) = "settled" => Ending(ToSet(c64.scr))
      BY <2>1 DEF Met
    <3>3. Op(r) = "closed" => OnScreen("closed")
      BY <2>1 DEF Met
    <3>4. Op(r) = "dhcp" => c64.ph = "ready"
      BY <2>1 DEF Met
    <3>5. Op(r) = "ended" => OnScreen("closed")
      BY <2>1 DEF Met
    <3>6. Op(r) = "settled_now" => c64.ph = "ready"
      BY <2>1 DEF Met
    <3> QED BY <3>1, <3>2, <3>3, <3>4, <3>5, <3>6
  <2>10. Passes(r)
    BY <2>1, <2>9 DEF Passes, Waits, Starts, Presses
  <2>11. Going(r)
    BY <2>6, <2>7, <2>10 DEF Going
  <2>12. CASE b = Me(r).fif
    BY <1>0, <2>1, <2>8, <2>11, <2>12, SameMild DEF Looks
  <2>13. CASE Op(r) = "terminal"
    BY <2>1, <2>6, <2>7, <2>8, <2>11, <2>13, SameMild DEF Looks
  <2>14. CASE b # Me(r).fif /\ Op(r) # "terminal"
    <3>1. ~b /\ Shows(r) /\ Op(r) \in Clears
      <4>1. Op(r) = "settled_after" => ~Single(r)
        BY <2>6, BodyPromise DEF Promised
      <4>2. Single(r) /\ Op(r) = "settled" => job[r] \in NoCrypto
        BY <2>6, BodyPromise DEF Promised
      <4>3. Op(r) = "settled" => OnScreen("closed") \/ OnScreen("tlsfail")
        BY <2>3, <2>14 DEF Settled, OnScreen
      <4> QED BY <2>3, <2>9, <2>14, <4>1, <4>2, <4>3 DEF Shows, Clears
    <3> QED BY <2>1, <2>5, <2>8, <2>11, <3>1, SameMild DEF Looks
  <2> QED BY <2>12, <2>13, <2>14
<1>32. CASE Overdue(r)
  <2>1. Op(r) \in Waits /\ dev' = dev /\ untold' = untold /\ ~(c64.ph = "ready" /\ c64.key)
    BY <1>32 DEF Overdue
  <2>2. InBody(r) /\ Op(r) \notin Guards /\ pc[r].part # "fin" /\ Trying(r)
    BY <1>2, <2>1 DEF Waits, Checks, Judges, Tidying, Guards, InBody, Trying
  <2>3. CASE Op(r) # "viewer"
    <3>1. Lapse(r, Me(r)) /\ c64' = c64
      BY <1>32, <2>3 DEF Overdue
    <3>2. Code(r) <= 0 => Passes(r)
      BY <2>1 DEF Passes, Waits, Starts, Presses
    <3> QED BY <1>4, <2>1, <2>2, <3>1, <3>2
  <2>4. CASE Op(r) = "viewer" /\ Settled(ToSet(c64.scr))
    <3> DEFINE e == [Me(r) EXCEPT !.fif = FALSE]
    <3>1. Leave(r, e, 1) /\ c64' = c64
      BY <1>32, <2>4 DEF Overdue
    <3>2. e \in MeType /\ e.fif = FALSE /\ e.warned = Me(r).warned /\ e.killed = Me(r).killed /\ e.seen = Me(r).seen
      BY <1>0 DEF MeType
    <3> HIDE DEF e
    <3>3. Carry(r, e) /\ pc'[r].part = "fin"
      BY <1>0, <2>2, <3>1, <3>2, CarryLeave
    <3>4. /\ ~rig'[r].fif /\ rig'[r].warned = rig[r].warned /\ rig'[r].killed = rig[r].killed
          /\ rig'[r].seen = rig[r].seen /\ ~InBody(r)'
      BY <1>0, <3>2, <3>3 DEF Carry, InBody
    <3>5. Shows(r)
      <4>1. Single(r) => job[r] \in NoCrypto
        BY <2>2, <2>4, BodyPromise DEF Promised
      <4>2. OnScreen("closed") \/ OnScreen("tlsfail")
        BY <2>4 DEF Settled, OnScreen
      <4> QED BY <4>1, <4>2 DEF Shows
    <3> QED BY <2>1, <2>4, <3>1, <3>3, <3>4, <3>5, SameMild DEF Looks, Going
  <2>5. CASE Op(r) = "viewer" /\ ~Settled(ToSet(c64.scr))
    <3> DEFINE b == ProbeOpen
               e == [Me(r) EXCEPT !.seen = b]
    <3>1. Leave(r, e, 1) /\ c64' = [c64 EXCEPT !.q = TRUE]
      BY <1>32, <2>5 DEF Overdue
    <3>2. b \in BOOLEAN /\ (b => ProbeOpen)
      BY DEF ProbeOpen
    <3> HIDE DEF b
    <3>3. e \in MeType /\ e.fif = Me(r).fif /\ e.warned = Me(r).warned /\ e.killed = Me(r).killed /\ e.seen = b
      BY <1>0, <3>2 DEF MeType
    <3> HIDE DEF e
    <3>4. Carry(r, e) /\ pc'[r].part = "fin"
      BY <1>0, <2>2, <3>1, <3>3, CarryLeave
    <3>5. /\ rig'[r].fif = rig[r].fif /\ rig'[r].warned = rig[r].warned /\ rig'[r].killed = rig[r].killed
          /\ rig'[r].seen = b /\ ~InBody(r)'
      BY <1>0, <3>3, <3>4 DEF Carry, InBody
    <3>6. Mild(r)
      BY <1>0, <1>2, <2>5, <3>1, <3>5 DEF Mild, C64Type
    <3>7. Going(r)
      BY <2>2, <3>4, <3>5 DEF Going
    <3> QED BY <2>1, <3>2, <3>4, <3>5, <3>6, <3>7 DEF Looks
  <2> QED BY <2>3, <2>4, <2>5
<1>33. CASE NudgeViewer(r)
  <2>1. /\ Op(r) = "ended" /\ c64.ph = "viewer" /\ c64' = [c64 EXCEPT !.q = TRUE] /\ pc' = pc /\ rig' = rig
        /\ dev' = dev /\ untold' = untold
    BY <1>33 DEF NudgeViewer
  <2>2. Mild(r)
    BY <1>0, <1>2, <2>1 DEF Mild, C64Type
  <2>3. ~Onward(r)
    BY <1>0, <2>1, OnwardMoves
  <2> QED BY <1>0, <2>1, <2>2, <2>3 DEF Looks, Going
<1>34. CASE Landed(r) \/ (Judge(r) /\ Op(r) = "judge_reu" /\ pc[r].part # "fin")
  <2> DEFINE e == [Me(r) EXCEPT !.fif = FALSE]
  <2>1. /\ Op(r) \in {"landed", "judge_reu"} /\ c64' = c64 /\ dev' = dev /\ untold' = untold
        /\ Advance(r, e) \/ Lapse(r, e)
    BY <1>34 DEF Landed, Judge
  <2>2. e \in MeType /\ e.fif = FALSE /\ e.warned = Me(r).warned /\ e.killed = Me(r).killed /\ e.seen = Me(r).seen
    BY <1>0 DEF MeType
  <2>3. pc[r].part \in {"pre", "body", "late"}
    BY <1>1, <1>34, <2>1 DEF Landed, Tidying, Guards, Judges
  <2> HIDE DEF e
  <2>4. /\ Carry(r, e)
        /\ Onward(r) \/ pc'[r].part \in {"late", "fin"} \/ (pc'[r].part = "end" /\ pc[r].part = "pre")
    BY <1>0, <2>1, <2>2, <2>3, CarryAdvance, CarryLapse
  <2>5. /\ ~rig'[r].fif /\ rig'[r].warned = rig[r].warned /\ rig'[r].killed = rig[r].killed
        /\ pc'[r].part # "end" => rig'[r].seen = rig[r].seen
    BY <1>0, <2>2, <2>4 DEF Carry
  <2>6. Op(r) \notin Guards \cup Telling /\ Op(r) \in Clears /\ Shows(r)
    BY <2>1 DEF Guards, Telling, Starts, Presses, Clears, Shows
  <2>7. Going(r)
    BY <2>4, <2>5, <2>6, PlainPasses DEF Going
  <2> QED BY <2>1, <2>4, <2>5, <2>6, <2>7, SameMild DEF Looks, InBody
<1>35. CASE LeaveViewer(r)
  <2> DEFINE m == [Me(r) EXCEPT !.fif = FALSE, !.keep = TRUE, !.warned = TRUE]
             e == [Me(r) EXCEPT !.fif = FALSE, !.warned = TRUE]
  <2>1. Op(r) = "leave_viewer" /\ c64' = c64 /\ dev' = dev /\ untold' = untold /\ Advance(r, m)
    BY <1>35 DEF LeaveViewer
  <2>2. m \in MeType /\ (Carry(r, m) => Carry(r, e))
    <3>1. 1 \in Int /\ 0 \in Nat /\ FALSE \in BOOLEAN
      OBVIOUS
    <3> QED BY <1>0, <3>1, MeFields, MeCarries, Zenon
  <2>3. e.fif = FALSE /\ e.warned = TRUE /\ e.killed = Me(r).killed /\ e.seen = Me(r).seen
    BY <1>0 DEF MeType
  <2> HIDE DEF m, e
  <2>4. Carry(r, e) /\ Onward(r)
    BY <1>0, <2>1, <2>2, CarryAdvance
  <2>5. /\ ~rig'[r].fif /\ rig'[r].warned /\ rig'[r].killed = rig[r].killed
        /\ pc'[r].part # "end" => rig'[r].seen = rig[r].seen
    BY <1>0, <2>3, <2>4 DEF Carry
  <2>6. Op(r) \notin Guards \cup Telling /\ Op(r) \in Clears
    BY <2>1 DEF Guards, Telling, Starts, Presses, Clears
  <2>7. Going(r)
    BY <2>4, <2>5, <2>6, PlainPasses DEF Going
  <2> QED BY <2>1, <2>4, <2>5, <2>6, <2>7, SameMild DEF Looks, InBody
<1>36. CASE Judge(r) /\ ~(Op(r) = "judge_reu" /\ pc[r].part # "fin")
  <2> DEFINE m == IF Op(r) = "judge_reu" THEN [Me(r) EXCEPT !.fif = FALSE] ELSE Me(r)
  <2>1. Op(r) \in Judges /\ c64' = c64 /\ dev' = dev /\ untold' = untold
    BY <1>36 DEF Judge
  <2>2. /\ Op(r) \notin Guards
        /\ Op(r) # "judge_closed" => Op(r) \notin Guards \cup Telling /\ Passes(r)
    <3>1. Op(r) # "judge_closed" => Op(r) \notin Guards \cup Telling
      BY <2>1 DEF Guards, Telling, Starts, Presses, Judges
    <3>2. Op(r) \notin Guards
      BY <2>1 DEF Guards, Judges
    <3> QED BY <3>1, <3>2, PlainPasses
  <2>3. \/ Advance(r, m) \/ (pc[r].part # "fin" /\ Lapse(r, m))
        \/ pc[r].part = "fin" /\ Advance(r, [m EXCEPT !.rc = 1])
    BY <1>36, Zenon DEF Judge
  <2>6. CASE Op(r) = "judge_closed"
    <3>1. m = Me(r)
      BY <2>6
    <3> HIDE DEF m
    <3>2. OnScreen("closed") \/ Code(r) <= 0 => Passes(r)
      BY <2>6 DEF Passes, Starts, Presses
    <3>3. CASE pc[r].part # "fin" /\ Lapse(r, Me(r))
      BY <1>4, <2>1, <2>2, <3>2, <3>3
    <3>4. CASE pc[r].part = "fin" \/ (Good(r) /\ Advance(r, Me(r)))
      <4>1. Advance(r, Me(r)) \/ Advance(r, [Me(r) EXCEPT !.rc = 1])
        BY <2>3, <3>1, <3>4
      <4>2. /\ [Me(r) EXCEPT !.rc = 1] \in MeType
            /\ Carry(r, [Me(r) EXCEPT !.rc = 1]) => Carry(r, Me(r))
        <5>1. 1 \in Int /\ 0 \in Nat /\ TRUE \in BOOLEAN
          OBVIOUS
        <5> QED BY <1>0, <5>1, MeFields, MeCarries, Zenon
      <4>3. Carry(r, Me(r)) /\ Onward(r)
        BY <1>0, <4>1, <4>2, CarryAdvance
      <4>4. pc[r].part = "fin" => ~InBody(r)'
        BY <4>3 DEF Onward, Succ, Placed, InBody
      <4>5. Good(r) => OnScreen("closed")
        BY <2>6 DEF Good, AfterBanner, OnScreen, ToSet
      <4> QED BY <2>1, <2>2, <3>2, <3>4, <4>3, <4>4, <4>5, PlainLooks, SameMild
    <3> QED BY <1>36, <2>3, <2>6, <3>1, <3>3, <3>4, Zenon DEF Judge
  <2>4. CASE Op(r) \notin {"judge_reu", "judge_closed"}
    <3>1. m = Me(r)
      BY <2>4
    <3> HIDE DEF m
    <3>2. /\ [Me(r) EXCEPT !.rc = 1] \in MeType
          /\ Carry(r, [Me(r) EXCEPT !.rc = 1]) => Carry(r, Me(r))
      <4>1. 1 \in Int /\ 0 \in Nat /\ TRUE \in BOOLEAN
        OBVIOUS
      <4> QED BY <1>0, <4>1, MeFields, MeCarries, Zenon
    <3>3. CASE Advance(r, Me(r))
      BY <1>0, <1>3, <2>1, <2>2, <2>4, <3>3
    <3>4. CASE Advance(r, [Me(r) EXCEPT !.rc = 1])
      BY <1>3, <2>1, <2>2, <2>4, <3>2, <3>4
    <3>5. CASE pc[r].part # "fin" /\ Lapse(r, Me(r))
      BY <1>4, <2>1, <2>2, <2>4, <3>5
    <3> QED BY <2>3, <3>1, <3>3, <3>4, <3>5
  <2>5. CASE Op(r) = "judge_reu"
    <3> DEFINE e == [Me(r) EXCEPT !.fif = FALSE]
    <3>1. m = e
      BY <2>5
    <3> HIDE DEF m
    <3>2. e \in MeType /\ e.fif = FALSE /\ e.warned = Me(r).warned /\ e.killed = Me(r).killed /\ e.seen = Me(r).seen
      BY <1>0 DEF MeType
    <3> HIDE DEF e
    <3>3. /\ [e EXCEPT !.rc = 1] \in MeType
          /\ Carry(r, [e EXCEPT !.rc = 1]) => Carry(r, e)
      <4>1. 1 \in Int /\ 0 \in Nat /\ TRUE \in BOOLEAN
        OBVIOUS
      <4> QED BY <3>2, <4>1, MeFields, MeCarries, Zenon
    <3>4. Advance(r, e) \/ Advance(r, [e EXCEPT !.rc = 1])
      BY <1>36, <2>3, <2>5, <3>1
    <3>5. Carry(r, e) /\ Onward(r)
      BY <1>0, <3>2, <3>3, <3>4, CarryAdvance
    <3>6. /\ ~rig'[r].fif /\ rig'[r].warned = rig[r].warned /\ rig'[r].killed = rig[r].killed
          /\ pc'[r].part # "end" => rig'[r].seen = rig[r].seen
      BY <1>0, <3>2, <3>5 DEF Carry
    <3>7. Going(r)
      BY <2>2, <2>5, <3>5, <3>6 DEF Going
    <3>8. Shows(r) /\ Op(r) \in Clears
      BY <2>5 DEF Shows, Clears
    <3> QED BY <2>1, <3>5, <3>6, <3>7, <3>8, SameMild DEF Looks, InBody
  <2> QED BY <2>4, <2>5, <2>6
<1>37. CASE Guard(r)
  <2>0. Op(r) \in Guards /\ dev' = dev /\ untold' = untold
    BY <1>37 DEF Guard
  <2>1. pc[r].part \in {"late", "fin"} /\ ~InBody(r)
    BY <1>2, <2>0 DEF InBody
  <2>2. Onward(r) => ~InBody(r)'
    BY <2>1 DEF Onward, Succ, Placed, InBody
  <2>3. CASE ~Me(r).fif /\ Advance(r, Me(r)) /\ UNCHANGED c64
    <3>1. Carry(r, Me(r)) /\ Onward(r)
      BY <1>0, <2>3, CarryAdvance
    <3>2. /\ ~rig'[r].fif /\ rig'[r].warned = rig[r].warned /\ rig'[r].killed = rig[r].killed
          /\ pc'[r].part # "end" => rig'[r].seen = rig[r].seen /\ rig'[r].fif = rig[r].fif
      BY <1>0, <2>3, <3>1 DEF Carry
    <3>3. Going(r) /\ Mild(r) /\ dev'.uci = dev.uci
      BY <2>0, <2>2, <2>3, <3>1, <3>2, SameMild DEF Going
    <3>4. pc'[r].part = "end" => ~InBody(r)'
      BY DEF InBody
    <3> QED BY <2>0, <3>2, <3>3, <3>4 DEF Looks
  <2>4. CASE /\ Op(r) = "guard_tls_q" /\ c64' = [c64 EXCEPT !.q = TRUE]
             /\ rig' = [rig EXCEPT ![r].nud = TRUE, ![r].seen = ProbeOpen] /\ UNCHANGED pc
    <3> DEFINE b == ProbeOpen
    <3>1. rig' = [rig EXCEPT ![r].nud = TRUE, ![r].seen = b] /\ (b => ProbeOpen)
      BY <2>4
    <3> HIDE DEF b
    <3>2. /\ rig'[r].fif = rig[r].fif /\ rig'[r].warned = rig[r].warned /\ rig'[r].killed = rig[r].killed
          /\ rig'[r].seen = b
      BY <1>0, <3>1 DEF Placed, MeType
    <3>3. pc'[r].part \in {"late", "fin"} /\ ~InBody(r)' /\ ~Onward(r)
      BY <1>0, <2>1, <2>4, OnwardMoves DEF InBody
    <3>4. Mild(r)
      BY <1>0, <1>2, <2>4, <3>3 DEF Mild, C64Type
    <3> QED BY <2>0, <3>1, <3>2, <3>3, <3>4 DEF Looks, Going
  <2>5. CASE /\ Me(r).fif /\ ProbeClosed(Me(r).seen \/ (Op(r) # "guard" /\ TlsRan))
             /\ Advance(r, [Me(r) EXCEPT !.fif = FALSE]) /\ UNCHANGED c64
    <3> DEFINE e == [Me(r) EXCEPT !.fif = FALSE]
    <3>1. e \in MeType /\ e.fif = FALSE /\ e.warned = Me(r).warned /\ e.killed = Me(r).killed /\ e.seen = Me(r).seen
      BY <1>0 DEF MeType
    <3> HIDE DEF e
    <3>2. Carry(r, e) /\ Onward(r)
      BY <1>0, <2>5, <3>1, CarryAdvance DEF e
    <3>3. /\ ~rig'[r].fif /\ rig'[r].warned = rig[r].warned /\ rig'[r].killed = rig[r].killed
          /\ pc'[r].part # "end" => rig'[r].seen = rig[r].seen
      BY <1>0, <3>1, <3>2 DEF Carry
    <3>4. Shows(r)
      BY <1>0, <2>5 DEF Shows, ProbeClosed
    <3> QED BY <2>0, <2>2, <2>5, <3>2, <3>3, <3>4, SameMild DEF Looks, Going, InBody
  <2>6. CASE ProbeOpen /\ rig' = [rig EXCEPT ![r].seen = TRUE] /\ UNCHANGED pc /\ UNCHANGED c64
    <3>1. /\ rig'[r].fif = rig[r].fif /\ rig'[r].warned = rig[r].warned /\ rig'[r].killed = rig[r].killed
      BY <1>0, <2>6 DEF Placed, MeType
    <3>2. pc'[r].part \in {"late", "fin"} /\ ~InBody(r)' /\ ~Onward(r)
      BY <1>0, <2>1, <2>6, OnwardMoves DEF InBody
    <3> QED BY <2>0, <2>6, <3>1, <3>2, SameMild DEF Looks, Going
  <2>7. CASE Advance(r, [Me(r) EXCEPT !.fif = FALSE, !.warned = TRUE]) /\ UNCHANGED c64
    <3> DEFINE e == [Me(r) EXCEPT !.fif = FALSE, !.warned = TRUE]
    <3>1. e \in MeType /\ e.fif = FALSE /\ e.warned = TRUE /\ e.killed = Me(r).killed /\ e.seen = Me(r).seen
      BY <1>0 DEF MeType
    <3> HIDE DEF e
    <3>2. Carry(r, e) /\ Onward(r)
      BY <1>0, <2>7, <3>1, CarryAdvance DEF e
    <3>3. /\ ~rig'[r].fif /\ rig'[r].warned /\ rig'[r].killed = rig[r].killed
          /\ pc'[r].part # "end" => rig'[r].seen = rig[r].seen
      BY <1>0, <3>1, <3>2 DEF Carry
    <3> QED BY <2>0, <2>2, <2>7, <3>2, <3>3, SameMild DEF Looks, Going, InBody
  <2> QED BY <1>37, <2>3, <2>4, <2>5, <2>6, <2>7, Zenon DEF Guard
<1> QED BY <1>11, <1>12, <1>13, <1>14, <1>15, <1>16, <1>17, <1>21, <1>22, <1>23, <1>24, <1>25, <1>26,
           <1>27, <1>31, <1>32, <1>33, <1>34, <1>35, <1>36, <1>37 DEF RigStep, Work

\* Without the lock r leaves the device and the C64 alone.
LEMMA RigTouch ==
    ASSUME Placed, NEW r \in Rigs, RigStep(r)
    PROVE  UNCHANGED <<c64, dev, untold>> \/ HasLock(r)
<1>0. pc[r].part # "end"
    BY RigMoves
<1>1. CASE \/ Check(r) \/ Escape(r) \/ Acquire(r) \/ AcquireTimesOut(r) \/ BadLockTimeout(r)
           \/ Release(r) \/ Listen(r) \/ Persist(r) \/ Kill(r) \/ PreflightReu(r) \/ PreflightRefuses(r)
           \/ StoreUnavailable(r) \/ RestoreDrive(r) \/ Wait(r) \/ Landed(r) \/ LeaveViewer(r)
           \/ Judge(r)
    BY <1>1 DEF Check, Escape, Acquire, AcquireTimesOut, BadLockTimeout, Release, Listen, Persist,
                Kill, PreflightReu, PreflightRefuses, StoreUnavailable, RestoreDrive, Wait, Landed,
                LeaveViewer, Judge
<1>2. CASE \/ EnableUci(r) \/ DisableUci(r) \/ PrepareDevice(r) \/ PrepRefused(r) \/ SetTurbo(r)
           \/ TrustFiles(r) \/ WriteFiles(r) \/ CleanUp(r) \/ ResetC64(r) \/ LoadPrg(r)
           \/ VerifyAndRun(r) \/ LoadAndRun(r) \/ Press(r) \/ NudgeViewer(r) \/ CloseOrphan(r)
  <2>1. Op(r) \in {"enable", "disable", "disable_always", "prep", "turbo", "files", "write_files",
                   "cleanup", "reset", "load", "load_run", "fetch", "arm", "press_g", "in_flight",
                   "press_q", "answer_n", "answer_y", "answer_a", "poison", "clear_screen", "ended",
                   "orphan"}
    BY <1>2 DEF EnableUci, DisableUci, PrepareDevice, PrepRefused, SetTurbo, TrustFiles, WriteFiles,
                CleanUp, ResetC64, LoadPrg, VerifyAndRun, LoadAndRun, Press, NudgeViewer, CloseOrphan
  <2>2. Op(r) \notin Checks \cup Judges \cup {"lock"}
    BY <2>1 DEF Checks, Judges
  <2> QED BY <1>0, <2>2, DeviceOp
<1>3. CASE Overdue(r) \/ Guard(r)
  <2>1. Op(r) \notin Checks \cup Judges \cup {"lock"}
    BY <1>3 DEF Overdue, Guard, Waits, Guards, Checks, Judges
  <2> QED BY <1>0, <2>1, DeviceOp
<1> QED BY <1>1, <1>2, <1>3 DEF RigStep, Work

\* A step of r leaves another rig's program where it is, or ends it.
LEMMA StrangerKept ==
    ASSUME Placed, MachineType, NEW r \in Rigs, NEW q \in Rigs, q # r, Runs(r), RigStep(r), c64'.prog = q
    PROVE  /\ c64.prog = q /\ c64'.ph = c64.ph /\ c64'.key = c64.key /\ c64'.sock = c64.sock
           /\ c64'.kept = c64.kept /\ c64'.out = c64.out
<1>0. pc[r].part # "end" /\ q # NoRig
    BY RigMoves, RigAssumption
<1>1. CASE Looks(r) \/ Disables(r) \/ Dies(r)
    BY <1>1 DEF Looks, Mild, Disables, Dies
<1>2. CASE Resets(r)
    BY <1>0, <1>2 DEF Resets, ResetEffect, Blank
<1>3. CASE Boots(r)
    BY <1>3 DEF Boots
<1>4. CASE Asks(r)
  <2>1. InBody(r)
    BY <1>0, <1>4, OpWhere DEF Asks, Presses, Checks, Judges, Tidying, Guards
  <2>2. c64.prog = r
    BY <1>4, <2>1, BodyPromise DEF Asks, Promised, Runs
  <2> QED BY <1>4, <2>2 DEF Asks
<1> QED BY <1>1, <1>2, <1>3, <1>4, RigShape

\* What a step of r leaves of another rig's conditions: all of them.
LEMMA OtherKeeps ==
    ASSUME PoisonInv, NEW r \in Rigs, NEW q \in Rigs, q # r, RigStep(r)
    PROVE  General(q)' /\ (Single(q)' => Solo(q)')
<1>0. /\ Placed /\ MachineType /\ Section /\ General(r) /\ General(q) /\ (Single(q) => Solo(q))
    BY DEF PoisonInv, MachineInv, SectionInv
<1>1. job' = job /\ pc'[q] = pc[q] /\ rig'[q] = rig[q]
    BY <1>0, RigMoves, StepPlaced
<1>2. Single(q)' <=> Single(q)
    BY <1>1 DEF Single
<1>3. CASE c64' = c64 /\ dev' = dev
  <2>1. General(q)'
    BY <1>0, <1>1, <1>3 DEF General, Powered, Aloft, Unseen, Runs, Watched, Bare, InBody, At
  <2>2. Unasked(q)' <=> Unasked(q)
    BY <1>1, <1>3 DEF Unasked
  <2>3. Announced(q)' <=> Announced(q)
    BY <1>1, <1>3 DEF Announced, Live, Excused
  <2>4. Silent' <=> Silent
    BY <1>3 DEF Silent, OnScreen
  <2>5. NotOpened' <=> NotOpened
    BY <1>1, <1>3, <2>4 DEF NotOpened, Tcp, TcpReadable
  <2>6. Course(q)' <=> Course(q)
    BY <1>1, <1>3, <2>4, <2>5 DEF Course, Watched, Fetching, InBody, OnScreen
  <2>7. Before(q)' <=> Before(q)
    BY <1>1, <1>3, <2>5 DEF Before, InBody, At
  <2>8. After(q)' <=> After(q)
    BY <1>1, <1>3 DEF After, InBody, At, Live, Hanging, Excused
  <2> QED BY <1>0, <1>2, <2>1, <2>2, <2>3, <2>6, <2>7, <2>8 DEF Solo
<1>4. CASE HasLock(r)
  <2>1. ~HasLock(q)
    BY <1>0, <1>4 DEF Section
  <2>2. ~InBody(q) /\ ~rig[q].fif
    BY <1>0, <2>1, AloftLock DEF HasLock, InBody, General
  <2>3. ~InBody(q)' /\ ~rig'[q].fif
    BY <1>1, <2>2 DEF InBody
  <2>4. c64'.prog = q => /\ c64.prog = q /\ c64'.ph = c64.ph /\ c64'.key = c64.key
                         /\ c64'.sock = c64.sock /\ c64'.kept = c64.kept /\ c64'.out = c64.out
    BY <1>0, StrangerKept DEF General
  <2>5. General(q)'
    BY <1>0, <1>1, <2>3 DEF General, Powered, Aloft, Unseen, Runs, Watched
  <2>6. Course(q)' /\ Before(q)' /\ After(q)'
    BY <2>3 DEF Course, Watched, Before, After
  <2>7. Single(q) => Unasked(q)'
    BY <1>0, <2>4 DEF Solo, Unasked
  <2>8. Single(q) => Announced(q)'
    BY <1>0, <1>1, <2>2, <2>4 DEF Solo, Announced, Live, Excused
  <2> QED BY <1>2, <2>5, <2>6, <2>7, <2>8 DEF Solo
<1> QED BY <1>0, <1>3, <1>4, RigTouch

LEMMA EmptyScreen == \A line : line \notin ToSet(<<>>)
BY DEF ToSet

\* What a mild step leaves of the view of the C64.
LEMMA MildView ==
    ASSUME NEW r \in Rigs, job' = job, Mild(r)
    PROVE  /\ OnScreen("closed")' => OnScreen("closed")
           /\ OnScreen("connfail")' => OnScreen("connfail")
           /\ OnScreen("tlsfail")' => OnScreen("tlsfail")
           /\ Silent => Silent'
           /\ Tcp' = Tcp /\ (NotOpened => NotOpened')
           /\ Live(r)' <=> Live(r)
           /\ Fetching' <=> Fetching
           /\ Excused(r)' <=> Excused(r)
<1>1. /\ OnScreen("closed")' => OnScreen("closed")
      /\ OnScreen("connfail")' => OnScreen("connfail")
      /\ OnScreen("tlsfail")' => OnScreen("tlsfail")
    BY EmptyScreen DEF Mild, OnScreen
<1>2. Silent => Silent'
    BY <1>1 DEF Silent
<1>3. Tcp' = Tcp
    BY DEF Mild, Tcp, TcpReadable
<1>4. NotOpened => NotOpened'
    BY <1>2, <1>3 DEF NotOpened, Mild
<1>5. (Live(r)' <=> Live(r)) /\ (Fetching' <=> Fetching) /\ (Excused(r)' <=> Excused(r))
    BY DEF Mild, Live, Fetching, Excused
<1> QED BY <1>1, <1>2, <1>3, <1>4, <1>5

\* The heart of the matter: when a rig with one fetch per boot takes the fetch
\* for over, the program has no socket and will open none, except where m3_ab
\* believes a line that says less.
LEMMA ShowsOver ==
    ASSUME Placed, NEW r \in Rigs, pc[r].part # "end", Single(r), General(r), Solo(r), Shows(r),
           InBody(r) \/ rig[r].fif
    PROVE  ~Live(r) \/ (Excused(r) /\ ~OnScreen("closed") /\ ~OnScreen("connfail"))
<1> SUFFICES ASSUME c64.prog = r PROVE ~Live(r) \/ (Excused(r) /\ ~OnScreen("closed") /\ ~OnScreen("connfail"))
    BY DEF Live
<1>0. Watched(r) /\ r # NoRig
    BY RigAssumption DEF Watched
<1>1. /\ c64.sock => Fetching
      /\ Fetching => /\ ~c64.key /\ ~c64.sent /\ c64.tcp # "CONNECT_FAIL"
                     /\ c64.tcp = "CLOSED" => ~c64.sock
                     /\ ~OnScreen("closed") /\ ~OnScreen("connfail")
      /\ c64.key \/ c64.ph = "dial" => ~c64.sent /\ NotOpened /\ ~rig[r].seen
      /\ c64.sent => c64.ph = "ready" /\ ~c64.key
    BY <1>0 DEF Solo, Course
<1>2. CASE c64.sent
    BY <1>1, <1>2 DEF Live, Fetching
<1>3. CASE OnScreen("closed")
    BY <1>1, <1>3 DEF Live, NotOpened, Silent
<1>4. CASE OnScreen("tlsfail") /\ job[r] \in NoCrypto
  <2>1. /\ Fetching => c64.ph = "close" /\ c64.out = "refused"
        /\ job[r] # "m3_ab" => ~Fetching
    BY <1>0, <1>4 DEF Solo, Course
  <2>2. ~(c64.key \/ c64.ph = "dial")
    BY <1>1, <1>4 DEF NotOpened, Silent
  <2> QED BY <1>1, <2>1, <2>2 DEF Live, Excused
<1>5. CASE Op(r) \in {"landed", "judge_reu"}
  <2>1. InBody(r)
    BY <1>5, OpWhere DEF Checks, Judges, Tidying, Guards
  <2>2. Promised(r)
    BY <2>1, BodyPromise
  <2>3. CASE Op(r) = "landed"
    <3>1. ~Hanging(r)
      BY <2>1, <2>3, BodyOp DEF Hanging
    <3> QED BY <2>1, <2>2, <2>3, <3>1 DEF Promised, Solo, After
  <2>4. CASE Op(r) = "judge_reu"
    BY <1>0, <2>1, <2>2, <2>4 DEF Promised, General, Runs, Bare
  <2> QED BY <1>5, <2>3, <2>4
<1>6. CASE Op(r) = "settled_now" /\ c64.ph = "ready"
  <2>1. InBody(r)
    BY <1>6, OpWhere DEF Checks, Judges, Tidying, Guards
  <2>2. ~c64.key
    BY <1>6, <2>1, BodyPromise DEF Promised, Solo, After
  <2> QED BY <1>1, <1>6, <2>2 DEF Live, Fetching
<1>7. CASE Tcp = "CONNECT_FAIL"
  <2>1. c64.tcp = "CONNECT_FAIL"
    BY <1>7 DEF Tcp
  <2> QED BY <1>1, <1>7, <2>1 DEF Live, NotOpened
<1>8. CASE Tcp = "CLOSED" /\ (rig[r].seen \/ TlsRan)
  <2>1. c64.tcp = "CLOSED" /\ (rig[r].seen \/ c64.ev # "no")
    BY <1>8 DEF Tcp, TlsRan
  <2> QED BY <1>1, <2>1 DEF Live, NotOpened
<1> QED BY <1>2, <1>3, <1>4, <1>5, <1>6, <1>7, <1>8 DEF Shows, ProbeClosed

LEMMA LooksKeeps ==
    ASSUME PoisonInv, NEW r \in Rigs, RigStep(r), Looks(r), Placed'
    PROVE  General(r)' /\ (Single(r)' => Solo(r)')
<1>0. /\ Placed /\ MachineType /\ Loaded /\ General(r) /\ (Single(r) => Solo(r)) /\ r # NoRig
      /\ Powered(r) /\ Aloft(r) /\ Unseen(r) /\ Runs(r)
    BY RigAssumption DEF PoisonInv, MachineInv, SectionInv, General
<1>1. pc[r].part # "end" /\ job' = job /\ Moves(r) /\ rig[r] \in MeType /\ rig'[r] \in MeType
    BY <1>0, RigMoves DEF Placed
<1>2. /\ Mild(r) /\ (dev.uci => dev'.uci) /\ Going(r)
      /\ rig'[r].killed = rig[r].killed /\ (rig'[r].warned = rig[r].warned \/ rig'[r].warned)
      /\ \/ rig'[r].fif = rig[r].fif
         \/ /\ InBody(r) /\ pc'[r].part # "end"
            /\ Op(r) = "terminal" \/ (Op(r) = "in_flight" /\ rig'[r].fif)
         \/ /\ ~rig'[r].fif /\ (rig'[r].warned \/ Shows(r) \/ pc'[r].part = "end")
            /\ InBody(r)' => Onward(r) /\ Op(r) \in Clears
      /\ \/ rig'[r].seen = rig[r].seen
         \/ pc'[r].part \notin {"pre", "body"} /\ (pc'[r].part = "end" \/ (rig'[r].seen => ProbeOpen))
    BY DEF Looks
<1>3. /\ c64'.ph = c64.ph /\ c64'.prog = c64.prog /\ c64'.key = c64.key /\ c64'.sock = c64.sock
      /\ c64'.tcp = c64.tcp /\ c64'.ev = c64.ev /\ c64'.sent = c64.sent /\ c64'.kept = c64.kept
      /\ c64'.out = c64.out
      /\ c64'.scr = c64.scr \/ c64'.scr = <<>>
      /\ \/ c64'.q = c64.q
         \/ job[r] \notin Routine /\ (InBody(r)' => (Op(r) = "press_q" /\ Onward(r)) \/ c64.ph = "viewer")
    BY <1>2 DEF Mild
<1>4. InBody(r)' =>
        \/ pc'[r] = pc[r] /\ InBody(r) /\ ~Onward(r)
        \/ Onward(r) /\ InBody(r) /\ Stepped(r) /\ Passes(r) /\ At(r)' = At(r) + 1
        \/ Onward(r) /\ pc[r].part = "pre" /\ Begun(r)
    BY <1>0, <1>1, <1>2, BodyMoves, OnwardMoves DEF Going, At
<1>5. pc[r].part = "pre" => c64.prog # r
    BY <1>0 DEF Loaded
<1>6. InBody(r) => Promised(r)
    BY <1>0, BodyPromise
<1>7. rig[r].fif => HasLock(r) /\ pc[r].part # "pre" /\ (pc[r].part = "fin" => pc[r].i < Len(Part(r)))
    BY <1>0, AloftLock DEF Aloft
<1>8. rig'[r].fif => rig[r].fif \/ (InBody(r) /\ Op(r) \in {"terminal", "in_flight"})
    BY <1>2
<1>9. /\ OnScreen("closed")' => OnScreen("closed")
      /\ OnScreen("connfail")' => OnScreen("connfail")
      /\ OnScreen("tlsfail")' => OnScreen("tlsfail")
      /\ Silent => Silent'
      /\ Tcp' = Tcp /\ (NotOpened => NotOpened')
      /\ Live(r)' <=> Live(r)
      /\ Fetching' <=> Fetching
      /\ Excused(r)' <=> Excused(r)
    BY <1>1, <1>2, MildView
<1>10. Watched(r)' => c64.prog = r /\ (InBody(r) \/ rig[r].fif)
    BY <1>3, <1>4, <1>5, <1>8 DEF Watched
\* Of any rig.
<1>11. Powered(r)'
  <2>1. ASSUME InBody(r)', AfterEnable(job[r], At(r))' PROVE dev'.uci
    <3>1. CASE pc'[r] = pc[r] /\ InBody(r)
      BY <1>0, <1>1, <1>2, <2>1, <3>1 DEF Powered, At
    <3>2. CASE InBody(r) /\ Stepped(r) /\ Passes(r)
      BY <1>0, <1>2, <2>1, <3>2 DEF Powered, Stepped, Passes
    <3> QED BY <1>4, <2>1, <3>1, <3>2 DEF Begun
  <2>2. ASSUME rig'[r].fif PROVE dev'.uci
    BY <1>0, <1>2, <1>6, <1>8, <2>2 DEF Powered, Promised
  <2>3. ASSUME Watched(r)' PROVE dev'.uci
    BY <1>0, <1>2, <1>10, <2>3 DEF Powered, Watched
  <2> QED BY <2>1, <2>2, <2>3 DEF Powered
<1>12. Aloft(r)'
  <2>1. rig'[r].fif => /\ rig[r].fif \/ (InBody(r) /\ Flies(job[r]))
                       /\ pc'[r].part # "end" /\ (Onward(r) => Op(r) \notin Guards)
    BY <1>2, <1>6, <1>8 DEF Going, Promised
  <2> QED BY <1>0, <1>1, <2>1, AloftNext
<1>13. Unseen(r)'
  <2>1. pc'[r].part = "pre" => pc[r].part = "pre"
    BY <1>0, <1>1 DEF Moves, Departs, Onward, Goes, Succ, Placed
  <2>2. pc'[r].part \in {"pre", "body"} => pc[r].part \in {"pre", "body"}
    BY <1>4, <2>1 DEF InBody
  <2> QED BY <1>0, <1>1, <1>2, <2>2 DEF Unseen
<1>14. Runs(r)'
  <2>1. ASSUME InBody(r)', Running(job[r], At(r))' PROVE c64'.prog = r
    <3>1. CASE pc'[r] = pc[r] /\ InBody(r)
      BY <1>0, <1>1, <1>3, <2>1, <3>1 DEF Runs, At
    <3>2. CASE InBody(r) /\ Stepped(r) /\ Passes(r)
      BY <1>0, <1>3, <2>1, <3>2 DEF Runs, Stepped, Passes
    <3> QED BY <1>4, <2>1, <3>1, <3>2 DEF Begun
  <2>2. ASSUME InBody(r)', JustReset(job[r], At(r))' PROVE Bare'
    <3>1. Bare /\ (~Onward(r) \/ Op(r) = "listen")
      <4>1. CASE pc'[r] = pc[r] /\ InBody(r) /\ ~Onward(r)
        BY <1>0, <1>1, <2>2, <4>1 DEF Runs, At
      <4>2. CASE InBody(r) /\ Stepped(r) /\ Passes(r)
        BY <1>0, <2>2, <4>2 DEF Runs, Stepped, Passes
      <4> QED BY <1>4, <2>2, <4>1, <4>2 DEF Begun
    <3> QED BY <1>3, <2>2, <3>1 DEF Bare
  <2> QED BY <2>1, <2>2 DEF Runs
<1>15. General(r)'
    BY <1>11, <1>12, <1>13, <1>14 DEF General
\* Of a rig with one fetch per boot.
<1>16. ASSUME Single(r) PROVE Solo(r)'
  <2>0. Solo(r) /\ Unasked(r) /\ Announced(r) /\ Course(r) /\ Before(r) /\ After(r)
    BY <1>0, <1>16 DEF Solo
  <2>1. InBody(r) => Op(r) # "terminal"
    BY <1>6, <1>16 DEF Promised
  <2>2. Unasked(r)'
    BY <1>3, <2>0 DEF Unasked
  <2>3. Announced(r)'
    <3> SUFFICES ASSUME Live(r), ~Excused(r) PROVE rig'[r].fif \/ rig'[r].warned \/ rig'[r].killed
      BY <1>9 DEF Announced
    <3>1. CASE rig[r].warned \/ rig[r].killed
      BY <1>2, <3>1
    <3>2. CASE rig[r].fif
      <4>1. ~Shows(r)
        BY <1>0, <1>1, <1>16, <2>0, <3>2, ShowsOver
      <4>2. pc'[r].part # "end"
        <5>1. pc[r].part # "pre" /\ pc[r].part \in {"body", "late", "fin"}
          BY <1>0, <3>2 DEF Aloft
        <5>2. Onward(r) => pc'[r].part # "end"
          BY <1>0, <1>7, <3>2, <5>1 DEF Onward, Succ, Placed
        <5> QED BY <1>2, <5>1, <5>2 DEF Going
      <4> QED BY <1>2, <2>1, <3>2, <4>1, <4>2
    <3> QED BY <2>0, <3>1, <3>2 DEF Announced
  <2>4. Course(r)'
    <3> SUFFICES ASSUME Watched(r)'
        PROVE /\ c64.sock => Fetching
              /\ Fetching => /\ ~c64.key /\ ~c64.sent /\ c64.tcp # "CONNECT_FAIL"
                             /\ c64.tcp = "CLOSED" => ~c64.sock
                             /\ ~OnScreen("closed")' /\ ~OnScreen("connfail")'
              /\ c64.key \/ c64.ph = "dial" => ~c64.sent /\ NotOpened' /\ ~rig'[r].seen
              /\ c64.ph = "dial" => ~c64.key
              /\ c64.key => c64.ph \in {"boot", "ready"}
              /\ c64.sent => c64.ph = "ready" /\ ~c64.key /\ job[r] \in Routine
              /\ job[r] \in Routine => Silent' /\ ~c64'.q
              /\ job[r] \in PlainTcp \ NoCrypto => c64.ev = "no" /\ c64.ph # "tls"
              /\ Fetching /\ OnScreen("tlsfail")' => c64.ph = "close" /\ c64.out = "refused"
              /\ job[r] \in NoCrypto \ {"m3_ab"} =>
                   c64.ph # "tls" /\ ~(Fetching /\ OnScreen("tlsfail")')
      BY <1>1, <1>3, <1>9 DEF Course
    <3>1. Watched(r)
      BY <1>10 DEF Watched
    <3>2. pc'[r].part # "end"
      BY <1>2 DEF Watched, InBody, Going
    <3>3. NotOpened => ~ProbeOpen
      BY DEF NotOpened, ProbeOpen
    <3>4. c64.key \/ c64.ph = "dial" => ~rig'[r].seen
      BY <1>2, <2>0, <3>1, <3>2, <3>3 DEF Course
    <3> QED BY <1>3, <1>9, <2>0, <3>1, <3>4 DEF Course
  <2>5. Before(r)'
    <3> SUFFICES ASSUME InBody(r)', c64.prog = r, ~Pressed(job[r], At(r))'
        PROVE c64.ph \in {"boot", "ready"} /\ ~c64.key /\ ~c64'.q /\ ~c64.sock /\ NotOpened'
      BY <1>3 DEF Before
    <3>1. CASE pc'[r] = pc[r] /\ InBody(r) /\ ~Onward(r)
      <4>1. ~Pressed(job[r], At(r))
        BY <1>1, <3>1 DEF At
      <4>2. c64.ph \in {"boot", "ready"} /\ ~c64.key /\ ~c64.q /\ ~c64.sock /\ NotOpened
        BY <2>0, <3>1, <4>1 DEF Before
      <4> QED BY <1>3, <1>9, <3>1, <4>2
    <3>2. CASE InBody(r) /\ Stepped(r) /\ Passes(r)
      <4>1. Op(r) # "arm_done" => ~Pressed(job[r], At(r))
        BY <3>2 DEF Stepped, Passes
      <4>2. CASE ~Pressed(job[r], At(r))
        <5>1. c64.ph \in {"boot", "ready"} /\ ~c64.key /\ ~c64.q /\ ~c64.sock /\ NotOpened
          BY <2>0, <3>2, <4>2 DEF Before
        <5>2. Op(r) # "press_q"
          BY <1>6, <1>16, <3>2, <4>2 DEF Promised
        <5> QED BY <1>3, <1>9, <5>1, <5>2
      <4>3. CASE Op(r) = "arm_done"
        <5>1. /\ c64.sent /\ job[r] \in PlainTcp \ NoCrypto /\ "park" \notin Calls[job[r]]
          <6>1. Code(r) > 0 /\ Code(r) \in Int
            BY <1>0, <1>1, <1>6, <1>16, <3>2, <4>3, OpPlace DEF Promised
          <6> QED BY <1>6, <3>2, <4>3, <6>1 DEF Promised, Passes
        <5>2. Watched(r) /\ job[r] \in Routine
          BY <3>2, <5>1 DEF Watched, PlainTcp
        <5>3. c64.ph = "ready" /\ ~c64.key /\ Silent /\ ~c64.q /\ c64.ev = "no" /\ ~c64.sock
          BY <2>0, <5>1, <5>2 DEF Course, Fetching
        <5>4. Tcp = "unreadable"
          BY <5>1, <5>2, <5>3 DEF Tcp, TcpReadable
        <5> QED BY <1>3, <1>9, <4>3, <5>3, <5>4 DEF NotOpened
      <4> QED BY <4>1, <4>2, <4>3
    <3> QED BY <1>4, <1>5, <3>1, <3>2
  <2>6. After(r)'
    <3> SUFFICES ASSUME InBody(r)'
        PROVE /\ ~Pending(job[r], At(r))' => ~Live(r) \/ Hanging(r)'
              /\ Flying(job[r], At(r))' => rig'[r].fif
              /\ Booted(job[r], At(r))' /\ c64.prog = r =>
                   c64.ph # "boot" /\ (Waited(job[r], At(r))' => ~c64.key)
      BY <1>3, <1>9 DEF After
    <3>1. CASE pc'[r] = pc[r] /\ InBody(r) /\ ~Onward(r)
      <4>1. At(r)' = At(r) /\ job'[r] = job[r]
        BY <1>1, <3>1 DEF At
      <4>2. rig[r].fif => rig'[r].fif
        BY <1>2, <2>1, <3>1
      <4>3. Hanging(r)' <=> Hanging(r)
        BY <1>9, <4>1 DEF Hanging
      <4> QED BY <2>0, <3>1, <4>1, <4>2, <4>3 DEF After
    <3>2. CASE Onward(r) /\ InBody(r) /\ Stepped(r) /\ Passes(r) /\ At(r)' = At(r) + 1
      <4>0. Promised(r) /\ Code(r) \in Int
        BY <1>0, <1>1, <1>6, <3>2, OpPlace
      <4>1. ASSUME ~Pending(job[r], At(r))' PROVE ~Live(r) \/ Hanging(r)'
        <5>0. c64.sent \/ OnScreen("closed") \/ OnScreen("connfail") => ~Live(r)
          <6>1. c64.prog = r => Watched(r)
            BY <3>2 DEF Watched
          <6> QED BY <2>0, <6>1 DEF Course, Live, Fetching, NotOpened, Silent
        <5>1. \/ ~Pending(job[r], At(r))
              \/ Op(r) \in {"arm_done", "settled", "closed"}
          BY <3>2, <4>1 DEF Stepped, Passes
        <5>2. Op(r) = "closed" => Code(r) > 0
          <6>1. pc[r].i < Len(Part(r))
            BY <1>0, <3>2 DEF Onward, Succ, Placed, InBody
          <6>2. pc[r].i # Len(Part(r))
            BY <1>0, <1>1, <6>1, PlaceOf
          <6> QED BY <1>16, <4>0, <6>2 DEF Promised
        <5>3. Op(r) \in {"arm_done", "closed"} => ~Live(r)
          BY <1>16, <3>2, <4>0, <5>0, <5>2 DEF Promised, Passes
        <5>4. Op(r) = "judge_closed" => ~Live(r)
          BY <1>16, <3>2, <4>0, <5>0 DEF Promised, Passes
        <5>5. CASE Op(r) = "settled"
          <6>1. Ending(ToSet(c64.scr)) /\ job[r] \in NoCrypto
            BY <1>16, <3>2, <4>0, <5>5 DEF Promised, Passes
          <6>2. OnScreen("closed") \/ OnScreen("connfail") \/ OnScreen("tlsfail")
            BY <6>1 DEF Ending, OnScreen
          <6>3. OnScreen("tlsfail") => ~Live(r) \/ Excused(r)
            BY <1>0, <1>1, <1>16, <2>0, <3>2, <6>1, ShowsOver DEF Shows
          <6>4. Excused(r) => Hanging(r)'
            <7>1. Excused(r) => Body(job[r])[At(r) + 1][1] = "judge_closed"
              BY <1>16, <4>0, <5>5 DEF Promised, Excused
            <7> QED BY <1>1, <1>9, <3>2, <7>1 DEF Hanging
          <6> QED BY <5>0, <6>2, <6>3, <6>4
        <5>6. CASE ~Pending(job[r], At(r))
          <6>1. Hanging(r) => Op(r) = "judge_closed"
            BY <1>0, <3>2, BodyOp DEF Hanging
          <6> QED BY <2>0, <3>2, <5>4, <5>6, <6>1 DEF After
        <5> QED BY <5>1, <5>3, <5>5, <5>6
      <4>2. ASSUME Flying(job[r], At(r))' PROVE rig'[r].fif
        <5>1. Op(r) = "in_flight" \/ (Flying(job[r], At(r)) /\ Op(r) \notin Clears)
          BY <3>2, <4>2 DEF Stepped
        <5> QED BY <1>2, <2>0, <2>1, <3>2, <5>1 DEF Passes, After
      <4>3. ASSUME Booted(job[r], At(r))', c64.prog = r
            PROVE c64.ph # "boot" /\ (Waited(job[r], At(r))' => ~c64.key)
        <5>0. Watched(r)
          BY <3>2, <4>3 DEF Watched
        <5>1. CASE Op(r) = "dhcp"
          <6>1. c64.ph = "ready" /\ ~Pressed(job[r], At(r))
            BY <1>16, <3>2, <4>0, <5>1 DEF Promised, Passes
          <6> QED BY <2>0, <3>2, <4>3, <6>1 DEF Before
        <5>2. CASE Op(r) # "dhcp"
          <6>1. Booted(job[r], At(r))
            BY <3>2, <4>3, <5>2 DEF Stepped
          <6>2. c64.ph # "boot" /\ (Waited(job[r], At(r)) => ~c64.key)
            BY <2>0, <3>2, <4>3, <6>1 DEF After
          <6>3. Op(r) = "ended" => ~c64.key
            BY <2>0, <3>2, <5>0, <6>2 DEF Passes, Course, NotOpened, Silent
          <6> QED BY <3>2, <6>2, <6>3 DEF Stepped
        <5> QED BY <5>1, <5>2
      <4> QED BY <4>1, <4>2, <4>3
    <3>3. CASE pc[r].part = "pre" /\ Begun(r)
      BY <1>5, <3>3 DEF Begun, Live
    <3> QED BY <1>4, <3>1, <3>2, <3>3
  <2> QED BY <2>2, <2>3, <2>4, <2>5, <2>6 DEF Solo
<1> QED BY <1>1, <1>15, <1>16 DEF Single

\* A rig that leaves its fetch, told or killed, behind.
LEMMA StopsKeep ==
    ASSUME NEW r \in Rigs, job' = job, c64' = c64, ~rig'[r].fif, pc'[r].part \in {"fin", "end"},
           pc'[r].part = "fin" => ~rig'[r].killed,
           Single(r) => Solo(r) /\ (Live(r) => rig'[r].warned \/ rig'[r].killed \/ Excused(r))
    PROVE  General(r)' /\ (Single(r)' => Solo(r)')
<1>1. ~InBody(r)' /\ ~Watched(r)'
    BY DEF InBody, Watched
<1>2. General(r)'
    BY <1>1 DEF General, Powered, Aloft, Unseen, Runs
<1>3. Course(r)' /\ Before(r)' /\ After(r)'
    BY <1>1 DEF Course, Before, After
<1>4. Single(r) => Unasked(r)' /\ Announced(r)'
    BY DEF Solo, Unasked, Announced, Live, Excused
<1> QED BY <1>2, <1>3, <1>4 DEF Solo, Single

LEMMA DisablesKeeps ==
    ASSUME PoisonInv, NEW r \in Rigs, RigStep(r), Disables(r)
    PROVE  General(r)' /\ (Single(r)' => Solo(r)')
<1>0. Placed /\ General(r) /\ (Single(r) => Solo(r)) /\ Aloft(r) /\ Unseen(r)
    BY DEF PoisonInv, MachineInv, SectionInv, General
<1>1. pc[r].part # "end" /\ job' = job
    BY <1>0, RigMoves
<1>2. /\ Op(r) \in {"disable", "disable_always"} /\ Onward(r) /\ Told(r) /\ c64' = c64
    BY DEF Disables
<1>3. pc[r].part = "fin" /\ ~rig[r].fif
    BY <1>0, <1>1, <1>2, OpWhere, AloftLock
<1>4. pc'[r].part \in {"fin", "end"}
    BY <1>0, <1>2, <1>3 DEF Onward, Succ, Placed
<1>5. ~rig'[r].fif /\ rig'[r].warned = rig[r].warned /\ rig'[r].killed = rig[r].killed
    BY <1>2, <1>3 DEF Told
<1>6. pc'[r].part = "fin" => ~rig'[r].killed
    BY <1>0, <1>1, <1>5 DEF Unseen
<1>7. Single(r) => Solo(r) /\ (Live(r) => rig'[r].warned \/ rig'[r].killed \/ Excused(r))
    BY <1>0, <1>3, <1>5 DEF Solo, Announced
<1> QED BY <1>1, <1>2, <1>4, <1>5, <1>6, <1>7, StopsKeep

LEMMA DiesKeeps ==
    ASSUME PoisonInv, NEW r \in Rigs, RigStep(r), Dies(r)
    PROVE  General(r)' /\ (Single(r)' => Solo(r)')
<1>0. Placed /\ General(r) /\ (Single(r) => Solo(r)) /\ Unseen(r)
    BY DEF PoisonInv, MachineInv, SectionInv, General
<1>1. pc[r].part # "end" /\ job' = job /\ ~rig[r].killed
    BY <1>0, RigMoves DEF Unseen
<1>2. /\ pc'[r].part = "end" /\ c64' = c64 /\ ~rig'[r].fif /\ rig'[r].warned = rig[r].warned
      /\ rig'[r].killed = rig[r].fif
    BY DEF Dies
<1>3. Single(r) => Solo(r) /\ (Live(r) => rig'[r].warned \/ rig'[r].killed \/ Excused(r))
    BY <1>0, <1>1, <1>2 DEF Solo, Announced
<1> QED BY <1>1, <1>2, <1>3, StopsKeep

\* The step after which the fetch before is lost, if it was not over.
LEMMA ResetsKeeps ==
    ASSUME PoisonInv, NEW r \in Rigs, RigStep(r), Resets(r)
    PROVE  General(r)' /\ (Single(r)' => Solo(r)') /\ NoSilentPoison'
<1>0. /\ Placed /\ MachineType /\ Section /\ General(r) /\ (Single(r) => Solo(r)) /\ r # NoRig
      /\ Powered(r) /\ Aloft(r) /\ Unseen(r) /\ Runs(r) /\ NoSilentPoison
    BY RigAssumption DEF PoisonInv, MachineInv, SectionInv, General
<1>1. pc[r].part # "end" /\ job' = job /\ Moves(r) /\ job \in [Rigs -> Kinds]
    BY <1>0, RigMoves DEF Placed
<1>2. /\ Op(r) = "reset" \/ (Op(r) = "orphan" /\ rig[r].warned)
      /\ Onward(r) /\ Told(r) /\ ResetEffect
    BY DEF Resets
<1>3. /\ c64' = Blank /\ c64'.prog = NoRig /\ dev'.uci = dev.uci /\ c64'.prog # r
  <2>1. c64' = Blank /\ dev' = [dev EXCEPT !.lease = @ /\ ~c64.sock]
    BY <1>2 DEF ResetEffect
  <2>2. dev \in DevType
    BY <1>0 DEF MachineType
  <2> QED BY <1>0, <2>1, <2>2 DEF Blank, DevType
<1>4. /\ Op(r) = "reset" => InBody(r) \/ (pc[r].part = "fin" /\ ~Flies(job[r]))
      /\ Op(r) = "orphan" => pc[r].part = "late"
    BY <1>0, <1>1, OpWhere
<1>5. InBody(r)' => InBody(r) /\ Op(r) = "reset" /\ Stepped(r)
  <2>1. InBody(r)' => \/ pc'[r] = pc[r]
                      \/ Onward(r) /\ InBody(r) /\ Stepped(r)
                      \/ pc[r].part = "pre"
    BY <1>0, <1>1, BodyMoves
  <2> QED BY <1>0, <1>1, <1>2, <1>4, <2>1, OnwardMoves DEF InBody
<1>6. ~Watched(r)' /\ ~Live(r)'
    BY <1>3 DEF Watched, Live
<1>7. pc'[r].part # "end" => rig'[r].fif = rig[r].fif /\ rig'[r].seen = rig[r].seen
    BY <1>2 DEF Told
<1>8. rig'[r].fif => rig[r].fif /\ pc'[r].part # "end"
    BY <1>2, <1>7 DEF Told
<1>9. Powered(r)'
    BY <1>0, <1>3, <1>5, <1>6, <1>8 DEF Powered, Stepped
<1>10. Aloft(r)'
  <2>1. Op(r) \notin Guards
    BY <1>2 DEF Guards
  <2> QED BY <1>0, <1>1, <1>8, <2>1, AloftNext
<1>11. Unseen(r)'
  <2>1. pc'[r].part \notin {"pre", "end"} \/ pc'[r].part = "end"
    BY <1>0, <1>2, <1>4 DEF InBody, Onward, Succ, Placed
  <2> QED BY <1>0, <1>1, <1>2, <1>5, <1>7, <2>1 DEF Unseen, Told, InBody
<1>12. Runs(r)'
  <2>1. Bare'
    BY <1>3 DEF Bare, Blank
  <2>2. InBody(r)' => ~Running(job[r], At(r))'
    BY <1>5 DEF Stepped, Starts
  <2> QED BY <2>1, <2>2 DEF Runs
<1>13. Single(r) => Solo(r)'
  <2>1. Unasked(r)' /\ Announced(r)' /\ Course(r)' /\ Before(r)'
    BY <1>3, <1>6 DEF Unasked, Announced, Course, Before
  <2>2. Single(r) => After(r)'
    BY <1>0, <1>3, <1>5, <1>6, <1>7 DEF Solo, After, Stepped, InBody
  <2> QED BY <2>1, <2>2 DEF Solo
<1>14. NoSilentPoison'
  <2> DEFINE p == c64.prog
  <2>1. CASE ~(c64.sock /\ ~rig[p].warned /\ ~rig[p].killed)
    BY <1>0, <1>2, <2>1 DEF ResetEffect, NoSilentPoison
  <2>2. CASE c64.sock /\ ~rig[p].warned /\ ~rig[p].killed
    <3>1. p \in Rigs
      BY <1>0, <2>2 DEF PoisonInv, MachineType, C64Type
    <3>2. General(p) /\ (Single(p) => Solo(p))
      BY <3>1 DEF PoisonInv
    <3>3. ASSUME Single(p), ~Excused(p) PROVE FALSE
      <4>1. Live(p) /\ Solo(p)
        BY <2>2, <3>2, <3>3 DEF Live
      <4>2. rig[p].fif
        BY <2>2, <3>3, <4>1 DEF Solo, Announced
      <4>3. HasLock(p) /\ HasLock(r)
        <5>1. Op(r) \notin Checks \cup Judges \cup {"lock"}
          BY <1>2 DEF Checks, Judges
        <5> QED BY <1>0, <1>1, <3>1, <3>2, <4>2, <5>1, DeviceOp, AloftLock DEF General
      <4>4. p = r
        BY <1>0, <3>1, <4>3 DEF Section
      <4> HIDE DEF p
      <4>5. Op(r) = "reset"
        BY <1>2, <2>2, <4>4
      <4>6. CASE InBody(r)
        <5>1. ~Pending(job[r], At(r))
          BY <1>0, <3>3, <4>4, <4>5, <4>6, BodyPromise DEF Promised
        <5>2. ~Hanging(r)
          BY <3>3, <4>4 DEF Hanging
        <5> QED BY <4>1, <4>4, <4>6, <5>1, <5>2 DEF Solo, After
      <4>7. CASE ~Flies(job[r])
        BY <1>0, <4>2, <4>4, <4>7 DEF Aloft
      <4> QED BY <1>4, <4>5, <4>6, <4>7
    <3>4. untold' = untold \cup {[kind |-> job[p], out |-> c64.out]}
      BY <1>2, <2>2 DEF ResetEffect
    <3>5. job[p] \in ManyFetches \/ (job[p] = "m3_ab" /\ c64.out = "refused")
      BY <3>3 DEF Single, Excused
    <3> HIDE DEF p
    <3>6. \A u \in untold' : u \in untold \/ (u.kind = job[p] /\ u.out = c64.out)
      BY <3>4
    <3> QED BY <1>0, <3>5, <3>6 DEF NoSilentPoison
  <2> QED BY <2>1, <2>2
<1> QED BY <1>1, <1>9, <1>10, <1>11, <1>12, <1>13, <1>14 DEF General, Single

LEMMA BootsKeeps ==
    ASSUME PoisonInv, NEW r \in Rigs, RigStep(r), Boots(r)
    PROVE  General(r)' /\ (Single(r)' => Solo(r)')
<1>0. /\ Placed /\ MachineType /\ General(r) /\ (Single(r) => Solo(r)) /\ r # NoRig
      /\ Powered(r) /\ Aloft(r) /\ Unseen(r) /\ Runs(r)
    BY RigAssumption DEF PoisonInv, MachineInv, SectionInv, General
<1>1. pc[r].part # "end" /\ job' = job /\ Moves(r)
    BY <1>0, RigMoves
<1>2. /\ Op(r) \in Starts /\ Onward(r) /\ Told(r) /\ dev' = dev
      /\ c64'.ph = "boot" /\ c64'.prog = r /\ c64'.key = c64.key /\ c64'.sock = c64.sock
      /\ c64'.ev = c64.ev /\ c64'.sent = c64.sent
      /\ c64'.kept = c64.kept /\ c64'.scr = c64.scr /\ c64'.q = c64.q
    BY DEF Boots
<1>3. InBody(r) /\ Op(r) \notin Guards
    BY <1>0, <1>1, <1>2, OpWhere DEF Starts, Checks, Judges, Tidying, Guards
<1>4. JustReset(job[r], At(r)) /\ AfterEnable(job[r], At(r))
    BY <1>0, <1>2, <1>3, BodyPromise DEF Promised
<1>5. Bare /\ dev.uci
    BY <1>0, <1>3, <1>4 DEF Runs, Powered
<1>6. /\ ~c64'.key /\ ~c64'.sock /\ c64'.ev = "no" /\ ~c64'.sent /\ ~c64'.kept /\ c64'.scr = <<>> /\ ~c64'.q
    BY <1>2, <1>5 DEF Bare
<1>7. pc'[r].part \in {"body", "fin"}
    BY <1>0, <1>2, <1>3 DEF Onward, Succ, Placed, InBody
<1>8. /\ rig'[r].fif = rig[r].fif /\ rig'[r].seen = rig[r].seen
      /\ rig'[r].warned = rig[r].warned /\ rig'[r].killed = rig[r].killed
    BY <1>2, <1>7 DEF Told
<1>9. InBody(r)' => Stepped(r)
  <2>1. InBody(r)' => \/ pc'[r] = pc[r]
                      \/ Onward(r) /\ InBody(r) /\ Stepped(r)
                      \/ pc[r].part = "pre"
    BY <1>0, <1>1, BodyMoves
  <2> QED BY <1>0, <1>1, <1>2, <1>3, <2>1, OnwardMoves DEF InBody
<1>10. Powered(r)' /\ Unseen(r)'
    BY <1>0, <1>1, <1>2, <1>3, <1>5, <1>7, <1>8 DEF Powered, Unseen, InBody
<1>11. Aloft(r)'
    BY <1>0, <1>1, <1>3, <1>7, <1>8, AloftNext
<1>12. Runs(r)'
    BY <1>2, <1>9 DEF Runs, Stepped, Starts
<1>13. ASSUME Single(r) PROVE Solo(r)'
  <2>1. ~Live(r)' /\ ~Fetching'
    BY <1>2, <1>6 DEF Live, Fetching
  <2>2. Silent'
    BY <1>6, EmptyScreen DEF Silent, OnScreen
  <2>3. NotOpened'
    BY <1>2, <1>6, <2>2 DEF NotOpened, Tcp, TcpReadable
  <2>4. Unasked(r)' /\ Announced(r)'
    BY <1>2, <1>6, <2>1 DEF Unasked, Announced
  <2>5. Course(r)' /\ Before(r)'
    BY <1>2, <1>6, <2>1, <2>2, <2>3 DEF Course, Before
  <2>6. After(r)'
    <3>1. InBody(r)' => ~Booted(job[r], At(r))' /\ (Flying(job[r], At(r))' => Flying(job[r], At(r)))
      BY <1>2, <1>9 DEF Stepped, Starts
    <3> QED BY <1>0, <1>3, <1>8, <1>13, <2>1, <3>1 DEF Solo, After
  <2> QED BY <2>4, <2>5, <2>6 DEF Solo
<1> QED BY <1>1, <1>10, <1>11, <1>12, <1>13 DEF General, Single

LEMMA AsksKeeps ==
    ASSUME PoisonInv, NEW r \in Rigs, RigStep(r), Asks(r)
    PROVE  General(r)' /\ (Single(r)' => Solo(r)')
<1>0. /\ Placed /\ MachineType /\ General(r) /\ (Single(r) => Solo(r)) /\ r # NoRig
      /\ Powered(r) /\ Aloft(r) /\ Unseen(r) /\ Runs(r)
    BY RigAssumption DEF PoisonInv, MachineInv, SectionInv, General
<1>1. pc[r].part # "end" /\ job' = job /\ Moves(r)
    BY <1>0, RigMoves
<1>2. /\ Op(r) \in Presses /\ Onward(r) /\ dev' = dev
      /\ c64'.ph = c64.ph /\ c64'.prog = c64.prog /\ c64'.key /\ c64'.sock = c64.sock
      /\ c64'.tcp = c64.tcp /\ c64'.ev = c64.ev /\ c64'.kept = c64.kept
      /\ c64'.scr = c64.scr /\ c64'.q = c64.q
      /\ ~c64'.sent \/ (c64'.sent = c64.sent /\ Op(r) = "press_g")
      /\ rig'[r].warned = rig[r].warned /\ rig'[r].killed = rig[r].killed
      /\ rig'[r].seen = rig[r].seen
      /\ rig'[r].fif \/ (rig'[r].fif = rig[r].fif /\ Op(r) = "press_g")
    BY DEF Asks
<1>3. InBody(r) /\ Op(r) \notin Guards /\ Flies(job[r]) /\ (Op(r) = "press_g" => job[r] \notin Routine)
    BY <1>0, <1>1, <1>2, OpWhere DEF Presses, Checks, Judges, Tidying, Guards
<1>4. Promised(r)
    BY <1>0, <1>3, BodyPromise
<1>5. c64.prog = r /\ dev.uci
    BY <1>0, <1>2, <1>3, <1>4 DEF Promised, Runs, Powered
<1>6. pc'[r].part \in {"body", "fin"}
    BY <1>0, <1>2, <1>3 DEF Onward, Succ, Placed, InBody
<1>7. InBody(r)' => Stepped(r)
  <2>1. InBody(r)' => \/ pc'[r] = pc[r]
                      \/ Onward(r) /\ InBody(r) /\ Stepped(r)
                      \/ pc[r].part = "pre"
    BY <1>0, <1>1, BodyMoves
  <2> QED BY <1>0, <1>1, <1>2, <1>3, <2>1, OnwardMoves DEF InBody
<1>8. Powered(r)' /\ Unseen(r)'
    BY <1>0, <1>1, <1>2, <1>3, <1>5, <1>6 DEF Powered, Unseen, InBody
<1>9. Aloft(r)'
    BY <1>0, <1>1, <1>3, <1>6, AloftNext
<1>10. Runs(r)'
    BY <1>2, <1>5, <1>7 DEF Runs, Stepped, Presses
<1>11. ASSUME Single(r) PROVE Solo(r)'
  <2>0. Solo(r) /\ Unasked(r) /\ Course(r) /\ Before(r) /\ After(r) /\ Watched(r)
    BY <1>0, <1>3, <1>5, <1>11 DEF Solo, Watched
  <2>1. ~Pressed(job[r], At(r)) /\ (Op(r) = "press_g" => Flying(job[r], At(r)))
    BY <1>2, <1>4, <1>11 DEF Promised
  <2>2. c64.ph \in {"boot", "ready"} /\ ~c64.key /\ ~c64.q /\ ~c64.sock /\ NotOpened
    BY <1>3, <1>5, <2>0, <2>1 DEF Before
  <2>3. rig'[r].fif
    BY <1>2, <1>3, <2>0, <2>1 DEF After
  <2>4. ~c64'.sent
    BY <1>2, <1>3, <2>0 DEF Course
  <2>5. (Silent' <=> Silent) /\ ~Fetching'
    BY <1>2, <2>2 DEF Silent, OnScreen, Fetching
  <2>6. NotOpened'
    <3>1. TcpReadable' => TcpReadable
      BY <1>1, <1>2, <2>4 DEF TcpReadable
    <3>2. Tcp' \in {"CLOSED", "unreadable"}
      BY <1>2, <2>2, <3>1 DEF Tcp, NotOpened
    <3> QED BY <1>2, <2>2, <2>5, <3>2 DEF NotOpened
  <2>7. Unasked(r)' /\ Announced(r)'
    BY <1>2, <2>0, <2>3 DEF Unasked, Announced
  <2>8. Course(r)'
    <3>1. ~rig'[r].seen
      BY <1>0, <1>2, <1>3 DEF Unseen, InBody
    <3>2. job[r] \in Routine => Silent' /\ ~c64'.q
      BY <1>2, <2>0, <2>5 DEF Course
    <3>3. job[r] \in PlainTcp \ NoCrypto => c64'.ev = "no" /\ c64'.ph # "tls"
      BY <1>2, <2>0 DEF Course
    <3> QED BY <1>1, <1>2, <2>2, <2>4, <2>5, <2>6, <3>1, <3>2, <3>3 DEF Course
  <2>9. Before(r)' /\ After(r)'
    <3>1. InBody(r)' => /\ Pressed(job[r], At(r))' /\ Pending(job[r], At(r))'
                        /\ ~Waited(job[r], At(r))'
                        /\ Booted(job[r], At(r))' => Booted(job[r], At(r))
      BY <1>2, <1>7 DEF Stepped, Presses
    <3>2. InBody(r)' /\ Booted(job[r], At(r))' => c64'.ph # "boot"
      BY <1>2, <1>3, <1>5, <2>0, <3>1 DEF After
    <3> QED BY <2>3, <3>1, <3>2 DEF Before, After
  <2> QED BY <2>7, <2>8, <2>9 DEF Solo
<1> QED BY <1>1, <1>8, <1>9, <1>10, <1>11 DEF General, Single

LEMMA RigPoison ==
    ASSUME PoisonInv, NEW r \in Rigs, RigStep(r), MachineInv'
    PROVE  PoisonInv'
<1>0. Placed /\ MachineType /\ Placed' /\ NoRig \notin Rigs
    BY RigAssumption DEF PoisonInv, MachineInv, SectionInv
<1>1. Looks(r) \/ Disables(r) \/ Resets(r) \/ Boots(r) \/ Asks(r) \/ Dies(r)
    BY <1>0, RigShape
<1>2. General(r)' /\ (Single(r)' => Solo(r)')
    BY <1>0, <1>1, LooksKeeps, DisablesKeeps, ResetsKeeps, BootsKeeps, AsksKeeps, DiesKeeps
<1>3. \A q \in Rigs : General(q)' /\ (Single(q)' => Solo(q)')
    BY <1>2, OtherKeeps
<1>4. NoSilentPoison'
  <2>1. CASE Resets(r)
    BY <2>1, ResetsKeeps
  <2>2. CASE ~Resets(r)
    BY <1>1, <2>2 DEF Looks, Disables, Boots, Asks, Dies, PoisonInv, NoSilentPoison
  <2> QED BY <2>1, <2>2
<1>5. c64'.prog = NoRig => c64'.ph = "basic" /\ ~c64'.sock
    BY <1>0, <1>1 DEF Looks, Mild, Disables, Resets, ResetEffect, Blank, Boots, Asks, Dies, PoisonInv
<1> QED BY <1>3, <1>4, <1>5 DEF PoisonInv

-----------------------------------------------------------------------------
(* What the C64 does meanwhile *)

LEMMA AppendLine ==
    ASSUME NEW s \in Seq(Lines), NEW line, NEW other, other \in ToSet(Append(s, line))
    PROVE  other \in ToSet(s) \/ other = line
BY DEF ToSet

\* Of the C64's steps, as far as a fetch goes.
Rest(S) == \A f \in S : c64'[f] = c64[f]
Draws(S) == c64'.scr = c64.scr \/ (Kind \notin Routine /\ \E l \in S : c64'.scr = Append(c64.scr, l))
Booting == /\ c64.ph = "boot" /\ c64'.ph = "ready" /\ c64'.tcp = "CLOSED" /\ c64'.ev = "no"
           /\ c64'.scr = Append(c64.scr, "menu") /\ Rest({"key", "q", "sock", "sent", "kept"})
Keying == /\ c64.ph = "ready" /\ c64.key /\ c64'.ph = "dial" /\ ~c64'.key /\ ~c64'.sent
          /\ Draws({"get"}) /\ c64'.tcp = (IF Kind \in Routine THEN "CLOSED" ELSE c64.tcp)
          /\ c64'.ev \in {c64.ev, "no"} /\ Rest({"q", "sock", "kept"})
Quitting == /\ c64.ph = "ready" /\ c64.q /\ ~c64.key /\ Kind \notin Routine /\ c64'.ph = "basic" /\ ~c64'.q
            /\ Rest({"key", "sock", "tcp", "ev", "scr", "sent", "kept", "out"})
Failing == /\ c64.ph = "dial" /\ c64'.ph = "ready" /\ c64'.sent = (c64.sent \/ Kind \in Routine)
           /\ Draws({"tlsfail", "connfail"}) /\ Rest({"key", "q", "sock", "ev", "kept"})
Dialling == /\ c64.ph = "dial" /\ c64'.ph \in {"recv", "tls"} /\ c64'.sock /\ c64'.tcp = "CONNECTED"
            /\ c64'.ph = "tls" => Kind \notin PlainTcp \cup (NoCrypto \ {"m3_ab"})
            /\ c64'.ev = c64.ev \/ Kind \in NoCrypto
            /\ Rest({"key", "q", "scr", "sent", "kept"})
Shaking == /\ c64.ph = "tls" /\ c64'.ph \in {"recv", "close"} /\ Draws({"tlsfail"})
           /\ c64'.tcp = c64.tcp \/ c64'.tcp \in {"CONNECTED", "ERROR"}
           /\ c64'.ph = "recv" => c64'.scr = c64.scr
           /\ c64'.ph = "close" => c64'.out = "refused"
           /\ Rest({"key", "q", "sock", "sent", "kept"})
Reading == /\ c64.ph = "recv" /\ c64'.ph \in {"recv", "viewer", "close"}
           /\ \/ c64'.tcp = c64.tcp /\ c64'.sock = c64.sock
              \/ c64'.tcp # "CONNECT_FAIL" /\ c64'.sock = (c64.sock /\ c64'.tcp # "CLOSED")
           /\ Rest({"key", "q", "ev", "scr", "sent", "kept"})
Leaving == /\ c64.ph = "viewer" /\ c64'.ph = "close" /\ ~c64'.q
           /\ Rest({"key", "sock", "tcp", "ev", "scr", "sent", "kept"})
Closing == /\ c64.ph = "close" /\ c64'.sock = (c64.sock /\ ~dev.uci)
           /\ c64'.kept => c64.kept \/ Kind \in Changing
           /\ Draws({"closed"}) /\ Rest({"key", "q", "ev", "out"})
           /\ \/ c64'.ph = "ready" /\ c64'.sent = (c64.sent \/ Kind \in Routine)
              \/ c64'.ph = "asking" /\ c64.kept

LEMMA ShownDraws ==
    ASSUME NEW line, NEW S, line \in S, c64'.scr = Shown(line)
    PROVE  Draws(S)
BY DEF Draws, Shown

LEMMA ReadyFields ==
    ASSUME NEW d \in C64Type
    PROVE  /\ Ready(d).ph = "ready" /\ Ready(d).sent = (d.sent \/ Kind \in Routine)
           /\ Ready(d).key = d.key /\ Ready(d).q = d.q /\ Ready(d).sock = d.sock /\ Ready(d).tcp = d.tcp
           /\ Ready(d).ev = d.ev /\ Ready(d).scr = d.scr /\ Ready(d).kept = d.kept
           /\ Ready(d).out = d.out
<1> DEFINE ph2 == "ready"
           sent2 == d.sent \/ Kind \in Routine
<1>1. Ready(d) = [d EXCEPT !.ph = ph2, !.sent = sent2]
    BY DEF Ready
<1> HIDE DEF sent2
<1>2. Ready(d).ph = "ready" /\ Ready(d).sent = sent2
    BY <1>1 DEF C64Type
<1>3. /\ Ready(d).key = d.key /\ Ready(d).q = d.q /\ Ready(d).sock = d.sock /\ Ready(d).tcp = d.tcp
      /\ Ready(d).ev = d.ev /\ Ready(d).scr = d.scr /\ Ready(d).kept = d.kept
      /\ Ready(d).out = d.out
    BY <1>1 DEF C64Type
<1> QED BY <1>2, <1>3 DEF sent2

LEMMA C64Shape ==
    ASSUME MachineType, C64Step
    PROVE  \/ Booting \/ Keying \/ Quitting \/ Failing \/ Dialling \/ Shaking \/ Reading \/ Leaving
           \/ Closing \/ c64.ph = "asking"
<1>1. c64 \in C64Type /\ c64.scr \in Seq(Lines)
    BY DEF MachineType, C64Type
<1>2. CASE Boot
  <2> DEFINE scr2 == Append(c64.scr, "menu")
  <2>1. c64.ph = "boot" /\ c64' = [c64 EXCEPT !.ph = "ready", !.tcp = "CLOSED", !.ev = "no",
                                             !.st = "none", !.scr = scr2]
    BY <1>2 DEF Boot
  <2> HIDE DEF scr2
  <2>2. /\ c64'.ph = "ready" /\ c64'.tcp = "CLOSED" /\ c64'.ev = "no" /\ c64'.scr = scr2
        /\ c64'.key = c64.key /\ c64'.q = c64.q /\ c64'.sock = c64.sock /\ c64'.sent = c64.sent
        /\ c64'.kept = c64.kept
    BY <1>1, <2>1 DEF C64Type
  <2> QED BY <2>1, <2>2 DEF Booting, Rest, scr2
<1>3. CASE TakeKey
  <2> DEFINE ans2 == IF c64.ans = "a" THEN "a" ELSE "no"
             scr2 == Shown("get")
             tcp2 == IF Kind \in Routine THEN "CLOSED" ELSE c64.tcp
             ev2 == IF c64.ev = "err" THEN "err" ELSE "no"
  <2>1. /\ c64.ph = "ready" /\ c64.key
        /\ c64' = [c64 EXCEPT !.ph = "dial", !.key = FALSE, !.sent = FALSE, !.ans = ans2, !.scr = scr2,
                              !.st = "none", !.out = "none", !.tcp = tcp2, !.ev = ev2]
    BY <1>3 DEF TakeKey
  <2>2. ev2 \in {c64.ev, "no"}
    OBVIOUS
  <2> HIDE DEF ans2, scr2, tcp2, ev2
  <2>3. /\ c64'.ph = "dial" /\ ~c64'.key /\ ~c64'.sent /\ c64'.scr = scr2 /\ c64'.tcp = tcp2
        /\ c64'.ev = ev2 /\ c64'.q = c64.q /\ c64'.sock = c64.sock /\ c64'.kept = c64.kept
    BY <1>1, <2>1 DEF C64Type
  <2>4. Draws({"get"})
    BY <2>3, ShownDraws DEF scr2
  <2> QED BY <2>1, <2>2, <2>3, <2>4 DEF Keying, Rest, tcp2
<1>4. CASE TakeQuit
  <2>1. /\ c64.ph = "ready" /\ c64.q /\ ~c64.key /\ Kind \notin Routine
        /\ c64' = [c64 EXCEPT !.ph = "basic", !.q = FALSE]
    BY <1>4 DEF TakeQuit
  <2>2. /\ c64'.ph = "basic" /\ ~c64'.q /\ c64'.key = c64.key /\ c64'.sock = c64.sock
        /\ c64'.tcp = c64.tcp /\ c64'.ev = c64.ev /\ c64'.scr = c64.scr /\ c64'.sent = c64.sent
        /\ c64'.kept = c64.kept /\ c64'.out = c64.out
    BY <1>1, <2>1 DEF C64Type
  <2> QED BY <2>1, <2>2 DEF Quitting, Rest
<1>5. CASE DialFails
  <2>0. PICK t \in {"CONNECT_FAIL", c64.tcp}, how \in {"nodial", "refused"} :
          c64' = Ready([c64 EXCEPT !.tcp = t, !.out = how, !.ans = IF @ = "a" THEN "no" ELSE @,
                          !.scr = Shown(IF how = "refused" THEN "tlsfail" ELSE "connfail")])
    BY <1>5 DEF DialFails
  <2> DEFINE ans2 == IF c64.ans = "a" THEN "no" ELSE c64.ans
             line == IF how = "refused" THEN "tlsfail" ELSE "connfail"
             scr2 == Shown(line)
             d == [c64 EXCEPT !.tcp = t, !.out = how, !.ans = ans2, !.scr = scr2]
  <2>1. c64' = Ready(d) /\ c64.ph = "dial"
    BY <1>5, <2>0 DEF DialFails
  <2>2. /\ line \in {"tlsfail", "connfail"} /\ t \in Sockets /\ how \in Ends /\ ans2 \in Answered
        /\ scr2 \in Seq(Lines)
    <3>1. line \in {"tlsfail", "connfail"} /\ line \in Lines
      BY DEF Lines
    <3> HIDE DEF line
    <3>2. scr2 \in Seq(Lines)
      BY <3>1, ShownType
    <3> QED BY <1>1, <3>1, <3>2 DEF C64Type, Sockets, Ends, Answered
  <2> HIDE DEF ans2, scr2, line
  <2>3. /\ d \in C64Type /\ d.key = c64.key /\ d.q = c64.q /\ d.sock = c64.sock /\ d.ev = c64.ev
        /\ d.kept = c64.kept /\ d.sent = c64.sent /\ d.scr = scr2
    BY <1>1, <2>2 DEF C64Type
  <2> HIDE DEF d
  <2>4. /\ c64'.ph = "ready" /\ c64'.sent = (c64.sent \/ Kind \in Routine) /\ c64'.scr = scr2
        /\ c64'.key = c64.key /\ c64'.q = c64.q /\ c64'.sock = c64.sock /\ c64'.ev = c64.ev
        /\ c64'.kept = c64.kept
    BY <2>1, <2>3, ReadyFields
  <2>5. Draws({"tlsfail", "connfail"})
    BY <2>2, <2>4, ShownDraws DEF scr2
  <2> QED BY <2>1, <2>4, <2>5 DEF Failing, Rest
<1>6. CASE DialOk
  <2> DEFINE ph2 == IF InFirmware \/ Kind \in PlainTcp THEN "recv" ELSE "tls"
             ev2 == IF InFirmware THEN "ok" ELSE c64.ev
  <2>1. /\ c64.ph = "dial"
        /\ c64' = [c64 EXCEPT !.sock = TRUE, !.tcp = "CONNECTED", !.ph = ph2, !.ev = ev2]
    BY <1>6 DEF DialOk
  <2>2. /\ ph2 \in {"recv", "tls"} /\ (ev2 = c64.ev \/ Kind \in NoCrypto)
        /\ ph2 = "tls" => Kind \notin PlainTcp \cup (NoCrypto \ {"m3_ab"})
    BY DEF InFirmware
  <2> HIDE DEF ph2, ev2
  <2>3. /\ c64'.ph = ph2 /\ c64'.ev = ev2 /\ c64'.sock /\ c64'.tcp = "CONNECTED" /\ c64'.key = c64.key
        /\ c64'.q = c64.q /\ c64'.scr = c64.scr /\ c64'.sent = c64.sent /\ c64'.kept = c64.kept
    BY <1>1, <2>1 DEF C64Type
  <2> QED BY <2>1, <2>2, <2>3 DEF Dialling, Rest
<1>7. CASE TlsOk
  <2>1. c64.ph = "tls" /\ c64' = [c64 EXCEPT !.ph = "recv", !.ev = "ok"]
    BY <1>7 DEF TlsOk
  <2>2. /\ c64'.ph = "recv" /\ c64'.tcp = c64.tcp /\ c64'.scr = c64.scr /\ c64'.key = c64.key
        /\ c64'.q = c64.q /\ c64'.sock = c64.sock /\ c64'.sent = c64.sent /\ c64'.kept = c64.kept
    BY <1>1, <2>1 DEF C64Type
  <2> QED BY <2>1, <2>2 DEF Shaking, Rest, Draws
<1>8. CASE TlsFails
  <2>0. PICK t \in {"CONNECTED", "ERROR"} :
          c64' = [c64 EXCEPT !.ph = "close", !.ev = "err", !.out = "refused", !.tcp = t,
                             !.scr = Shown("tlsfail")]
    BY <1>8 DEF TlsFails
  <2> DEFINE scr2 == Shown("tlsfail")
  <2>1. /\ c64.ph = "tls"
        /\ c64' = [c64 EXCEPT !.ph = "close", !.ev = "err", !.out = "refused", !.tcp = t, !.scr = scr2]
    BY <1>8, <2>0 DEF TlsFails
  <2> HIDE DEF scr2
  <2>2. /\ c64'.ph = "close" /\ c64'.tcp = t /\ c64'.scr = scr2 /\ c64'.key = c64.key
        /\ c64'.out = "refused" /\ c64'.q = c64.q /\ c64'.sock = c64.sock /\ c64'.sent = c64.sent /\ c64'.kept = c64.kept
    BY <1>1, <2>1 DEF C64Type
  <2>3. Draws({"tlsfail"})
    BY <2>2, ShownDraws DEF scr2
  <2> QED BY <2>1, <2>2, <2>3 DEF Shaking, Rest
<1>9. CASE RecvHead
  <2>1. c64.ph = "recv" /\ c64' = [c64 EXCEPT !.st = "200"]
    BY <1>9 DEF RecvHead
  <2>2. /\ c64'.ph = c64.ph /\ c64'.tcp = c64.tcp /\ c64'.scr = c64.scr /\ c64'.key = c64.key
        /\ c64'.q = c64.q /\ c64'.sock = c64.sock /\ c64'.sent = c64.sent /\ c64'.kept = c64.kept
        /\ c64'.ev = c64.ev
    BY <1>1, <2>1 DEF C64Type
  <2> QED BY <2>1, <2>2 DEF Reading, Rest
<1>10. CASE RecvEnd
  <2>0. PICK how \in Through, t \in {"CONNECTED", "CLOSED", "ERROR"}, ph2 \in AfterBody :
          c64' = [c64 EXCEPT !.out = how, !.tcp = t, !.sock = @ /\ t # "CLOSED", !.ph = ph2]
    BY <1>10 DEF RecvEnd
  <2> DEFINE sock2 == c64.sock /\ t # "CLOSED"
  <2>1. c64.ph = "recv" /\ c64' = [c64 EXCEPT !.out = how, !.tcp = t, !.sock = sock2, !.ph = ph2]
    BY <1>10, <2>0 DEF RecvEnd
  <2>2. ph2 \in {"viewer", "close"}
    BY DEF AfterBody
  <2> HIDE DEF sock2
  <2>3. /\ c64'.ph = ph2 /\ c64'.tcp = t /\ c64'.sock = sock2 /\ c64'.scr = c64.scr /\ c64'.key = c64.key
        /\ c64'.q = c64.q /\ c64'.sent = c64.sent /\ c64'.kept = c64.kept /\ c64'.ev = c64.ev
    BY <1>1, <2>1 DEF C64Type
  <2> QED BY <2>1, <2>2, <2>3 DEF Reading, Rest, sock2
<1>11. CASE LeavesViewer
  <2>1. c64.ph = "viewer" /\ c64' = [c64 EXCEPT !.ph = "close", !.q = FALSE]
    BY <1>11 DEF LeavesViewer
  <2>2. /\ c64'.ph = "close" /\ ~c64'.q /\ c64'.key = c64.key /\ c64'.sock = c64.sock
        /\ c64'.tcp = c64.tcp /\ c64'.ev = c64.ev /\ c64'.scr = c64.scr /\ c64'.sent = c64.sent
        /\ c64'.kept = c64.kept
    BY <1>1, <2>1 DEF C64Type
  <2> QED BY <2>1, <2>2 DEF Leaving, Rest
<1>12. CASE CloseSocket
  <2> DEFINE records == Kind \in Trusting /\ c64.out # "refused" /\ c64.ans # "y" /\ dev.uci
             sock2 == c64.sock /\ ~dev.uci
             ans2 == IF c64.ans = "a" THEN "no" ELSE c64.ans
             kept2 == c64.kept \/ (records /\ Kind \in Changing)
             scr2 == IF c64.out = "refused" THEN c64.scr ELSE Shown("closed")
             d == [c64 EXCEPT !.sock = sock2, !.tcp = "CLOSED", !.ans = ans2, !.kept = kept2, !.scr = scr2]
  <2>1. c64.ph = "close" /\ (c64' = Ready(d) \/ (c64' = [d EXCEPT !.ph = "asking"] /\ Recorded))
    BY <1>12 DEF CloseSocket
  <2>2. sock2 \in BOOLEAN /\ ans2 \in Answered /\ kept2 \in BOOLEAN /\ scr2 \in Seq(Lines)
    BY <1>1, ShownType DEF C64Type, Answered, Lines
  <2>3. kept2 => c64.kept \/ Kind \in Changing
    OBVIOUS
  <2>4. scr2 = c64.scr \/ scr2 = Shown("closed")
    OBVIOUS
  <2> HIDE DEF records, kept2, ans2, scr2, sock2
  <2>5. /\ d \in C64Type /\ d.key = c64.key /\ d.q = c64.q /\ d.sock = sock2 /\ d.ev = c64.ev
        /\ d.kept = kept2 /\ d.sent = c64.sent /\ d.scr = scr2 /\ d.out = c64.out
    BY <1>1, <2>2, ZenonT(40) DEF C64Type, Sockets
  <2> HIDE DEF d
  <2>6. /\ c64'.key = c64.key /\ c64'.q = c64.q /\ c64'.sock = sock2 /\ c64'.ev = c64.ev
        /\ c64'.kept = kept2 /\ c64'.scr = scr2 /\ c64'.out = c64.out
        /\ \/ c64'.ph = "ready" /\ c64'.sent = (c64.sent \/ Kind \in Routine)
           \/ c64'.ph = "asking" /\ c64.kept
    <3>1. CASE c64' = Ready(d)
      BY <2>5, <3>1, ReadyFields
    <3>2. CASE c64' = [d EXCEPT !.ph = "asking"] /\ Recorded
      <4>1. c64'.ph = "asking" /\ c64'.key = d.key /\ c64'.q = d.q /\ c64'.sock = d.sock
            /\ c64'.ev = d.ev /\ c64'.kept = d.kept /\ c64'.scr = d.scr /\ c64'.out = d.out
        BY <2>5, <3>2 DEF C64Type
      <4> QED BY <2>5, <3>2, <4>1 DEF Recorded
    <3> QED BY <2>1, <3>1, <3>2
  <2>7. Draws({"closed"})
    <3>1. CASE scr2 = c64.scr
      BY <2>6, <3>1 DEF Draws
    <3>2. CASE scr2 = Shown("closed")
      BY <2>6, <3>2, ShownDraws
    <3> QED BY <2>4, <3>1, <3>2
  <2> QED BY <2>1, <2>3, <2>6, <2>7 DEF Closing, Rest, sock2
<1>13. CASE TakeAnswer
    BY <1>13 DEF TakeAnswer
<1> QED BY <1>2, <1>3, <1>4, <1>5, <1>6, <1>7, <1>8, <1>9, <1>10, <1>11, <1>12, <1>13 DEF C64Step

LEMMA DrawsView ==
    ASSUME MachineType, NEW S, Draws(S)
    PROVE  /\ \A line : line \notin S /\ OnScreen(line)' => OnScreen(line)
           /\ Kind \in Routine => c64'.scr = c64.scr
<1>1. c64.scr \in Seq(Lines)
    BY DEF MachineType, C64Type
<1>2. ASSUME NEW line, line \notin S, OnScreen(line)' PROVE OnScreen(line)
  <2>1. CASE c64'.scr = c64.scr
    BY <1>2, <2>1 DEF OnScreen
  <2>2. CASE \E l \in S : c64'.scr = Append(c64.scr, l)
    BY <1>1, <1>2, <2>2, AppendLine DEF OnScreen
  <2> QED BY <2>1, <2>2 DEF Draws
<1> QED BY <1>2 DEF Draws

\* The program goes its course while its rig still watches it.
LEMMA C64Course ==
    ASSUME PoisonInv, C64Step, NEW r \in Rigs, Single(r), Watched(r)
    PROVE  Course(r)'
<1>0. /\ Placed /\ MachineType /\ Solo(r) /\ c64.prog = r /\ dev.uci /\ Kind = job[r]
    BY DEF PoisonInv, MachineInv, SectionInv, General, Powered, Watched, Kind
<1>1. job' = job /\ pc' = pc /\ rig' = rig /\ c64'.prog = r /\ dev'.uci
    BY <1>0, C64Runs
<1>2. Course(r) /\ ~c64.kept /\ c64.ph # "asking"
    BY <1>0 DEF Solo, Unasked
<1>3. /\ c64.sock => Fetching
      /\ Fetching => /\ ~c64.key /\ ~c64.sent /\ c64.tcp # "CONNECT_FAIL"
                     /\ c64.tcp = "CLOSED" => ~c64.sock
                     /\ ~OnScreen("closed") /\ ~OnScreen("connfail")
      /\ c64.key \/ c64.ph = "dial" => ~c64.sent /\ NotOpened /\ ~rig[r].seen
      /\ c64.ph = "dial" => ~c64.key
      /\ c64.key => c64.ph \in {"boot", "ready"}
      /\ c64.sent => c64.ph = "ready" /\ ~c64.key /\ job[r] \in Routine
      /\ job[r] \in Routine => Silent /\ ~c64.q
      /\ job[r] \in PlainTcp \ NoCrypto => c64.ev = "no" /\ c64.ph # "tls"
      /\ Fetching /\ OnScreen("tlsfail") => c64.ph = "close" /\ c64.out = "refused"
      /\ job[r] \in NoCrypto \ {"m3_ab"} =>
           c64.ph # "tls" /\ ~(Fetching /\ OnScreen("tlsfail"))
    BY <1>2 DEF Course
<1>4. c64.scr \in Seq(Lines) /\ PlainTcp \subseteq Routine
    BY <1>0 DEF MachineType, C64Type, PlainTcp
<1>5. (c64'.scr = c64.scr) => /\ OnScreen("closed")' <=> OnScreen("closed")
                              /\ OnScreen("connfail")' <=> OnScreen("connfail")
                              /\ OnScreen("tlsfail")' <=> OnScreen("tlsfail")
                              /\ Silent' <=> Silent
    BY DEF OnScreen, Silent
<1>6. CASE Booting
  <2>1. /\ c64.ph = "boot" /\ c64'.ph = "ready" /\ c64'.tcp = "CLOSED" /\ c64'.ev = "no"
        /\ c64'.scr = Append(c64.scr, "menu") /\ c64'.key = c64.key /\ c64'.q = c64.q
        /\ c64'.sock = c64.sock /\ c64'.sent = c64.sent
    BY <1>6 DEF Booting, Rest
  <2>2. Silent => Silent'
    BY <1>4, <2>1, AppendLine DEF Silent, OnScreen
  <2>3. Tcp' \in {"CLOSED", "unreadable"}
    BY <2>1 DEF Tcp
  <2>4. NotOpened => NotOpened'
    BY <2>1, <2>2, <2>3 DEF NotOpened
  <2>5. ~Fetching /\ ~Fetching' /\ ~c64'.sock /\ ~c64'.sent
    BY <1>3, <2>1 DEF Fetching
  <2> QED BY <1>1, <1>3, <2>1, <2>2, <2>4, <2>5 DEF Course
<1>7. CASE Keying
  <2>1. /\ c64.ph = "ready" /\ c64.key /\ c64'.ph = "dial" /\ ~c64'.key /\ ~c64'.sent
        /\ Draws({"get"}) /\ c64'.tcp = (IF Kind \in Routine THEN "CLOSED" ELSE c64.tcp)
        /\ c64'.ev \in {c64.ev, "no"} /\ c64'.q = c64.q /\ c64'.sock = c64.sock
    BY <1>7 DEF Keying, Rest
  <2>2. NotOpened /\ ~rig[r].seen
    BY <1>3, <2>1
  <2>3. Silent'
    BY <1>0, <2>1, <2>2, DrawsView DEF NotOpened, Silent
  <2>4. c64'.tcp \in {"CLOSED", "unreadable"}
    BY <1>0, <2>1, <2>2 DEF NotOpened, Tcp, TcpReadable
  <2>5. NotOpened'
    BY <2>1, <2>2, <2>3, <2>4 DEF NotOpened, Tcp
  <2>6. ~Fetching' /\ ~c64'.sock
    BY <1>3, <2>1 DEF Fetching
  <2> QED BY <1>1, <1>3, <2>1, <2>2, <2>3, <2>5, <2>6 DEF Course, NotOpened
<1>8. CASE Quitting
  <2>1. /\ c64.ph = "ready" /\ ~c64.key /\ Kind \notin Routine /\ c64'.ph = "basic" /\ ~c64'.q
        /\ c64'.key = c64.key /\ c64'.sock = c64.sock /\ c64'.ev = c64.ev /\ c64'.scr = c64.scr
        /\ c64'.sent = c64.sent
    BY <1>8 DEF Quitting, Rest
  <2>2. ~Fetching' /\ ~c64'.sock
    BY <1>3, <2>1 DEF Fetching
  <2> QED BY <1>0, <1>1, <1>3, <1>4, <2>1, <2>2 DEF Course
<1>9. CASE Failing
  <2>1. /\ c64.ph = "dial" /\ c64'.ph = "ready" /\ c64'.sent = (c64.sent \/ Kind \in Routine)
        /\ Draws({"tlsfail", "connfail"}) /\ c64'.key = c64.key /\ c64'.q = c64.q
        /\ c64'.sock = c64.sock /\ c64'.ev = c64.ev
    BY <1>9 DEF Failing, Rest
  <2>2. ~Fetching' /\ ~c64'.sock /\ ~c64'.key /\ (c64'.sent => job[r] \in Routine)
    BY <1>0, <1>3, <2>1 DEF Fetching
  <2>3. job[r] \in Routine => Silent'
    BY <1>0, <1>3, <1>5, <2>1, DrawsView
  <2> QED BY <1>1, <1>3, <2>1, <2>2, <2>3 DEF Course
<1>10. CASE Dialling
  <2>1. /\ c64.ph = "dial" /\ c64'.ph \in {"recv", "tls"} /\ c64'.sock /\ c64'.tcp = "CONNECTED"
        /\ c64'.ph = "tls" => Kind \notin PlainTcp \cup (NoCrypto \ {"m3_ab"})
        /\ c64'.ev = c64.ev \/ Kind \in NoCrypto
        /\ c64'.key = c64.key /\ c64'.q = c64.q /\ c64'.scr = c64.scr /\ c64'.sent = c64.sent
    BY <1>10 DEF Dialling, Rest
  <2>2. Silent' /\ ~OnScreen("closed")' /\ ~OnScreen("connfail")' /\ ~OnScreen("tlsfail")'
    BY <1>3, <1>5, <2>1 DEF NotOpened, Silent
  <2>3. Fetching' /\ ~c64'.key /\ ~c64'.sent
    BY <1>3, <2>1 DEF Fetching
  <2> QED BY <1>0, <1>1, <1>3, <2>1, <2>2, <2>3 DEF Course
<1>11. CASE Shaking
  <2>1. /\ c64.ph = "tls" /\ c64'.ph \in {"recv", "close"} /\ Draws({"tlsfail"})
        /\ c64'.tcp = c64.tcp \/ c64'.tcp \in {"CONNECTED", "ERROR"}
        /\ c64'.ph = "recv" => c64'.scr = c64.scr
        /\ c64'.ph = "close" => c64'.out = "refused"
        /\ c64'.key = c64.key /\ c64'.q = c64.q /\ c64'.sock = c64.sock /\ c64'.sent = c64.sent
    BY <1>11 DEF Shaking, Rest
  <2>2. Fetching /\ Fetching' /\ ~c64'.key /\ ~c64'.sent
    BY <1>3, <2>1 DEF Fetching
  <2>3. ~OnScreen("closed")' /\ ~OnScreen("connfail")' /\ (job[r] \in Routine => Silent')
    BY <1>0, <1>3, <1>5, <2>1, <2>2, DrawsView
  <2>4. c64'.tcp # "CONNECT_FAIL" /\ (c64'.tcp = "CLOSED" => ~c64'.sock)
    BY <1>3, <2>1, <2>2
  <2>5. /\ OnScreen("tlsfail")' => c64'.ph = "close" /\ c64'.out = "refused"
        /\ job[r] \notin NoCrypto \ {"m3_ab"}
    BY <1>3, <1>5, <2>1, <2>2
  <2> QED BY <1>1, <1>3, <2>1, <2>2, <2>3, <2>4, <2>5 DEF Course
<1>12. CASE Reading
  <2>1. /\ c64.ph = "recv" /\ c64'.ph \in {"recv", "viewer", "close"}
        /\ \/ c64'.tcp = c64.tcp /\ c64'.sock = c64.sock
           \/ c64'.tcp # "CONNECT_FAIL" /\ c64'.sock = (c64.sock /\ c64'.tcp # "CLOSED")
        /\ c64'.key = c64.key /\ c64'.q = c64.q /\ c64'.ev = c64.ev /\ c64'.scr = c64.scr
        /\ c64'.sent = c64.sent
    BY <1>12 DEF Reading, Rest
  <2>2. Fetching /\ Fetching' /\ ~c64'.key /\ ~c64'.sent
    BY <1>3, <2>1 DEF Fetching
  <2>3. c64'.tcp # "CONNECT_FAIL" /\ (c64'.tcp = "CLOSED" => ~c64'.sock)
    BY <1>3, <2>1, <2>2
  <2>4. ~OnScreen("tlsfail")'
    BY <1>3, <1>5, <2>1, <2>2
  <2> QED BY <1>1, <1>3, <1>5, <2>1, <2>2, <2>3, <2>4 DEF Course
<1>13. CASE Leaving
  <2>1. /\ c64.ph = "viewer" /\ c64'.ph = "close" /\ ~c64'.q
        /\ c64'.key = c64.key /\ c64'.sock = c64.sock /\ c64'.tcp = c64.tcp /\ c64'.ev = c64.ev
        /\ c64'.scr = c64.scr /\ c64'.sent = c64.sent
    BY <1>13 DEF Leaving, Rest
  <2>2. Fetching /\ Fetching' /\ ~c64'.key /\ ~c64'.sent
    BY <1>3, <2>1 DEF Fetching
  <2>3. ~OnScreen("tlsfail")'
    BY <1>3, <1>5, <2>1, <2>2
  <2> QED BY <1>1, <1>3, <1>5, <2>1, <2>2, <2>3 DEF Course
<1>14. CASE Closing
  <2>1. /\ c64.ph = "close" /\ ~c64'.sock /\ Draws({"closed"}) /\ c64'.key = c64.key
        /\ c64'.q = c64.q /\ c64'.ev = c64.ev
        /\ c64'.ph = "ready" /\ c64'.sent = (c64.sent \/ Kind \in Routine)
    BY <1>0, <1>2, <1>14 DEF Closing, Rest
  <2>2. Fetching /\ ~Fetching' /\ ~c64'.key /\ (c64'.sent => job[r] \in Routine)
    BY <1>0, <1>3, <2>1 DEF Fetching
  <2>3. job[r] \in Routine => Silent'
    BY <1>0, <1>3, <1>5, <2>1, DrawsView
  <2> QED BY <1>1, <1>3, <2>1, <2>2, <2>3 DEF Course
<1> QED BY <1>0, <1>2, <1>6, <1>7, <1>8, <1>9, <1>10, <1>11, <1>12, <1>13, <1>14, C64Shape

\* Left to itself the program opens no socket it was not asked for.
LEMMA C64Unasked ==
    ASSUME PoisonInv, C64Step, NEW r \in Rigs, Single(r), c64.prog = r
    PROVE  /\ Live(r)' => Live(r)
           /\ Unasked(r)'
           /\ c64'.ph # "boot" /\ (c64'.key => c64.key)
           /\ Excused(r) => Excused(r)'
<1>0. /\ Placed /\ MachineType /\ Kind = job[r] /\ ~c64.kept /\ c64.ph # "asking"
      /\ Kind \notin Changing
    BY DEF PoisonInv, MachineInv, SectionInv, Solo, Unasked, Single, Kind, ManyFetches
<1>1. c64'.prog = r /\ job' = job
    BY <1>0, C64Runs
<1>2. CASE Booting
    BY <1>0, <1>1, <1>2 DEF Booting, Rest, Live, Unasked, Excused
<1>3. CASE Keying
    BY <1>0, <1>1, <1>3 DEF Keying, Rest, Live, Unasked, Excused
<1>4. CASE Quitting \/ Leaving
    BY <1>0, <1>1, <1>4 DEF Quitting, Leaving, Rest, Live, Unasked, Excused
<1>5. CASE Failing
    BY <1>0, <1>1, <1>5 DEF Failing, Rest, Live, Unasked, Excused
<1>6. CASE Dialling
    BY <1>0, <1>1, <1>6 DEF Dialling, Rest, Live, Unasked, Excused
<1>7. CASE Shaking
    BY <1>0, <1>1, <1>7 DEF Shaking, Rest, Live, Unasked, Excused
<1>8. CASE Reading
    BY <1>0, <1>1, <1>8 DEF Reading, Rest, Live, Unasked, Excused
<1>9. CASE Closing
    BY <1>0, <1>1, <1>9 DEF Closing, Rest, Live, Unasked, Excused
<1> QED BY <1>0, <1>2, <1>3, <1>4, <1>5, <1>6, <1>7, <1>8, <1>9, C64Shape

\* Not asked yet, it comes up and waits.
LEMMA C64Waits ==
    ASSUME PoisonInv, C64Step, NEW r \in Rigs, Single(r)
    PROVE  Before(r)'
<1>0. /\ Placed /\ MachineType /\ Solo(r)
    BY DEF PoisonInv, MachineInv, SectionInv
<1>1. job' = job /\ pc' = pc /\ c64'.prog = c64.prog
    BY <1>0, C64Runs
<1> SUFFICES ASSUME InBody(r), c64.prog = r, ~Pressed(job[r], At(r))
             PROVE  /\ c64'.ph \in {"boot", "ready"} /\ ~c64'.key /\ ~c64'.q /\ ~c64'.sock
                    /\ NotOpened'
    BY <1>1 DEF Before, InBody, At
<1>2. c64.ph \in {"boot", "ready"} /\ ~c64.key /\ ~c64.q /\ ~c64.sock /\ NotOpened
    BY <1>0 DEF Solo, Before
<1>3. Booting
    BY <1>0, <1>2, C64Shape DEF Keying, Quitting, Failing, Dialling, Shaking, Reading, Leaving, Closing
<1>4. /\ c64'.ph = "ready" /\ c64'.tcp = "CLOSED" /\ c64'.ev = "no"
      /\ c64'.scr = Append(c64.scr, "menu") /\ ~c64'.key /\ ~c64'.q /\ ~c64'.sock
    BY <1>2, <1>3 DEF Booting, Rest
<1>5. Silent'
  <2>1. c64.scr \in Seq(Lines)
    BY <1>0 DEF MachineType, C64Type
  <2> QED BY <1>2, <1>4, <2>1, AppendLine DEF NotOpened, Silent, OnScreen
<1>6. NotOpened'
    BY <1>4, <1>5 DEF NotOpened, Tcp
<1> QED BY <1>4, <1>6

LEMMA C64Poison ==
    ASSUME PoisonInv, C64Step, MachineInv'
    PROVE  PoisonInv'
<1>0. /\ Placed /\ MachineType /\ NoRig \notin Rigs /\ NoSilentPoison
      /\ \A r \in Rigs : General(r) /\ (Single(r) => Solo(r))
    BY RigAssumption DEF PoisonInv, MachineInv, SectionInv
<1>1. /\ job' = job /\ pc' = pc /\ rig' = rig /\ untold' = untold /\ c64'.prog = c64.prog
      /\ dev'.uci = dev.uci /\ c64.ph # "basic"
    BY <1>0, C64Runs
<1>2. c64.prog # NoRig /\ ~Bare
    BY <1>1 DEF PoisonInv, Bare
<1>3. ASSUME NEW r \in Rigs PROVE General(r)'
  <2>1. General(r)
    BY <1>0
  <2>2. Powered(r)' /\ Aloft(r)' /\ Unseen(r)'
    BY <1>1, <2>1 DEF General, Powered, Aloft, Unseen, Watched, InBody, At
  <2>3. Runs(r)'
    BY <1>1, <1>2, <2>1 DEF General, Runs, InBody, At
  <2> QED BY <2>2, <2>3 DEF General
<1>4. ASSUME NEW r \in Rigs, Single(r) PROVE Solo(r)'
  <2>1. Solo(r)
    BY <1>0, <1>4
  <2>2. CASE c64.prog = r
    <3>1. /\ Live(r)' => Live(r)
          /\ Unasked(r)'
          /\ c64'.ph # "boot" /\ (c64'.key => c64.key)
          /\ Excused(r) => Excused(r)'
      BY <1>4, <2>2, C64Unasked
    <3>2. Announced(r)'
      BY <1>1, <2>1, <3>1 DEF Solo, Announced
    <3>3. Course(r)'
      <4>1. CASE Watched(r)
        BY <1>4, <4>1, C64Course
      <4>2. CASE ~Watched(r)
        BY <1>1, <4>2 DEF Course, Watched, InBody
      <4> QED BY <4>1, <4>2
    <3>4. Before(r)'
      BY <1>4, C64Waits
    <3>5. After(r)'
      <4>1. Hanging(r) => Hanging(r)'
        BY <1>1, <3>1 DEF Hanging, At
      <4> QED BY <1>1, <2>1, <3>1, <4>1 DEF Solo, After, InBody, At
    <3> QED BY <3>1, <3>2, <3>3, <3>4, <3>5 DEF Solo
  <2>3. CASE c64.prog # r
    <3>1. Unasked(r)' /\ Announced(r)' /\ Course(r)' /\ Before(r)'
      BY <1>1, <2>3 DEF Unasked, Announced, Live, Course, Watched, Before
    <3>2. After(r)'
      BY <1>1, <2>1, <2>3 DEF Solo, After, InBody, At, Live
    <3> QED BY <3>1, <3>2 DEF Solo
  <2> QED BY <2>2, <2>3
<1>5. \A r \in Rigs : General(r)' /\ (Single(r)' => Solo(r)')
    BY <1>1, <1>3, <1>4 DEF Single
<1> QED BY <1>0, <1>1, <1>2, <1>5 DEF PoisonInv, NoSilentPoison

LEMMA StillPoison ==
    ASSUME PoisonInv, MachineInv', UNCHANGED <<job, pc, rig, dev, c64, untold>>
    PROVE  PoisonInv'
<1>1. ASSUME NEW r \in Rigs PROVE General(r)' /\ (Single(r)' => Solo(r)')
  <2>0. General(r) /\ (Single(r) => Solo(r))
    BY DEF PoisonInv
  <2>1. General(r)'
    BY <2>0 DEF General, Powered, Aloft, Unseen, Runs, Watched, Bare, InBody, At
  <2>2. Silent' <=> Silent
    BY DEF Silent, OnScreen
  <2>3. NotOpened' <=> NotOpened
    BY <2>2 DEF NotOpened, Tcp, TcpReadable
  <2>4. (Unasked(r)' <=> Unasked(r)) /\ (Announced(r)' <=> Announced(r))
    BY DEF Unasked, Announced, Live, Excused
  <2>5. Course(r)' <=> Course(r)
    BY <2>2, <2>3 DEF Course, Watched, Fetching, InBody, OnScreen
  <2>6. (Before(r)' <=> Before(r)) /\ (After(r)' <=> After(r))
    BY <2>3 DEF Before, After, InBody, At, Live, Hanging, Excused
  <2> QED BY <2>0, <2>1, <2>4, <2>5, <2>6 DEF Solo, Single
<1> QED BY <1>1 DEF PoisonInv, NoSilentPoison

LEMMA NextPoison ==
    ASSUME PoisonInv, [Next]_vars
    PROVE  PoisonInv'
<1>1. MachineInv'
    BY NextMachine DEF PoisonInv
<1>2. CASE \E r \in Rigs : RigStep(r)
    BY <1>1, <1>2, RigPoison
<1>3. CASE C64Step
    BY <1>1, <1>3, C64Poison
<1>4. CASE (\E r \in Rigs : Expire(r)) \/ UNCHANGED vars
    BY <1>1, <1>4, StillPoison DEF Expire, vars
<1> QED BY <1>2, <1>3, <1>4 DEF Next

LEMMA InitPoison ==
    ASSUME Init
    PROVE  PoisonInv
<1>1. MachineInv
    BY InitMachine
<1>2. /\ c64 = Blank /\ untold = {} /\ NoRig \notin Rigs
      /\ \A r \in Rigs : pc[r].part = "pre" /\ rig[r] = Fresh
    BY RigAssumption DEF Init
<1>3. c64.prog = NoRig /\ c64.ph = "basic" /\ ~c64.sock
    BY <1>2 DEF Blank
<1>4. ASSUME NEW r \in Rigs PROVE General(r) /\ Solo(r)
  <2>1. ~InBody(r) /\ ~rig[r].fif /\ ~rig[r].seen /\ ~rig[r].killed /\ c64.prog # r
    BY <1>2, <1>3 DEF InBody, Fresh
  <2>2. General(r)
    BY <2>1 DEF General, Powered, Watched, Aloft, Unseen, Runs
  <2>3. Solo(r)
    BY <2>1 DEF Solo, Unasked, Announced, Live, Course, Watched, Before, After
  <2> QED BY <2>2, <2>3
<1> QED BY <1>1, <1>2, <1>3, <1>4 DEF PoisonInv, NoSilentPoison

\* No rig that makes one fetch per boot leaves its firmware socket live for a
\* reset to come over it unannounced: before it let the device go it had seen
\* the fetch over, or guard_socket_teardown had warned, or the run was killed.
THEOREM PoisonTold == Spec => []NoSilentPoison
<1>1. ASSUME PoisonInv PROVE NoSilentPoison
    BY <1>1 DEF PoisonInv
<1> QED BY <1>1, InitPoison, NextPoison, PTL DEF Spec

-----------------------------------------------------------------------------
(* No trust file is left behind a pass *)

\* So far nothing failed that r counts, and it may still exit 0.
Clean(r) == \/ InBody(r) /\ ~rig[r].bad
            \/ pc[r].part \in {"fin", "end"} /\ rig[r].rc = 0
\* The program asks for nothing more and opens nothing more.
AtRest == c64.ph \in {"ready", "basic"} /\ ~c64.key

\* Of a rig that lets the C64 record, in its body: a key is pending only at the
\* menu, between its press and the look for what came of it.
Roams(r) ==
    InBody(r) /\ c64.prog = r =>
        /\ c64.q => c64.ph = "viewer"
        /\ Clean(r) =>
             /\ c64.key => c64.ph = "ready" /\ ~OnScreen("closed") /\ Typed(job[r], At(r))
             /\ Rested(job[r], At(r)) => c64.ph = "ready" /\ ~c64.key
             /\ Rested(job[r], At(r)) /\ Cleared(job[r], At(r)) => ~OnScreen("closed")
\* Of a rig with files: it knows that it has them, and once they are removed
\* there are none as long as it holds the lock.
Files(r) ==
    /\ InBody(r) /\ Clean(r) /\ Stored(job[r], At(r)) => rig[r].store
    /\ pc[r].part = "fin" /\ Clean(r) =>
         /\ rig[r].store /\ c64.prog \in {r, NoRig}
         /\ Cleaned(job[r], At(r)) => ~dev.files
Leaves(r) == pc[r].part \in {"fin", "end"} /\ Clean(r) /\ c64.prog = r => AtRest

TidyInv ==
    /\ PoisonInv /\ TidyOrTold
    /\ \A r \in Rigs : /\ Filing(job[r]) => Files(r)
                       /\ job[r] \in Trusting => Roams(r) /\ Leaves(r)

\* What becomes of the count of failures and the exit code.
Booked(r, m) ==
    /\ Clean(r)' => \/ pc[r].part = "pre" /\ InBody(r)'
                    \/ Onward(r) /\ ((InBody(r) /\ ~m.bad) \/ (pc[r].part = "fin" /\ m.rc = 0))
    /\ pc'[r].part # "end" => rig'[r].store = m.store

LEMMA BooksGoTo ==
    ASSUME Placed, NEW r \in Rigs, NEW m \in MeType, NEW p \in {"body", "late", "fin", "end"},
           GoTo(r, p, m)
    PROVE  /\ pc'[r].part = p
           /\ p = "body" => rig'[r].bad = m.bad
           /\ p \in {"fin", "end"} => (rig'[r].rc = 0 <=> m.rc = 0)
           /\ p # "end" => rig'[r].store = m.store
<1>1. pc'[r].part = p /\ rig'[r] = Kept(p, m)
    BY DEF GoTo, Placed
<1>2. CASE p \in {"body", "late"}
    BY <1>1, <1>2 DEF Kept
<1>3. CASE p = "fin"
  <2>1. rig'[r] = [m EXCEPT !.bad = FALSE, !.tries = 0, !.nth = 0]
    BY <1>1, <1>3 DEF Kept
  <2>2. rig'[r].rc = m.rc /\ rig'[r].store = m.store
    BY <2>1 DEF MeType
  <2> QED BY <1>1, <1>3, <2>2
<1>4. CASE p = "end"
  <2> DEFINE z == IF m.rc = 0 THEN 0 ELSE 1
  <2>1. rig'[r] = [Fresh EXCEPT !.rc = z, !.warned = m.warned, !.killed = m.killed]
    BY <1>1, <1>4 DEF Kept
  <2>2. z = 0 <=> m.rc = 0
    OBVIOUS
  <2> HIDE DEF z
  <2>3. rig'[r].rc = z
    BY <2>1 DEF Fresh
  <2> QED BY <1>1, <1>4, <2>2, <2>3
<1> QED BY <1>2, <1>3, <1>4

LEMMA BooksAdvance ==
    ASSUME Placed, NEW r \in Rigs, pc[r].part # "end", NEW m \in MeType, Advance(r, m)
    PROVE  Booked(r, m) /\ Onward(r)
<1>0. Onward(r)
    BY Advances
<1>1. Len(Part(r)) \in Nat /\ pc[r].i \in 1 .. Len(Part(r)) /\ pc[r].part \in Parts
    BY PlaceOf
<1>2. CASE pc[r].i < Len(Part(r))
  <2>1. pc[r].i # Len(Part(r))
    BY <1>1, <1>2
  <2>2. /\ pc' = [pc EXCEPT ![r] = [part |-> @.part, i |-> @.i + 1]]
        /\ rig' = [rig EXCEPT ![r] = m]
    BY <1>2, <2>1, Zenon DEF Advance
  <2>3. pc'[r].part = pc[r].part /\ rig'[r] = m
    BY <2>2 DEF Placed
  <2> QED BY <1>0, <2>3 DEF Booked, Clean, InBody
<1>3. CASE pc[r].i = Len(Part(r))
  <2>1. ~(pc[r].i < Len(Part(r)))
    BY <1>1, <1>3
  <2>2. CASE pc[r].part = "pre"
    <3>1. GoTo(r, "body", m)
      BY <1>3, <2>1, <2>2 DEF Advance
    <3>2. pc'[r].part = "body" /\ rig'[r].store = m.store
      BY <3>1, BooksGoTo
    <3> QED BY <1>0, <2>2, <3>2 DEF Booked, InBody
  <2>3. CASE pc[r].part = "body"
    <3> DEFINE c == IF m.bad THEN 1 ELSE 0
               e == [m EXCEPT !.rc = c]
    <3>1. GoTo(r, "fin", e)
      BY <1>3, <2>1, <2>3 DEF Advance
    <3>2. c \in Int /\ (c = 0 => ~m.bad)
      OBVIOUS
    <3> HIDE DEF c
    <3>3. e \in MeType /\ e.rc = c /\ e.store = m.store
      BY <3>2 DEF MeType
    <3> HIDE DEF e
    <3>4. pc'[r].part = "fin" /\ (rig'[r].rc = 0 <=> e.rc = 0) /\ rig'[r].store = e.store
      BY <3>1, <3>3, BooksGoTo
    <3> QED BY <1>0, <2>3, <3>2, <3>3, <3>4 DEF Booked, Clean, InBody
  <2>4. CASE pc[r].part = "late"
    <3> DEFINE e == [m EXCEPT !.rc = 1]
    <3>1. GoTo(r, "fin", e)
      BY <1>3, <2>1, <2>4 DEF Advance
    <3>3. e \in MeType /\ e.rc = 1 /\ e.store = m.store
      BY DEF MeType
    <3> HIDE DEF e
    <3>4. pc'[r].part = "fin" /\ (rig'[r].rc = 0 <=> e.rc = 0) /\ rig'[r].store = e.store
      BY <3>1, <3>3, BooksGoTo
    <3> QED BY <1>0, <2>4, <3>3, <3>4 DEF Booked, Clean, InBody
  <2>5. CASE pc[r].part = "fin"
    <3>1. GoTo(r, "end", m)
      BY <1>3, <2>1, <2>5 DEF Advance
    <3>2. pc'[r].part = "end" /\ (rig'[r].rc = 0 <=> m.rc = 0)
      BY <3>1, BooksGoTo
    <3> QED BY <1>0, <2>5, <3>2 DEF Booked, Clean, InBody
  <2> QED BY <1>1, <2>2, <2>3, <2>4, <2>5 DEF Parts
<1> QED BY <1>1, <1>2, <1>3

LEMMA BooksLeave ==
    ASSUME Placed, NEW r \in Rigs, NEW m \in MeType, NEW c \in Int, c # 0, Leave(r, m, c)
    PROVE  ~Clean(r)' /\ (pc'[r].part # "end" => rig'[r].store = m.store)
<1> DEFINE e == [m EXCEPT !.rc = c]
<1>1. GoTo(r, "fin", e) \/ GoTo(r, "end", e)
    BY DEF Leave
<1>2. e \in MeType /\ e.rc = c /\ e.store = m.store
    BY DEF MeType
<1> HIDE DEF e
<1> QED BY <1>1, <1>2, BooksGoTo DEF Clean, InBody

LEMMA BooksLapse ==
    ASSUME Placed, NEW r \in Rigs, pc[r].part \in {"pre", "body", "late"}, NEW m \in MeType,
           Lapse(r, m)
    PROVE  /\ Booked(r, m)
           /\ Clean(r)' /\ pc[r].part # "pre" => Code(r) = Ignored
<1>0. pc[r].part # "end" /\ Code(r) \in Int
    BY OpPlace
<1>1. CASE Code(r) = Tallied
  <2> DEFINE e == [m EXCEPT !.bad = TRUE]
  <2>0. Code(r) # Ignored /\ ~(Code(r) > 0) /\ Code(r) <= 0
    BY <1>1 DEF Tallied, Ignored
  <2>1. Advance(r, e)
    BY <1>1, <2>0, Zenon DEF Lapse
  <2>2. e \in MeType /\ e.bad = TRUE /\ e.store = m.store
    BY DEF MeType
  <2> HIDE DEF e
  <2>3. Booked(r, e) /\ Onward(r)
    BY <1>0, <2>1, <2>2, BooksAdvance
  <2> QED BY <1>0, <2>2, <2>3 DEF Booked
<1>2. CASE Code(r) = Ignored
  <2>0. Code(r) # Tallied /\ ~(Code(r) > 0) /\ Code(r) <= 0
    BY <1>2 DEF Tallied, Ignored
  <2>1. Advance(r, m)
    BY <1>2, <2>0, Zenon DEF Lapse
  <2> QED BY <1>0, <1>2, <2>0, <2>1, BooksAdvance
<1>3. CASE /\ Code(r) > 0 /\ pc[r].part = "body" /\ Op(r) \in {"sentinel", "body_stable"}
           /\ Script[job[r]].late # <<>>
  <2>0. Code(r) # Tallied /\ Code(r) # Ignored
    BY <1>0, <1>3 DEF Tallied, Ignored
  <2>1. GoTo(r, "late", m)
    BY <1>3, <2>0, Zenon DEF Lapse
  <2>2. pc'[r].part = "late" /\ rig'[r].store = m.store
    BY <2>1, BooksGoTo
  <2> QED BY <2>2 DEF Booked, Clean, InBody
<1>4. CASE /\ Code(r) # Tallied /\ Code(r) # Ignored
           /\ ~(/\ Code(r) > 0 /\ pc[r].part = "body" /\ Op(r) \in {"sentinel", "body_stable"}
                /\ Script[job[r]].late # <<>>)
  <2>1. Leave(r, m, Code(r))
    BY <1>4, Zenon DEF Lapse
  <2>2. Code(r) # 0
    BY <1>4 DEF Tallied
  <2> QED BY <1>0, <2>1, <2>2, BooksLeave DEF Booked
<1> QED BY <1>1, <1>2, <1>3, <1>4

\* What r found if it went on from here without counting a failure.
Finds(r) ==
    /\ Op(r) \in {"dhcp", "ended", "at_rest"} => c64.ph = "ready" \/ Code(r) = Ignored
    /\ Op(r) = "ended" => OnScreen("closed") \/ Code(r) = Ignored
    /\ Op(r) = "key_changed" => ~(c64.ph = "ready" /\ c64.key)
    /\ Op(r) = "clear_screen" => c64'.scr = <<>>
    /\ Op(r) = "files" => rig'[r].store \/ Code(r) = Ignored
    /\ Op(r) \in Starts => c64'.prog = r \/ Code(r) = Ignored
    /\ Op(r) = "cleanup" /\ pc[r].part = "fin" /\ rig[r].store => ~dev'.files
Finding == {"dhcp", "ended", "at_rest", "key_changed", "clear_screen", "files", "cleanup"} \cup Starts
\* A step of r is clean only after clean ones, and goes on with what it looked for.
Accounts(r) ==
    /\ Clean(r)' /\ pc[r].part = "pre" => InBody(r)'
    /\ Clean(r)' /\ pc[r].part # "pre" =>
         Clean(r) /\ ((pc'[r] = pc[r] /\ ~Onward(r)) \/ (Onward(r) /\ Finds(r)))
    /\ pc'[r].part # "end" /\ rig[r].store => rig'[r].store
Alike(m, e) == m \in MeType /\ m.bad = e.bad /\ m.rc = e.rc /\ (e.store => m.store)

LEMMA AlikeFields ==
    ASSUME NEW m \in MeType, NEW b \in BOOLEAN, NEW n \in Nat
    PROVE  /\ Alike(m, m) /\ Alike([m EXCEPT !.fif = b], m) /\ Alike([m EXCEPT !.uci = b], m)
           /\ Alike([m EXCEPT !.tries = n], m) /\ Alike([m EXCEPT !.nth = n], m)
           /\ Alike([m EXCEPT !.seen = b], m) /\ Alike([m EXCEPT !.store = TRUE], m)
           /\ Alike([m EXCEPT !.fif = b, !.nth = n], m)
           /\ Alike([m EXCEPT !.fif = b, !.warned = TRUE], m)
           /\ Alike([m EXCEPT !.fif = b, !.keep = TRUE, !.warned = TRUE], m)
<1>1. Alike(m, m)
    BY DEF Alike
<1>2. Alike([m EXCEPT !.fif = b], m)
    BY DEF Alike, MeType
<1>3. Alike([m EXCEPT !.uci = b], m)
    BY DEF Alike, MeType
<1>4. Alike([m EXCEPT !.tries = n], m)
    BY DEF Alike, MeType
<1>5. Alike([m EXCEPT !.nth = n], m)
    BY DEF Alike, MeType
<1>6. Alike([m EXCEPT !.seen = b], m)
    BY DEF Alike, MeType
<1>7. Alike([m EXCEPT !.store = TRUE], m)
    BY DEF Alike, MeType
<1>8. Alike([m EXCEPT !.fif = b, !.nth = n], m)
    BY DEF Alike, MeType
<1>9. Alike([m EXCEPT !.fif = b, !.warned = TRUE], m)
    BY DEF Alike, MeType
<1>10. Alike([m EXCEPT !.fif = b, !.keep = TRUE, !.warned = TRUE], m)
    BY DEF Alike, MeType
<1> QED BY <1>1, <1>2, <1>3, <1>4, <1>5, <1>6, <1>7, <1>8, <1>9, <1>10

LEMMA AccountAdvance ==
    ASSUME Placed, NEW r \in Rigs, pc[r].part # "end", NEW m, Alike(m, Me(r)), Advance(r, m),
           Finds(r)
    PROVE  Accounts(r)
<1>1. Booked(r, m) /\ Onward(r)
    BY BooksAdvance DEF Alike
<1>2. m.bad = rig[r].bad /\ m.rc = rig[r].rc /\ (rig[r].store => m.store)
    BY DEF Alike, Me
<1>3. ASSUME Clean(r)' PROVE (pc[r].part = "pre" /\ InBody(r)') \/ (pc[r].part # "pre" /\ Clean(r))
    BY <1>1, <1>2, <1>3 DEF Booked, Clean, InBody
<1>4. pc'[r].part # "end" /\ rig[r].store => rig'[r].store
    BY <1>1, <1>2 DEF Booked
<1> QED BY <1>1, <1>3, <1>4 DEF Accounts

\* One that counts a failure is not clean.
LEMMA AccountFail ==
    ASSUME Placed, NEW r \in Rigs, pc[r].part = "fin", NEW m \in MeType, Alike(m, Me(r)),
           Advance(r, [m EXCEPT !.rc = 1])
    PROVE  Accounts(r)
<1> DEFINE e == [m EXCEPT !.rc = 1]
<1>1. e \in MeType /\ e.rc = 1 /\ e.store = m.store
    BY DEF MeType
<1> HIDE DEF e
<1>2. Booked(r, e)
    BY <1>1, BooksAdvance DEF e
<1>3. ~Clean(r)' /\ (rig[r].store => m.store)
    BY <1>1, <1>2 DEF Booked, InBody, Alike, Me
<1> QED BY <1>1, <1>2, <1>3 DEF Accounts, Booked

LEMMA AccountLapse ==
    ASSUME Placed, NEW r \in Rigs, pc[r].part \in {"pre", "body", "late"}, NEW m, Alike(m, Me(r)),
           Lapse(r, m), Code(r) = Ignored => Finds(r)
    PROVE  Accounts(r)
<1>1. Booked(r, m) /\ (Clean(r)' /\ pc[r].part # "pre" => Code(r) = Ignored)
    BY BooksLapse DEF Alike
<1>2. m.bad = rig[r].bad /\ m.rc = rig[r].rc /\ (rig[r].store => m.store)
    BY DEF Alike, Me
<1>3. ASSUME Clean(r)' PROVE (pc[r].part = "pre" /\ InBody(r)') \/ (pc[r].part # "pre" /\ Clean(r) /\ Onward(r))
    BY <1>1, <1>2, <1>3 DEF Booked, Clean, InBody
<1>4. pc'[r].part # "end" /\ rig[r].store => rig'[r].store
    BY <1>1, <1>2 DEF Booked
<1> QED BY <1>1, <1>3, <1>4 DEF Accounts

LEMMA AccountLeave ==
    ASSUME Placed, NEW r \in Rigs, NEW m, Alike(m, Me(r)), NEW c \in Int, c # 0, Leave(r, m, c)
    PROVE  Accounts(r)
<1>1. ~Clean(r)' /\ (pc'[r].part # "end" => rig'[r].store = m.store)
    BY BooksLeave DEF Alike
<1> QED BY <1>1 DEF Accounts, Alike, Me

LEMMA AccountStay ==
    ASSUME Placed, NEW r \in Rigs, pc[r].part # "end", pc' = pc, rig'[r].bad = rig[r].bad,
           rig'[r].rc = rig[r].rc, rig'[r].store = rig[r].store
    PROVE  Accounts(r)
<1>1. ~Onward(r)
    BY OnwardMoves
<1> QED BY <1>1 DEF Accounts, Clean, InBody

LEMMA PlainFinds == ASSUME NEW r \in Rigs, Op(r) \notin Finding PROVE Finds(r)
BY DEF Finds, Finding

LEMMA RigBooks ==
    ASSUME Placed, MachineType, NEW r \in Rigs, RigStep(r)
    PROVE  Accounts(r)
<1>0. /\ pc[r].part # "end" /\ dev \in DevType /\ c64 \in C64Type /\ Me(r) \in MeType /\ rig[r] = Me(r)
      /\ Code(r) \in Int
    BY RigMoves, OpPlace DEF MachineType, Placed, Me
<1>1. /\ pc[r].part \in {"pre", "body", "late", "fin"}
      /\ pc[r].part = "fin" => Op(r) \in Tidying \cup Judges
    BY <1>0, OpPlace, PlaceOf DEF Parts
<1>2. /\ Op(r) \notin Checks \cup Judges \cup Tidying \cup {"lock", "orphan"} => InBody(r)
      /\ Op(r) \in Guards => pc[r].part \in {"late", "fin"}
    BY <1>0, OpWhere
<1>3. ASSUME NEW m, Alike(m, Me(r)), Advance(r, m), Op(r) \notin Finding PROVE Accounts(r)
    BY <1>0, <1>3, AccountAdvance, PlainFinds
<1>4. ASSUME NEW m, Alike(m, Me(r)), Lapse(r, m), Op(r) \notin Finding, pc[r].part # "fin" PROVE Accounts(r)
    BY <1>1, <1>4, AccountLapse, PlainFinds, SMTT(30)
<1>5. Alike(Me(r), Me(r))
    BY <1>0, AlikeFields
<1>6. 0 \in Nat /\ 1 \in Int /\ 1 # 0 /\ 2 \in Int /\ 2 # 0
    OBVIOUS
\* The lock, checks, listeners.
<1>11. CASE \/ Acquire(r) \/ Release(r) \/ Persist(r) \/ PreflightReu(r) \/ RestoreDrive(r)
            \/ PrepareDevice(r) \/ SetTurbo(r) \/ DisableUci(r) \/ ResetC64(r) \/ CloseOrphan(r)
  <2>1. /\ Advance(r, Me(r))
        /\ Op(r) \in {"lock", "release", "persist", "persist_raw", "preflight", "restore", "prep", "turbo",
                      "disable", "disable_always", "reset", "orphan"}
    BY <1>11 DEF Acquire, Release, Persist, PreflightReu, RestoreDrive, PrepareDevice, SetTurbo, DisableUci,
                 ResetC64, CloseOrphan
  <2>2. Op(r) \notin Finding
    BY <2>1 DEF Finding, Starts
  <2> QED BY <1>3, <1>5, <2>1, <2>2
<1>12. CASE AcquireTimesOut(r) \/ BadLockTimeout(r)
  <2>1. Op(r) = "lock"
    BY <1>12 DEF AcquireTimesOut, BadLockTimeout
  <2>2. pc[r].part = "pre"
    <3>1. pc[r].part \notin {"body", "late"}
      BY <1>0, <2>1, OpPlace
    <3> QED BY <1>1, <2>1, <3>1 DEF Tidying, Guards, Judges
  <2>3. Code(r) > 0
    <3>1. /\ job[r] \in Kinds /\ Part(r) = Script[job[r]]["pre"] /\ pc[r].i \in 1 .. Len(Part(r))
          /\ Op(r) = Script[job[r]]["pre"][pc[r].i][1]
      BY <1>0, <2>2, PlaceOf, OpPlace
    <3> QED BY <2>1, <3>1, TidyShape DEF Code
  <2>4. PICK c \in Int : c # 0 /\ GoTo(r, "end", [Me(r) EXCEPT !.rc = c])
    BY <1>0, <1>12, <2>3 DEF AcquireTimesOut, BadLockTimeout
  <2>5. [Me(r) EXCEPT !.rc = c] \in MeType /\ [Me(r) EXCEPT !.rc = c].rc = c
    BY <1>0 DEF MeType
  <2>6. pc'[r].part = "end" /\ rig'[r].rc # 0
    BY <2>4, <2>5, BooksGoTo
  <2> QED BY <2>6 DEF Accounts, Clean, InBody
<1>13. CASE Check(r) \/ Listen(r)
  <2>1. (Advance(r, Me(r)) \/ Lapse(r, Me(r))) /\ Op(r) \in Checks \cup {"listen"}
    BY <1>13 DEF Check, Listen
  <2>2. Op(r) \notin Finding \cup Tidying \cup Judges
    BY <2>1 DEF Finding, Starts, Guards, Checks, Tidying, Judges
  <2> QED BY <1>1, <1>3, <1>4, <1>5, <2>1, <2>2
<1>14. CASE PrepRefused(r) \/ PreflightRefuses(r) \/ WriteFiles(r)
  <2>1. (Advance(r, Me(r)) \/ Lapse(r, Me(r))) /\ Op(r) \in {"prep", "preflight", "write_files"}
    BY <1>14 DEF PrepRefused, PreflightRefuses, WriteFiles
  <2>2. Op(r) \notin Finding \cup Tidying \cup Judges
    BY <2>1 DEF Finding, Starts, Guards, Tidying, Judges
  <2> QED BY <1>1, <1>3, <1>4, <1>5, <2>1, <2>2
<1>15. CASE StoreUnavailable(r)
  <2>1. Lapse(r, Me(r)) /\ Op(r) = "files"
    BY <1>15 DEF StoreUnavailable
  <2>2. InBody(r)
    BY <1>2, <2>1 DEF Checks, Judges, Tidying, Guards
  <2>3. Code(r) = Ignored => Finds(r)
    BY <2>1 DEF Finds, Starts
  <2> QED BY <1>5, <2>1, <2>2, <2>3, AccountLapse DEF InBody
<1>16. CASE TrustFiles(r)
  <2> DEFINE m == [Me(r) EXCEPT !.store = TRUE]
  <2>1. Advance(r, m) /\ Op(r) = "files"
    BY <1>16, SMTT(30) DEF TrustFiles
  <2>2. Alike(m, Me(r)) /\ m.store = TRUE
    BY <1>0, <1>6, AlikeFields DEF MeType
  <2> HIDE DEF m
  <2>3. InBody(r)
    BY <1>2, <2>1 DEF Checks, Judges, Tidying, Guards
  <2>4. Booked(r, m) /\ Onward(r)
    BY <1>0, <2>1, <2>2, BooksAdvance DEF Alike
  <2>5. pc'[r].part # "end"
    BY <2>3, <2>4 DEF Onward, Succ, InBody, Placed
  <2>6. Finds(r)
    BY <2>1, <2>2, <2>4, <2>5 DEF Finds, Starts, Booked
  <2> QED BY <1>0, <2>1, <2>2, <2>6, AccountAdvance
<1>17. CASE CleanUp(r)
  <2>1. Op(r) = "cleanup"
    BY <1>17 DEF CleanUp
  <2>2. CASE dev' = [dev EXCEPT !.files = @ /\ ~Me(r).store] /\ Advance(r, Me(r))
    <3>1. Me(r).store => ~dev'.files
      BY <1>0, <2>2 DEF DevType
    <3>2. Finds(r)
      BY <1>0, <2>1, <3>1 DEF Finds, Starts
    <3> QED BY <1>0, <1>5, <2>2, <3>2, AccountAdvance
  <2>3. CASE Advance(r, [Me(r) EXCEPT !.rc = 1])
    <3>1. CASE pc[r].part = "fin"
      BY <1>0, <1>5, <2>3, <3>1, AccountFail
    <3>2. CASE pc[r].part # "fin"
      <4>1. pc[r].part # "pre"
        BY <1>0, <2>1, OpPlace DEF Checks
      <4> DEFINE m == [Me(r) EXCEPT !.rc = 1]
      <4>2. m \in MeType /\ m.bad = rig[r].bad /\ m.store = rig[r].store
        BY <1>0 DEF MeType
      <4> HIDE DEF m
      <4>3. Booked(r, m) /\ Onward(r)
        BY <1>0, <2>3, <4>2, BooksAdvance DEF m
      <4>4. Finds(r)
        BY <2>1, <3>2 DEF Finds, Starts
      <4> QED BY <3>2, <4>1, <4>2, <4>3, <4>4 DEF Booked, Accounts, Clean
    <3> QED BY <3>1, <3>2
  <2> QED BY <1>17, <2>2, <2>3 DEF CleanUp
<1>18. CASE Escape(r)
  <2>1. Leave(r, Me(r), 1)
    BY <1>18 DEF Escape
  <2> QED BY <1>5, <1>6, <2>1, AccountLeave
<1>19. CASE Kill(r)
  <2> DEFINE b == Me(r).fif
             m == [Me(r) EXCEPT !.rc = 1, !.killed = b]
  <2>1. GoTo(r, "end", m)
    BY <1>19 DEF Kill
  <2>2. b \in BOOLEAN
    BY <1>0 DEF MeType
  <2> HIDE DEF b
  <2>3. m \in MeType /\ m.rc = 1
    <3>1. m \in MeType
      BY <1>0, <1>6, <2>2, MeFields, Zenon
    <3>2. m.rc = 1
      BY <1>0 DEF MeType
    <3> QED BY <3>1, <3>2
  <2> HIDE DEF m
  <2>4. pc'[r].part = "end" /\ rig'[r].rc # 0
    BY <2>1, <2>3, BooksGoTo
  <2> QED BY <2>4 DEF Accounts, Clean, InBody
<1>21. CASE EnableUci(r)
  <2>1. Op(r) = "enable" /\ Advance(r, [Me(r) EXCEPT !.uci = TRUE])
    BY <1>21, SMTT(30) DEF EnableUci
  <2>2. Alike([Me(r) EXCEPT !.uci = TRUE], Me(r)) /\ Op(r) \notin Finding
    BY <1>0, <1>6, <2>1, AlikeFields DEF Finding, Starts
  <2> QED BY <1>3, <2>1, <2>2
<1>22. CASE LoadPrg(r)
  <2>1. pc' = pc /\ rig' = [rig EXCEPT ![r].tries = @ + 1]
    BY <1>22 DEF LoadPrg
  <2>2. rig'[r].bad = rig[r].bad /\ rig'[r].rc = rig[r].rc /\ rig'[r].store = rig[r].store
    BY <1>0, <2>1 DEF Placed, MeType
  <2> QED BY <1>0, <2>1, <2>2, AccountStay
<1>23. CASE VerifyAndRun(r) \/ LoadAndRun(r)
  <2>1. Op(r) \in Starts
    BY <1>23 DEF VerifyAndRun, LoadAndRun, Starts
  <2>2. \/ Lapse(r, Me(r))
        \/ /\ \/ c64' = [c64 EXCEPT !.ph = "boot", !.prog = r]
              \/ c64' = [c64 EXCEPT !.ph = "boot", !.prog = r, !.img = "good"]
           /\ Advance(r, Me(r)) \/ Advance(r, [Me(r) EXCEPT !.tries = 0])
    BY <1>23 DEF VerifyAndRun, LoadAndRun
  <2>3. InBody(r) /\ Op(r) \notin {"dhcp", "ended", "at_rest", "key_changed", "clear_screen", "files", "cleanup"}
    BY <1>2, <2>1 DEF Starts, Checks, Judges, Tidying, Guards
  <2>4. CASE Lapse(r, Me(r))
    <3>1. Code(r) = Ignored => Finds(r)
      BY <2>3 DEF Finds
    <3> QED BY <1>5, <2>3, <2>4, <3>1, AccountLapse DEF InBody
  <2>5. CASE /\ \/ c64' = [c64 EXCEPT !.ph = "boot", !.prog = r]
                \/ c64' = [c64 EXCEPT !.ph = "boot", !.prog = r, !.img = "good"]
             /\ Advance(r, Me(r)) \/ Advance(r, [Me(r) EXCEPT !.tries = 0])
    <3>1. Alike([Me(r) EXCEPT !.tries = 0], Me(r))
      BY <1>0, <1>6, AlikeFields
    <3>2. c64'.prog = r
      BY <1>0, <2>5 DEF C64Type
    <3>3. Finds(r)
      BY <2>3, <3>2 DEF Finds
    <3> QED BY <1>0, <1>5, <2>5, <3>1, <3>3, AccountAdvance, SMTT(30)
  <2> QED BY <2>2, <2>4, <2>5
<1>24. CASE Press(r)
  <2> DEFINE n == Me(r).nth + 1
  <2>1. n \in Nat
    BY <1>0 DEF MeType
  <2>2. \/ /\ Op(r) \in {"fetch", "arm", "press_g", "in_flight", "press_q", "answer_n", "answer_y", "answer_a",
                         "poison"}
           /\ \/ Advance(r, [Me(r) EXCEPT !.fif = TRUE, !.nth = n]) \/ Advance(r, [Me(r) EXCEPT !.nth = n])
              \/ Advance(r, [Me(r) EXCEPT !.fif = TRUE]) \/ Advance(r, Me(r))
        \/ /\ Op(r) = "clear_screen" /\ c64' = [c64 EXCEPT !.scr = <<>>]
           /\ Advance(r, [Me(r) EXCEPT !.nth = 0])
    BY <1>24, Zenon DEF Press
  <2> HIDE DEF n
  <2>3. CASE Op(r) # "clear_screen"
    <3>1. Op(r) \notin Finding
      BY <2>2, <2>3, SMTT(30) DEF Finding, Starts
    <3>2. /\ Alike([Me(r) EXCEPT !.fif = TRUE, !.nth = n], Me(r)) /\ Alike([Me(r) EXCEPT !.nth = n], Me(r))
          /\ Alike([Me(r) EXCEPT !.fif = TRUE], Me(r))
      BY <1>0, <2>1, AlikeFields
    <3> QED BY <1>3, <1>5, <2>2, <2>3, <3>1, <3>2
  <2>4. CASE Op(r) = "clear_screen"
    <3>1. c64' = [c64 EXCEPT !.scr = <<>>] /\ Advance(r, [Me(r) EXCEPT !.nth = 0])
      BY <2>2, <2>4
    <3>2. c64'.scr = <<>>
      BY <1>0, <3>1, SMTT(30) DEF C64Type
    <3>3. Finds(r) /\ Alike([Me(r) EXCEPT !.nth = 0], Me(r))
      BY <1>0, <1>6, <2>4, <3>2, AlikeFields DEF Finds, Starts
    <3> QED BY <1>0, <3>1, <3>3, AccountAdvance
  <2> QED BY <2>3, <2>4
\* Waits.
<1>31. CASE Wait(r)
  <2> DEFINE b == StillInFlight(r)
  <2>1. Op(r) \in Waits /\ Met(r) /\ Advance(r, [Me(r) EXCEPT !.fif = b])
    BY <1>31, SMTT(30) DEF Wait
  <2>2. b \in BOOLEAN
    BY <1>0 DEF StillInFlight, MeType
  <2> HIDE DEF b
  <2>3. Alike([Me(r) EXCEPT !.fif = b], Me(r))
    BY <1>0, <1>6, <2>2, AlikeFields
  <2>4. Op(r) = "dhcp" => c64.ph = "ready"
    BY <2>1 DEF Met
  <2>5. Op(r) = "ended" => c64.ph = "ready" /\ OnScreen("closed")
    BY <2>1 DEF Met
  <2>6. Op(r) = "at_rest" => c64.ph = "ready"
    BY <2>1 DEF Met
  <2>7. Op(r) = "key_changed" => c64.ph = "asking"
    BY <2>1 DEF Met
  <2>8. Finds(r)
    BY <2>1, <2>4, <2>5, <2>6, <2>7 DEF Finds, Starts, Waits
  <2> QED BY <1>0, <2>1, <2>3, <2>8, AccountAdvance
<1>32. CASE Overdue(r)
  <2>1. Op(r) \in Waits /\ ~(c64.ph = "ready" /\ c64.key)
    BY <1>32 DEF Overdue
  <2>2. InBody(r)
    BY <1>2, <2>1 DEF Waits, Checks, Judges, Tidying, Guards
  <2>3. CASE Op(r) # "viewer"
    <3>1. Lapse(r, Me(r))
      BY <1>32, <2>3 DEF Overdue
    <3>2. Code(r) = Ignored => Finds(r)
      BY <2>1 DEF Finds, Starts, Waits
    <3> QED BY <1>5, <2>2, <3>1, <3>2, AccountLapse DEF InBody
  <2>4. CASE Op(r) = "viewer"
    <3> DEFINE b == ProbeOpen
    <3>1. Leave(r, [Me(r) EXCEPT !.fif = FALSE], 1) \/ Leave(r, [Me(r) EXCEPT !.seen = b], 1)
      BY <1>32, <2>4 DEF Overdue
    <3>2. b \in BOOLEAN
      BY SMTT(30) DEF ProbeOpen
    <3> HIDE DEF b
    <3>3. Alike([Me(r) EXCEPT !.fif = FALSE], Me(r)) /\ Alike([Me(r) EXCEPT !.seen = b], Me(r))
      BY <1>0, <1>6, <3>2, AlikeFields
    <3> QED BY <1>6, <3>1, <3>3, AccountLeave
  <2> QED BY <2>3, <2>4
<1>33. CASE NudgeViewer(r)
    BY <1>0, <1>33, AccountStay DEF NudgeViewer
<1>34. CASE Landed(r) \/ LeaveViewer(r)
  <2>1. /\ Op(r) \in {"landed", "leave_viewer"}
        /\ \/ Advance(r, [Me(r) EXCEPT !.fif = FALSE])
           \/ Advance(r, [Me(r) EXCEPT !.fif = FALSE, !.keep = TRUE, !.warned = TRUE])
    BY <1>34, SMTT(30) DEF Landed, LeaveViewer
  <2>2. /\ Alike([Me(r) EXCEPT !.fif = FALSE], Me(r)) /\ Op(r) \notin Finding
        /\ Alike([Me(r) EXCEPT !.fif = FALSE, !.keep = TRUE, !.warned = TRUE], Me(r))
    BY <1>0, <1>6, <2>1, AlikeFields DEF Finding, Starts
  <2> QED BY <1>3, <2>1, <2>2
<1>35. CASE Judge(r)
  <2>1. PICK m \in {Me(r), [Me(r) EXCEPT !.fif = FALSE]} :
            Advance(r, m) \/ (pc[r].part # "fin" /\ Lapse(r, m))
            \/ (pc[r].part = "fin" /\ Advance(r, [m EXCEPT !.rc = 1]))
    BY <1>35 DEF Judge
  <2>2. Alike(m, Me(r)) /\ m \in MeType
    <3>1. Alike([Me(r) EXCEPT !.fif = FALSE], Me(r))
      BY <1>0, <1>6, AlikeFields
    <3>2. Alike(m, Me(r))
      BY <1>5, <2>1, <3>1
    <3> QED BY <3>2 DEF Alike
  <2>3. Op(r) \notin Finding
    BY <1>35 DEF Judge, Judges, Finding, Starts
  <2> QED BY <1>3, <1>4, <2>1, <2>2, <2>3, AccountFail
<1>36. CASE Guard(r)
  <2>0. Op(r) \notin Finding
    BY <1>36 DEF Guard, Guards, Finding, Starts
  <2> DEFINE b == ProbeOpen
  <2>1. \/ Advance(r, Me(r)) \/ Advance(r, [Me(r) EXCEPT !.fif = FALSE])
        \/ Advance(r, [Me(r) EXCEPT !.fif = FALSE, !.warned = TRUE])
        \/ pc' = pc /\ rig' = [rig EXCEPT ![r].nud = TRUE, ![r].seen = b]
        \/ pc' = pc /\ rig' = [rig EXCEPT ![r].seen = TRUE]
    BY <1>36 DEF Guard
  <2> HIDE DEF b
  <2>2. /\ Alike([Me(r) EXCEPT !.fif = FALSE], Me(r))
        /\ Alike([Me(r) EXCEPT !.fif = FALSE, !.warned = TRUE], Me(r))
    BY <1>0, <1>6, AlikeFields
  <2>3. CASE \/ pc' = pc /\ rig' = [rig EXCEPT ![r].nud = TRUE, ![r].seen = b]
             \/ pc' = pc /\ rig' = [rig EXCEPT ![r].seen = TRUE]
    <3>1. rig'[r].bad = rig[r].bad /\ rig'[r].rc = rig[r].rc /\ rig'[r].store = rig[r].store
      BY <1>0, <2>3 DEF Placed, MeType
    <3> QED BY <1>0, <2>3, <3>1, AccountStay
  <2> QED BY <1>3, <1>5, <2>0, <2>1, <2>2, <2>3
<1> QED BY <1>11, <1>12, <1>13, <1>14, <1>15, <1>16, <1>17, <1>18, <1>19, <1>21, <1>22, <1>23, <1>24,
           <1>31, <1>32, <1>33, <1>34, <1>35, <1>36 DEF RigStep, Work

\* Files appear when r writes them, in its body.
LEMMA FilesTouched ==
    ASSUME Placed, MachineType, NEW r \in Rigs, RigStep(r), dev'.files, ~dev.files
    PROVE  InBody(r) /\ Op(r) \in {"files", "write_files"}
<1>0. pc[r].part # "end" /\ dev \in DevType
    BY RigMoves DEF MachineType
<1>1. ASSUME Op(r) \in {"files", "write_files"} PROVE InBody(r)
    BY <1>0, <1>1, OpWhere DEF Checks, Judges, Tidying, Guards
<1>2. CASE TrustFiles(r) \/ StoreUnavailable(r) \/ WriteFiles(r)
    BY <1>1, <1>2 DEF TrustFiles, StoreUnavailable, WriteFiles
<1>3. CASE dev' = dev
    BY <1>3
<1>4. CASE \E a, b \in BOOLEAN :
              \/ dev' = [dev EXCEPT !.uci = a] \/ dev' = [dev EXCEPT !.turbo = a]
              \/ dev' = [dev EXCEPT !.reu = b] \/ dev' = [dev EXCEPT !.reu = b, !.turbo = a]
              \/ dev' = [dev EXCEPT !.lease = a]
    BY <1>0, <1>4 DEF DevType
<1>5. CASE EnableUci(r) \/ DisableUci(r) \/ PrepareDevice(r) \/ PrepRefused(r) \/ SetTurbo(r)
    BY <1>3, <1>4, <1>5, ZenonT(40) DEF EnableUci, DisableUci, PrepareDevice, PrepRefused, SetTurbo, WantsReu
<1>6. CASE CleanUp(r)
  <2> DEFINE f == dev.files /\ ~Me(r).store
  <2>1. dev' = dev \/ dev' = [dev EXCEPT !.files = f]
    BY <1>6 DEF CleanUp
  <2>2. f => dev.files
    OBVIOUS
  <2> HIDE DEF f
  <2> QED BY <1>0, <2>1, <2>2 DEF DevType
<1>7. CASE ResetC64(r) \/ CloseOrphan(r)
  <2> DEFINE l == dev.lease /\ ~c64.sock
  <2>1. dev' = dev \/ dev' = [dev EXCEPT !.lease = l]
    BY <1>7 DEF ResetC64, CloseOrphan, ResetEffect
  <2> HIDE DEF l
  <2> QED BY <1>0, <2>1 DEF DevType
<1>8. CASE \/ Check(r) \/ Escape(r) \/ Acquire(r) \/ AcquireTimesOut(r) \/ BadLockTimeout(r)
           \/ Release(r) \/ Listen(r) \/ Persist(r) \/ Kill(r) \/ PreflightReu(r) \/ PreflightRefuses(r)
           \/ RestoreDrive(r) \/ LoadPrg(r) \/ VerifyAndRun(r) \/ LoadAndRun(r) \/ Press(r) \/ Wait(r)
           \/ Overdue(r) \/ NudgeViewer(r) \/ Landed(r) \/ Guard(r) \/ LeaveViewer(r) \/ Judge(r)
    BY <1>8 DEF Check, Escape, Acquire, AcquireTimesOut, BadLockTimeout, Release, Listen, Persist, Kill,
                PreflightReu, PreflightRefuses, RestoreDrive, LoadPrg, VerifyAndRun, LoadAndRun, Press, Wait,
                Overdue, NudgeViewer, Landed, Guard, LeaveViewer, Judge
<1> QED BY <1>2, <1>5, <1>6, <1>7, <1>8 DEF RigStep, Work

\* Or when the C64 records a key.
LEMMA C64Files ==
    ASSUME MachineType, C64Step, dev'.files, ~dev.files
    PROVE  c64.ph = "close" /\ Kind \in Trusting
<1>1. CASE CloseSocket
  <2> DEFINE records == Kind \in Trusting /\ c64.out # "refused" /\ c64.ans # "y" /\ dev.uci
             f == dev.files \/ records
  <2>1. c64.ph = "close" /\ dev' = [dev EXCEPT !.files = f]
    BY <1>1 DEF CloseSocket
  <2>2. f => dev.files \/ Kind \in Trusting
    OBVIOUS
  <2> HIDE DEF f
  <2> QED BY <2>1, <2>2 DEF MachineType, DevType
<1>2. CASE dev' = dev
    BY <1>2
<1> QED BY <1>1, <1>2 DEF C64Step, Boot, TakeKey, TakeQuit, DialFails, DialOk, TlsOk, TlsFails, RecvHead,
                          RecvEnd, LeavesViewer, TakeAnswer

\* What the scripts promise about the files and the keys.
LEMMA TidyPromise ==
    ASSUME Placed, NEW r \in Rigs, InBody(r)
    PROVE  /\ Op(r) \in {"files", "write_files"} => Filing(job[r])
           /\ Filing(job[r]) /\ Op(r) = "files" => Code(r) # Ignored
           /\ job[r] \in Trusting =>
                /\ Op(r) # "press_q"
                /\ Op(r) \in Presses => Rested(job[r], At(r)) /\ Cleared(job[r], At(r))
                /\ Op(r) \in {"dhcp", "ended", "at_rest"} => ~Cleared(job[r], At(r)) /\ Code(r) # Ignored
                /\ Op(r) \in {"dhcp", "at_rest"} => ~Typed(job[r], At(r))
<1> DEFINE k == job[r]
           i == pc[r].i
<1>1. pc[r].part = "body" /\ pc[r].part # "end"
    BY DEF InBody
<1>2. k \in Kinds /\ Part(r) = Body(k) /\ i \in 1 .. Len(Body(k)) /\ At(r) = i /\ Body(k) \in Seq(STRING \X Int)
    BY <1>1, PlaceOf DEF Body, At
<1>3. Op(r) = Body(k)[i][1] /\ Code(r) = Body(k)[i][2] /\ Code(r) \in Int
    BY <1>1, <1>2, OpPlace DEF Body, Code
<1>4. Op(r) \in {"files", "write_files"} => Filing(k)
  <2>1. i \in DOMAIN Body(k) /\ Body(k) = Script[k].body
    BY <1>2 DEF Body
  <2>2. Op(r) \in Ops[k]
    BY <1>2, <1>3, <2>1 DEF Ops
  <2> QED BY <2>2 DEF Filing
<1>5. Filing(k) /\ Op(r) = "files" => Code(r) > 0
    BY <1>2, <1>3, TidyShape
<1>6. ASSUME k \in Trusting
      PROVE  /\ Op(r) # "press_q"
             /\ Op(r) \in Presses => Rested(k, i) /\ Cleared(k, i)
             /\ Op(r) \in {"dhcp", "ended", "at_rest"} => ~Cleared(k, i)
             /\ Op(r) \in {"dhcp", "at_rest"} => ~Typed(k, i)
             /\ Op(r) = "dhcp" => Code(r) > 0
             /\ Op(r) \in {"ended", "at_rest"} => Code(r) = Tallied
  <2>1. Op(r) \in Steps(k, "body")
    BY <1>2, <1>3 DEF Steps, Body
  <2>2. "press_q" \notin Steps(k, "body")
    BY <1>2, <1>6, TidyShape
  <2>3. /\ Body(k)[i][1] \in Presses => Rested(k, i) /\ Cleared(k, i)
        /\ Body(k)[i][1] \in {"dhcp", "ended", "at_rest"} => ~Cleared(k, i)
        /\ Body(k)[i][1] \in {"dhcp", "at_rest"} => ~Typed(k, i)
        /\ Body(k)[i][1] = "dhcp" => Body(k)[i][2] > 0
        /\ Body(k)[i][1] \in {"ended", "at_rest"} => Body(k)[i][2] = Tallied
    BY <1>2, <1>6, TidyShape
  <2> QED BY <1>3, <2>1, <2>2, <2>3
<1> QED BY <1>2, <1>3, <1>4, <1>5, <1>6 DEF Ignored, Tallied

\* One step on in the body, or out of it.
LEMMA BodyNext ==
    ASSUME Placed, NEW r \in Rigs, InBody(r), Onward(r), job' = job
    PROVE  /\ At(r) \in Nat
           /\ \A S, T : Since(Body(job[r]), At(r) + 1, S, T)
                          <=> Op(r) \in S \/ (Since(Body(job[r]), At(r), S, T) /\ Op(r) \notin T)
           /\ \/ InBody(r)' /\ At(r)' = At(r) + 1
              \/ pc'[r].part = "fin" /\ At(r)' = 1 /\ At(r) = Len(Body(job[r]))
<1>0. pc[r].part = "body"
    BY DEF InBody
<1>1. /\ pc[r].i \in Nat \ {0} /\ Part(r) = Body(job[r]) /\ pc[r].i \in 1 .. Len(Body(job[r]))
      /\ Len(Body(job[r])) \in Nat /\ Op(r) = Body(job[r])[pc[r].i][1]
    BY <1>0, PlaceOf, OpPlace DEF Body
<1>2. pc'[r] = Succ(r)
    BY DEF Onward, Placed
<1>3. \/ InBody(r)' /\ At(r)' = At(r) + 1
      \/ pc'[r].part = "fin" /\ At(r)' = 1 /\ At(r) = Len(Body(job[r]))
  <2>1. CASE pc[r].i < Len(Part(r))
    <3>1. pc'[r] = [part |-> pc[r].part, i |-> pc[r].i + 1]
      BY <1>2, <2>1 DEF Succ
    <3> QED BY <1>0, <3>1 DEF InBody, At
  <2>2. CASE ~(pc[r].i < Len(Part(r)))
    <3>1. pc'[r] = [part |-> "fin", i |-> 1]
      BY <1>0, <1>2, <2>2 DEF Succ
    <3> QED BY <1>1, <2>2, <3>1 DEF At
  <2> QED BY <2>1, <2>2
<1>4. \A S, T : Since(Body(job[r]), pc[r].i + 1, S, T)
                  <=> Op(r) \in S \/ (Since(Body(job[r]), pc[r].i, S, T) /\ Op(r) \notin T)
    BY <1>1, SinceNext
<1> QED BY <1>1, <1>3, <1>4 DEF At

\* r's program runs in its body only once it was started there.
LEMMA BodyProgram ==
    ASSUME PoisonInv, NEW r \in Rigs, RigStep(r), c64'.prog = r, InBody(r)'
    PROVE  InBody(r) /\ (pc'[r] = pc[r] \/ Onward(r))
<1>0. Placed /\ MachineType /\ Loaded
    BY DEF PoisonInv, MachineInv, SectionInv
<1>1. pc[r].part # "end" /\ job' = job /\ Moves(r)
    BY <1>0, RigMoves
<1>2. \/ pc'[r] = pc[r] /\ InBody(r)
      \/ Onward(r) /\ InBody(r)
      \/ Onward(r) /\ pc[r].part = "pre"
    BY <1>0, <1>1, BodyMoves
<1>3. CASE pc[r].part = "pre"
  <2>1. Op(r) \in Checks \cup {"lock"}
    BY <1>0, <1>1, <1>3, OpPlace
  <2>2. Looks(r)
    BY <1>0, <1>3, <2>1, RigShape
       DEF Disables, Resets, Boots, Asks, Dies, Checks, Starts, Presses
  <2>3. c64.prog = r
    BY <2>2 DEF Looks, Mild
  <2> QED BY <1>0, <1>3, <2>3 DEF Loaded
<1> QED BY <1>2, <1>3

\* What a step of the body leaves of a program that runs, as its shape shows.
Tends(r) == (Mild(r) /\ c64.prog = r) \/ Boots(r) \/ Asks(r)

LEMMA BodyTends ==
    ASSUME PoisonInv, NEW r \in Rigs, RigStep(r), InBody(r), c64'.prog = r
    PROVE  Tends(r)
<1>0. Placed /\ MachineType /\ NoRig \notin Rigs /\ pc[r].part # "end"
    BY RigAssumption DEF PoisonInv, MachineInv, SectionInv, InBody
<1>1. Looks(r) \/ Disables(r) \/ Resets(r) \/ Boots(r) \/ Asks(r) \/ Dies(r)
    BY <1>0, RigShape
<1>2. ~Disables(r) /\ ~Dies(r)
    BY <1>0, OpWhere DEF Disables, Dies, InBody
<1>3. ~Resets(r)
    BY <1>0 DEF Resets, ResetEffect, Blank
<1>4. CASE Looks(r)
  <2>1. Mild(r) /\ c64.prog = r
    BY <1>4 DEF Looks, Mild
  <2> QED BY <2>1 DEF Tends
<1> QED BY <1>1, <1>2, <1>3, <1>4 DEF Tends

\* After a step of the body that r takes as a success, with the place after it as n.
LEMMA RoamsOn ==
    ASSUME TidyInv, NEW r \in Rigs, job[r] \in Trusting, RigStep(r), InBody(r), Onward(r), Clean(r)',
           c64'.prog = r, NEW n, n = At(r) + 1
    PROVE  /\ c64'.key => c64'.ph = "ready" /\ ~OnScreen("closed")' /\ Typed(job[r], n)
           /\ Rested(job[r], n) => c64'.ph = "ready" /\ ~c64'.key
           /\ Rested(job[r], n) /\ Cleared(job[r], n) => ~OnScreen("closed")'
<1> DEFINE k == job[r]
           i == At(r)
<1>0. Placed /\ MachineType /\ PoisonInv /\ Roams(r) /\ General(r) /\ job' = job /\ pc[r].part # "pre"
    BY RigMoves DEF TidyInv, PoisonInv, MachineInv, SectionInv, InBody
<1>1. Clean(r) /\ Finds(r)
    BY <1>0, RigBooks, OnwardMoves DEF Accounts
<1>2. Tends(r)
    BY <1>0, BodyTends
<1>3. /\ Rested(k, n) <=> \/ Op(r) \in {"dhcp", "ended", "at_rest"}
                          \/ Rested(k, i) /\ Op(r) \notin Presses \cup Starts \cup {"reset"}
      /\ Cleared(k, n) <=> Op(r) = "clear_screen" \/ (Cleared(k, i) /\ Op(r) \notin Presses)
      /\ Typed(k, n) <=> Op(r) \in Presses \/ (Typed(k, i) /\ Op(r) \notin {"ended", "key_changed"})
  <2>1. \A S, T : Since(Body(k), n, S, T) <=> Op(r) \in S \/ (Since(Body(k), i, S, T) /\ Op(r) \notin T)
    BY <1>0, BodyNext
  <2>2. Rested(k, n) <=> \/ Op(r) \in {"dhcp", "ended", "at_rest"}
                         \/ Rested(k, i) /\ Op(r) \notin Presses \cup Starts \cup {"reset"}
    BY <2>1 DEF Rested
  <2>3. Cleared(k, n) <=> Op(r) = "clear_screen" \/ (Cleared(k, i) /\ Op(r) \notin Presses)
    BY <2>1 DEF Cleared
  <2>4. Typed(k, n) <=> Op(r) \in Presses \/ (Typed(k, i) /\ Op(r) \notin {"ended", "key_changed"})
    BY <2>1 DEF Typed
  <2> QED BY <2>2, <2>3, <2>4
<1>4. /\ Op(r) \in Presses => Rested(k, i) /\ Cleared(k, i)
      /\ Op(r) \in {"dhcp", "ended", "at_rest"} => ~Cleared(k, i) /\ Code(r) # Ignored
      /\ Op(r) \in {"dhcp", "at_rest"} => ~Typed(k, i)
    BY <1>0, TidyPromise
<1>5. CASE Mild(r) /\ c64.prog = r
  <2>1. /\ c64.key => c64.ph = "ready" /\ ~OnScreen("closed") /\ Typed(k, i)
        /\ Rested(k, i) => c64.ph = "ready" /\ ~c64.key
        /\ Rested(k, i) /\ Cleared(k, i) => ~OnScreen("closed")
    BY <1>0, <1>1, <1>5 DEF Roams
  <2>2. c64'.ph = c64.ph /\ c64'.key = c64.key /\ (OnScreen("closed")' => OnScreen("closed"))
    BY <1>0, <1>5, MildView DEF Mild
  <2>3. Op(r) \in {"dhcp", "ended", "at_rest"} => c64.ph = "ready" /\ ~c64.key
    BY <1>1, <1>4, <2>1 DEF Finds
  <2>4. Op(r) = "clear_screen" => ~OnScreen("closed")'
    BY <1>1, EmptyScreen DEF Finds, OnScreen
  <2>5. c64.key => Op(r) \notin {"ended", "key_changed"}
    BY <1>1, <2>1, <2>3 DEF Finds
  <2>6. c64'.key => c64'.ph = "ready" /\ ~OnScreen("closed")' /\ Typed(k, n)
    BY <1>3, <2>1, <2>2, <2>5
  <2>7. Rested(k, n) => c64'.ph = "ready" /\ ~c64'.key
    BY <1>3, <2>1, <2>2, <2>3
  <2>8. Rested(k, n) /\ Cleared(k, n) => ~OnScreen("closed")'
    BY <1>3, <1>4, <2>1, <2>2, <2>4 DEF Presses
  <2> QED BY <2>6, <2>7, <2>8
<1>6. CASE Boots(r)
  <2>1. Op(r) \in Starts /\ c64'.key = c64.key
    BY <1>6 DEF Boots
  <2>2. Bare
    BY <1>0, <2>1, BodyPromise DEF Promised, General, Runs
  <2>3. ~Rested(k, n) /\ ~c64'.key
    BY <1>3, <2>1, <2>2 DEF Bare, Starts
  <2> QED BY <2>3
<1>7. CASE Asks(r)
  <2>1. Op(r) \in Presses /\ c64'.ph = c64.ph /\ c64'.scr = c64.scr /\ c64.prog = r
    BY <1>7 DEF Asks
  <2>2. c64.ph = "ready" /\ ~OnScreen("closed")
    BY <1>0, <1>1, <1>4, <2>1 DEF Roams
  <2>3. ~Rested(k, n) /\ Typed(k, n) /\ (OnScreen("closed")' <=> OnScreen("closed"))
    BY <1>3, <2>1 DEF Presses, OnScreen
  <2> QED BY <2>1, <2>2, <2>3
<1> QED BY <1>2, <1>5, <1>6, <1>7 DEF Tends

LEMMA OwnRoams ==
    ASSUME TidyInv, NEW r \in Rigs, job[r] \in Trusting, RigStep(r)
    PROVE  Roams(r)'
<1>0. Placed /\ MachineType /\ PoisonInv /\ Roams(r) /\ General(r) /\ job' = job /\ pc[r].part # "end"
    BY RigMoves DEF TidyInv, PoisonInv, MachineInv, SectionInv
<1> SUFFICES ASSUME InBody(r)', c64'.prog = r
             PROVE  /\ c64'.q => c64'.ph = "viewer"
                    /\ Clean(r)' =>
                         /\ c64'.key => c64'.ph = "ready" /\ ~OnScreen("closed")' /\ Typed(job[r], At(r)')
                         /\ Rested(job[r], At(r)') => c64'.ph = "ready" /\ ~c64'.key
                         /\ Rested(job[r], At(r)') /\ Cleared(job[r], At(r)') => ~OnScreen("closed")'
    BY <1>0 DEF Roams
<1>1. InBody(r) /\ (pc'[r] = pc[r] \/ Onward(r))
    BY <1>0, BodyProgram
<1>2. Tends(r)
    BY <1>0, <1>1, BodyTends
<1>3. c64'.q => c64'.ph = "viewer"
  <2>1. CASE Mild(r) /\ c64.prog = r
    <3>1. c64.q => c64.ph = "viewer"
      BY <1>0, <1>1, <2>1 DEF Roams
    <3>2. Op(r) # "press_q"
      BY <1>0, <1>1, TidyPromise
    <3> QED BY <2>1, <3>1, <3>2 DEF Mild
  <2>2. CASE Boots(r)
    <3>1. Bare
      BY <1>0, <1>1, <2>2, BodyPromise DEF Boots, Promised, General, Runs
    <3> QED BY <2>2, <3>1 DEF Boots, Bare
  <2>3. CASE Asks(r)
    BY <1>0, <1>1, <2>3 DEF Roams, Asks
  <2> QED BY <1>2, <2>1, <2>2, <2>3 DEF Tends
<1>4. ASSUME Clean(r)'
      PROVE  /\ c64'.key => c64'.ph = "ready" /\ ~OnScreen("closed")' /\ Typed(job[r], At(r)')
             /\ Rested(job[r], At(r)') => c64'.ph = "ready" /\ ~c64'.key
             /\ Rested(job[r], At(r)') /\ Cleared(job[r], At(r)') => ~OnScreen("closed")'
  <2>1. CASE Onward(r)
    <3>1. At(r)' = At(r) + 1
      BY <1>0, <1>1, <2>1, BodyNext DEF InBody
    <3> QED BY <1>1, <1>4, <2>1, <3>1, RoamsOn
  <2>2. CASE ~Onward(r)
    <3>1. Mild(r) /\ c64.prog = r /\ At(r)' = At(r) /\ Clean(r)
      BY <1>0, <1>1, <1>2, <1>4, <2>2, RigBooks DEF Tends, Boots, Asks, At, Accounts, InBody
    <3>2. c64'.ph = c64.ph /\ c64'.key = c64.key /\ (OnScreen("closed")' => OnScreen("closed"))
      BY <1>0, <3>1, MildView DEF Mild
    <3> QED BY <1>0, <1>1, <3>1, <3>2 DEF Roams
  <2> QED BY <2>1, <2>2
<1> QED BY <1>3, <1>4

\* One step on in the finally clause, or out of it.
LEMMA FinNext ==
    ASSUME Placed, NEW r \in Rigs, pc[r].part = "fin", Onward(r)
    PROVE  /\ \A S, T : Since(Fin(job[r]), At(r) + 1, S, T)
                          <=> Op(r) \in S \/ (Since(Fin(job[r]), At(r), S, T) /\ Op(r) \notin T)
           /\ \/ pc'[r].part = "fin" /\ At(r)' = At(r) + 1
              \/ pc'[r].part = "end" /\ At(r) = Len(Fin(job[r]))
<1>1. /\ pc[r].i \in Nat \ {0} /\ Part(r) = Fin(job[r]) /\ pc[r].i \in 1 .. Len(Fin(job[r]))
      /\ Len(Fin(job[r])) \in Nat /\ Op(r) = Fin(job[r])[pc[r].i][1]
    BY PlaceOf, OpPlace DEF Fin
<1>2. pc'[r] = Succ(r)
    BY DEF Onward, Placed
<1>3. \/ pc'[r].part = "fin" /\ At(r)' = At(r) + 1
      \/ pc'[r].part = "end" /\ At(r) = Len(Fin(job[r]))
  <2>1. CASE pc[r].i < Len(Part(r))
    <3>1. pc'[r] = [part |-> pc[r].part, i |-> pc[r].i + 1]
      BY <1>2, <2>1 DEF Succ
    <3> QED BY <3>1 DEF At
  <2>2. CASE ~(pc[r].i < Len(Part(r)))
    <3>1. pc'[r] = [part |-> "end", i |-> 1]
      BY <1>2, <2>2 DEF Succ
    <3> QED BY <1>1, <2>2, <3>1 DEF At
  <2> QED BY <2>1, <2>2
<1>4. \A S, T : Since(Fin(job[r]), pc[r].i + 1, S, T)
                  <=> Op(r) \in S \/ (Since(Fin(job[r]), pc[r].i, S, T) /\ Op(r) \notin T)
  <2> DEFINE s == Fin(job[r])
             i == pc[r].i
  <2>1. i \in Nat \ {0} /\ Op(r) = s[i][1]
    BY <1>1
  <2> HIDE DEF s, i
  <2>2. \A S, T : Since(s, i + 1, S, T) <=> s[i][1] \in S \/ (Since(s, i, S, T) /\ s[i][1] \notin T)
    BY <2>1, SinceNext
  <2> QED BY <2>1, <2>2 DEF s, i
<1> QED BY <1>3, <1>4 DEF At

\* A rig with files keeps the lock to its last step, which releases it.
LEMMA FinLock ==
    ASSUME Placed, NEW r \in Rigs, Filing(job[r]), pc[r].part = "fin"
    PROVE  /\ HasLock(r)
           /\ At(r) = Len(Fin(job[r])) => Cleaned(job[r], At(r))
<1> DEFINE k == job[r]
           i == pc[r].i
<1>1. /\ k \in Kinds /\ i \in 1 .. Len(Fin(k)) /\ Len(Fin(k)) \in Nat /\ Op(r) = Fin(k)[i][1]
    BY PlaceOf, OpPlace DEF Fin
<1>2. Op(r) \in Steps(k, "fin")
    BY <1>1 DEF Steps, Fin
<1>3. Steps(k, "fin") \cap Judges = {}
    BY <1>1, TidyShape
<1>4. HasLock(r)
    BY <1>2, <1>3, OpPlace
<1>5. ASSUME i = Len(Fin(k)) PROVE Cleaned(k, i)
  <2>1. PICK j \in 1 .. Len(Fin(k)) : Fin(k)[j][1] = "release"
    BY <1>1, ScriptShape DEF Steps, Fin
  <2>2. CASE j < i
    <3>1. Op(r) \in Judges
      BY <1>1, <2>1, <2>2, ScriptShape DEF Fin
    <3> QED BY <1>2, <1>3, <3>1
  <2>3. CASE j = i
    BY <1>1, <2>1, <2>3, TidyShape
  <2> QED BY <1>1, <1>5, <2>1, <2>2, <2>3
<1> QED BY <1>4, <1>5 DEF At

\* The program r leaves behind its body is its own.
LEMMA OwnProgram ==
    ASSUME PoisonInv, NEW r \in Rigs, RigStep(r), InBody(r), Onward(r), Finds(r),
           Running(job[r], At(r) + 1)
    PROVE  c64'.prog = r
<1>0. Placed /\ MachineType /\ General(r) /\ job' = job /\ pc[r].part # "end"
    BY RigMoves DEF PoisonInv, MachineInv, SectionInv
<1>1. Op(r) \in Starts \/ (Running(job[r], At(r)) /\ Op(r) # "reset")
    BY <1>0, BodyNext DEF Running
<1>2. CASE Op(r) \in Starts
  <2>1. Code(r) > 0 /\ Code(r) \in Int
    BY <1>0, <1>2, BodyPromise, OpPlace DEF Promised
  <2> QED BY <1>2, <2>1 DEF Finds, Ignored
<1>3. CASE Running(job[r], At(r)) /\ Op(r) # "reset"
  <2>1. c64.prog = r
    BY <1>0, <1>3 DEF General, Runs
  <2>2. ~Resets(r)
    BY <1>0, <1>3, OpWhere DEF Resets, InBody
  <2> QED BY <1>0, <2>1, <2>2, RigShape DEF Looks, Mild, Disables, Boots, Asks, Dies
<1> QED BY <1>1, <1>2, <1>3

LEMMA OwnFiles ==
    ASSUME TidyInv, NEW r \in Rigs, Filing(job[r]), RigStep(r)
    PROVE  Files(r)'
<1> DEFINE k == job[r]
<1>0. /\ Placed /\ MachineType /\ PoisonInv /\ Files(r) /\ job' = job /\ pc[r].part # "end" /\ Moves(r)
      /\ Accounts(r) /\ k \in Kinds
    BY RigMoves, RigBooks DEF TidyInv, PoisonInv, MachineInv, SectionInv, Placed
<1>1. \A s, S, T : ~Since(s, 1, S, T)
    BY DEF Since
<1>2. ASSUME InBody(r), Onward(r), Finds(r), Clean(r), Stored(k, At(r) + 1), pc'[r].part # "end"
      PROVE  rig'[r].store
  <2>1. Op(r) = "files" \/ Stored(k, At(r))
    BY <1>0, <1>2, BodyNext DEF Stored
  <2>2. CASE Op(r) = "files"
    BY <1>0, <1>2, <2>2, TidyPromise DEF Finds
  <2>3. CASE Stored(k, At(r))
    BY <1>0, <1>2, <2>3 DEF Files, Accounts
  <2> QED BY <2>1, <2>2, <2>3
<1>3. ASSUME InBody(r)', Clean(r)', Stored(k, At(r)') PROVE rig'[r].store
  <2>1. \/ pc'[r] = pc[r] /\ InBody(r)
        \/ Onward(r) /\ InBody(r) /\ pc'[r].i = pc[r].i + 1
        \/ pc'[r].i = 1
    BY <1>0, <1>3, BodyMoves
  <2>2. CASE pc'[r].i = 1
    BY <1>3, <1>1, <2>2 DEF Stored, At
  <2>3. CASE pc'[r] = pc[r] /\ InBody(r)
    BY <1>0, <1>3, <2>3 DEF Files, Accounts, InBody, At
  <2>4. CASE Onward(r) /\ InBody(r) /\ pc'[r].i = pc[r].i + 1
    <3>1. Clean(r) /\ Finds(r) /\ At(r)' = At(r) + 1 /\ pc'[r].part # "end"
      BY <1>0, <1>3, <2>4, OnwardMoves DEF Accounts, InBody, At
    <3> QED BY <1>2, <1>3, <2>4, <3>1
  <2> QED BY <2>1, <2>2, <2>3, <2>4
<1>4. ASSUME pc'[r].part = "fin", Clean(r)'
      PROVE  /\ rig'[r].store /\ c64'.prog \in {r, NoRig}
             /\ Cleaned(k, At(r)') => ~dev'.files
  <2>1. /\ Clean(r) /\ pc[r].part \in {"body", "fin"}
        /\ (pc'[r] = pc[r] /\ ~Onward(r)) \/ (Onward(r) /\ Finds(r))
    BY <1>0, <1>4 DEF Accounts, InBody, Clean
  <2>2. CASE pc[r].part = "body"
    <3>1. InBody(r) /\ Onward(r) /\ Finds(r)
      BY <1>4, <2>1, <2>2 DEF InBody
    <3>2. At(r)' = 1 /\ At(r) = Len(Body(k))
      BY <1>0, <1>4, <3>1, BodyNext DEF InBody
    <3>3. Stored(k, At(r) + 1) /\ Running(k, At(r) + 1)
      BY <1>0, <3>2, TidyShape
    <3>4. rig'[r].store
      BY <1>2, <1>4, <2>1, <3>1, <3>3
    <3>5. c64'.prog = r
      BY <1>0, <3>1, <3>3, OwnProgram
    <3>6. ~Cleaned(k, 1)
      BY <1>1 DEF Cleaned
    <3> QED BY <3>2, <3>4, <3>5, <3>6
  <2>3. CASE pc[r].part = "fin"
    <3>1. rig[r].store /\ c64.prog \in {r, NoRig} /\ (Cleaned(k, At(r)) => ~dev.files)
      BY <1>0, <2>1, <2>3 DEF Files
    <3>2. rig'[r].store
      BY <1>0, <1>4, <3>1 DEF Accounts
    <3>3. c64'.prog \in {r, NoRig}
      BY <1>0, <3>1, RigShape DEF Looks, Mild, Disables, Resets, ResetEffect, Blank, Boots, Asks, Dies
    <3>4. dev'.files => dev.files
      BY <1>0, <2>3, FilesTouched DEF InBody
    <3>5. ASSUME Cleaned(k, At(r)') PROVE ~dev'.files
      <4>1. CASE pc'[r] = pc[r]
        BY <3>1, <3>4, <3>5, <4>1 DEF At
      <4>2. CASE Onward(r) /\ Finds(r)
        <5>1. At(r)' = At(r) + 1
          BY <1>0, <1>4, <2>3, <4>2, FinNext
        <5>2. Op(r) = "cleanup" \/ Cleaned(k, At(r))
          BY <1>0, <2>3, <3>5, <4>2, <5>1, FinNext DEF Cleaned
        <5> QED BY <2>3, <3>1, <3>4, <4>2, <5>2 DEF Finds
      <4> QED BY <2>1, <4>1, <4>2
    <3> QED BY <3>2, <3>3, <3>5
  <2> QED BY <2>1, <2>2, <2>3
<1> QED BY <1>0, <1>3, <1>4 DEF Files

LEMMA OwnLeaves ==
    ASSUME TidyInv, NEW r \in Rigs, job[r] \in Trusting, RigStep(r)
    PROVE  Leaves(r)'
<1> DEFINE k == job[r]
<1>0. /\ Placed /\ MachineType /\ PoisonInv /\ Leaves(r) /\ job' = job /\ pc[r].part # "end"
      /\ Accounts(r) /\ k \in Kinds /\ NoRig \notin Rigs
    BY RigMoves, RigBooks, RigAssumption DEF TidyInv, PoisonInv, MachineInv, SectionInv, Placed
<1> SUFFICES ASSUME pc'[r].part \in {"fin", "end"}, Clean(r)', c64'.prog = r
             PROVE  c64'.ph \in {"ready", "basic"} /\ ~c64'.key
    BY DEF Leaves, AtRest
<1>1. /\ Clean(r) /\ pc[r].part \in {"body", "fin"}
      /\ (pc'[r] = pc[r] /\ ~Onward(r)) \/ (Onward(r) /\ Finds(r))
    BY <1>0 DEF Accounts, InBody, Clean
<1>2. CASE pc[r].part = "body"
  <2>1. InBody(r) /\ Onward(r)
    BY <1>1, <1>2 DEF InBody
  <2>2. At(r) = Len(Body(k))
    BY <1>0, <2>1, BodyNext DEF InBody
  <2>3. Rested(k, At(r) + 1)
    BY <1>0, <2>2, TidyShape
  <2> QED BY <2>1, <2>3, RoamsOn
<1>3. CASE pc[r].part = "fin"
  <2>1. c64.prog = r => c64.ph \in {"ready", "basic"} /\ ~c64.key
    BY <1>0, <1>1, <1>3 DEF Leaves, AtRest
  <2>2. Op(r) \in Tidying \cup Judges
    BY <1>0, <1>3, OpPlace
  <2>3. ~Boots(r) /\ ~Asks(r)
    BY <2>2 DEF Boots, Asks, Starts, Presses, Tidying, Judges, Guards
  <2>4. ~Resets(r)
    BY <1>0 DEF Resets, ResetEffect, Blank
  <2> QED BY <1>0, <2>1, <2>3, <2>4, RigShape DEF Looks, Mild, Disables, Dies
<1> QED BY <1>1, <1>2, <1>3

\* A step of r leaves what is said of another rig.
LEMMA OtherTidy ==
    ASSUME TidyInv, NEW r \in Rigs, NEW q \in Rigs, q # r, RigStep(r)
    PROVE  /\ Filing(job[q])' => Files(q)'
           /\ job'[q] \in Trusting => Roams(q)' /\ Leaves(q)'
<1>0. /\ Placed /\ MachineType /\ Section /\ General(r)
      /\ Filing(job[q]) => Files(q)
      /\ job[q] \in Trusting => Roams(q) /\ Leaves(q)
    BY DEF TidyInv, PoisonInv, MachineInv, SectionInv
<1>1. job' = job /\ pc'[q] = pc[q] /\ rig'[q] = rig[q]
    BY <1>0, RigMoves, StepPlaced
<1>2. Clean(q)' <=> Clean(q)
    BY <1>1 DEF Clean, InBody
<1>3. CASE c64' = c64 /\ dev' = dev
  <2>1. Files(q)' <=> Files(q)
    BY <1>1, <1>2, <1>3 DEF Files, InBody, At
  <2>2. OnScreen("closed")' <=> OnScreen("closed")
    BY <1>3 DEF OnScreen
  <2>3. Roams(q)' <=> Roams(q)
    BY <1>1, <1>2, <1>3, <2>2 DEF Roams, InBody, At
  <2>4. Leaves(q)' <=> Leaves(q)
    BY <1>1, <1>2, <1>3 DEF Leaves, AtRest
  <2> QED BY <1>0, <1>1, <2>1, <2>3, <2>4
<1>4. CASE HasLock(r)
  <2>1. ~HasLock(q)
    BY <1>0, <1>4 DEF Section
  <2>2. ~InBody(q)'
    BY <1>1, <2>1 DEF HasLock, InBody
  <2>3. Filing(job[q]) => pc'[q].part # "fin"
    BY <1>0, <1>1, <2>1, FinLock
  <2>4. c64'.prog = q => c64.prog = q /\ c64'.ph = c64.ph /\ c64'.key = c64.key
    BY <1>0, StrangerKept DEF General
  <2>5. Filing(job[q]) => Files(q)'
    BY <2>2, <2>3 DEF Files
  <2>6. Roams(q)'
    BY <2>2 DEF Roams
  <2>7. job[q] \in Trusting => Leaves(q)'
    BY <1>0, <1>1, <1>2, <2>4 DEF Leaves, AtRest
  <2> QED BY <1>1, <2>5, <2>6, <2>7
<1> QED BY <1>0, <1>3, <1>4, RigTouch

\* Who has left files has not passed.
LEMMA RigTold ==
    ASSUME TidyInv, NEW r \in Rigs, RigStep(r)
    PROVE  TidyOrTold'
<1>0. /\ Placed /\ MachineType /\ job' = job /\ pc[r].part # "end" /\ Moves(r) /\ Accounts(r)
      /\ \A q \in Rigs \ {r} : pc'[q] = pc[q] /\ rig'[q] = rig[q]
    BY RigMoves, RigBooks, StepPlaced DEF TidyInv, PoisonInv, MachineInv, SectionInv
<1> SUFFICES ASSUME dev'.files PROVE \E q \in Rigs : Filing(job[q]) /\ ~Passed(q)'
    BY <1>0 DEF TidyOrTold, Filing
<1>1. CASE ~dev.files
  <2>1. InBody(r) /\ Op(r) \in {"files", "write_files"}
    BY <1>0, <1>1, FilesTouched
  <2>2. Filing(job[r])
    BY <1>0, <2>1, TidyPromise
  <2>3. pc'[r].part # "end"
    BY <1>0, <2>1 DEF Moves, Departs, Onward, Goes, Succ, Placed, InBody
  <2> QED BY <2>2, <2>3 DEF Passed
<1>2. CASE dev.files
  <2>1. PICK q \in Rigs : Filing(job[q]) /\ ~Passed(q)
    BY <1>2 DEF TidyInv, TidyOrTold, Filing
  <2>2. CASE q # r
    BY <1>0, <2>1, <2>2 DEF Passed
  <2>3. CASE q = r
    <3>1. SUFFICES ASSUME pc'[r].part = "end", rig'[r].rc = 0 PROVE FALSE
      BY <2>1, <2>3 DEF Passed
    <3>2. Clean(r)' /\ ~InBody(r)'
      BY <3>1 DEF Clean, InBody
    <3>3. Clean(r) /\ Onward(r) /\ pc[r].part # "pre"
      BY <1>0, <3>1, <3>2 DEF Accounts
    <3>4. pc[r].part = "fin"
      BY <1>0, <3>1, <3>3 DEF Onward, Succ, Placed
    <3>5. At(r) = Len(Fin(job[r]))
      BY <1>0, <3>1, <3>3, <3>4, FinNext
    <3>6. Cleaned(job[r], At(r))
      BY <1>0, <2>1, <2>3, <3>4, <3>5, FinLock
    <3>7. Files(r)
      BY <2>1, <2>3 DEF TidyInv
    <3> QED BY <1>2, <3>3, <3>4, <3>6, <3>7 DEF Files
  <2> QED BY <2>2, <2>3
<1> QED BY <1>1, <1>2 DEF TidyInv, PoisonInv, MachineInv, SectionInv, MachineType, DevType

LEMMA RigTidy ==
    ASSUME TidyInv, NEW r \in Rigs, RigStep(r), PoisonInv'
    PROVE  TidyInv'
<1>1. job' = job
    BY RigMoves DEF TidyInv, PoisonInv, MachineInv, SectionInv
<1>2. ASSUME NEW q \in Rigs
      PROVE  /\ Filing(job[q])' => Files(q)'
             /\ job'[q] \in Trusting => Roams(q)' /\ Leaves(q)'
  <2>1. CASE q = r
    BY <1>1, <2>1, OwnFiles, OwnRoams, OwnLeaves
  <2>2. CASE q # r
    BY <2>2, OtherTidy
  <2> QED BY <2>1, <2>2
<1> QED BY <1>2, RigTold DEF TidyInv

\* What the C64 does meanwhile: it asks for nothing that was not asked of it.
LEMMA C64Asked ==
    ASSUME MachineType, C64Step, c64.ph = "asking"
    PROVE  c64'.key = c64.key /\ c64'.q = c64.q
<1>0. c64 \in C64Type
    BY DEF MachineType
<1>1. TakeAnswer
    BY DEF C64Step, Boot, TakeKey, TakeQuit, DialFails, DialOk, TlsOk, TlsFails, RecvHead, RecvEnd,
           LeavesViewer, CloseSocket
<1>2. CASE c64' = Ready(c64)
    BY <1>0, <1>2, ReadyFields
<1>3. CASE c64' = [c64 EXCEPT !.ph = "dial", !.scr = Shown("get"), !.out = "none"]
    BY <1>0, <1>3 DEF C64Type
<1> QED BY <1>1, <1>2, <1>3 DEF TakeAnswer

LEMMA C64Tidy ==
    ASSUME TidyInv, C64Step, PoisonInv'
    PROVE  TidyInv'
<1>0. /\ Placed /\ MachineType /\ NoRig \notin Rigs
      /\ c64.prog = NoRig => c64.ph = "basic"
    BY RigAssumption DEF TidyInv, PoisonInv, MachineInv, SectionInv
<1>1. /\ job' = job /\ pc' = pc /\ rig' = rig /\ c64'.prog = c64.prog /\ c64.ph # "basic"
    BY <1>0, C64Runs
<1>2. \A r \in Rigs : Clean(r)' <=> Clean(r)
    BY <1>1 DEF Clean, InBody
\* Nothing happens at rest, and only the close records.
<1>3. ASSUME AtRest PROVE AtRest' /\ c64.ph # "close"
    BY <1>0, <1>3, C64Shape
       DEF AtRest, Booting, Keying, Quitting, Failing, Dialling, Shaking, Reading, Leaving, Closing, Rest
<1>4. dev'.files /\ ~dev.files => c64.ph = "close" /\ Kind \in Trusting
    BY <1>0, C64Files
<1>5. ASSUME NEW r \in Rigs, Filing(job[r]) PROVE Files(r)'
  <2>1. Files(r)
    BY <1>5 DEF TidyInv
  <2>2. ASSUME pc[r].part = "fin", Clean(r), Cleaned(job[r], At(r)) PROVE ~dev'.files
    <3>1. ~dev.files /\ c64.prog \in {r, NoRig}
      BY <2>1, <2>2 DEF Files
    <3>2. SUFFICES ASSUME dev'.files PROVE FALSE
      OBVIOUS
    <3>3. c64.ph = "close" /\ Kind \in Trusting
      BY <1>4, <3>1, <3>2
    <3>4. c64.prog = r /\ job[r] \in Trusting
      BY <1>0, <3>1, <3>3 DEF Kind
    <3>5. Leaves(r)
      BY <3>4 DEF TidyInv
    <3>6. AtRest
      BY <2>2, <3>4, <3>5 DEF Leaves
    <3> QED BY <1>3, <3>3, <3>6
  <2> QED BY <1>1, <1>2, <2>1, <2>2 DEF Files, InBody, At
<1>6. ASSUME NEW r \in Rigs, job[r] \in Trusting PROVE Leaves(r)'
  <2>1. Leaves(r)
    BY <1>6 DEF TidyInv
  <2> QED BY <1>1, <1>2, <1>3, <2>1 DEF Leaves
<1>7. ASSUME NEW r \in Rigs, job[r] \in Trusting PROVE Roams(r)'
  <2>0. Roams(r)
    BY <1>7 DEF TidyInv
  <2> SUFFICES ASSUME InBody(r), c64.prog = r
               PROVE  /\ c64'.q => c64'.ph = "viewer"
                      /\ Clean(r) =>
                           /\ c64'.key => c64'.ph = "ready" /\ ~OnScreen("closed")' /\ Typed(job[r], At(r))
                           /\ Rested(job[r], At(r)) => c64'.ph = "ready" /\ ~c64'.key
                           /\ Rested(job[r], At(r)) /\ Cleared(job[r], At(r)) => ~OnScreen("closed")'
    BY <1>1, <1>2 DEF Roams, InBody, At
  <2>1. c64.q => c64.ph = "viewer"
    BY <2>0 DEF Roams
  <2>2. ~Quitting
    BY <2>1 DEF Quitting
  <2>3. c64'.q => c64'.ph = "viewer"
    <3>1. CASE c64.ph = "asking"
      BY <1>0, <2>1, <3>1, C64Asked
    <3>2. CASE c64.ph # "asking"
      BY <1>0, <2>1, <2>2, <3>2, C64Shape
         DEF Booting, Keying, Failing, Dialling, Shaking, Reading, Leaving, Closing, Rest
    <3> QED BY <3>1, <3>2
  <2>4. ASSUME Clean(r) PROVE ~c64'.key /\ ~Rested(job[r], At(r))
    <3>1. /\ c64.key => c64.ph = "ready"
          /\ Rested(job[r], At(r)) => c64.ph = "ready" /\ ~c64.key
      BY <2>0, <2>4 DEF Roams
    <3>2. CASE c64.ph = "asking"
      BY <1>0, <3>1, <3>2, C64Asked
    <3>3. CASE c64.ph # "asking"
      BY <1>0, <2>2, <3>1, <3>3, C64Shape
         DEF Booting, Keying, Failing, Dialling, Shaking, Reading, Leaving, Closing, Rest
    <3> QED BY <3>2, <3>3
  <2> QED BY <2>3, <2>4
<1>8. TidyOrTold'
  <2>1. CASE dev'.files /\ ~dev.files
    <3>1. c64.ph = "close" /\ c64.prog \in Rigs /\ job[c64.prog] \in Trusting
      <4>1. c64.prog \in Rigs \cup {NoRig}
        BY <1>0 DEF MachineType, C64Type
      <4> QED BY <1>0, <1>4, <2>1, <4>1 DEF Kind
    <3>2. ~Passed(c64.prog)
      <4>1. Leaves(c64.prog)
        BY <3>1 DEF TidyInv
      <4> QED BY <1>3, <3>1, <4>1 DEF Leaves, Passed, Clean
    <3>3. Filing(job[c64.prog])
      <4>1. job[c64.prog] \in Kinds
        BY <1>0, <3>1 DEF Placed
      <4> QED BY <3>1, <4>1, TidyShape
    <3> QED BY <1>1, <3>1, <3>2, <3>3 DEF TidyOrTold, Passed, Filing
  <2>2. CASE ~(dev'.files /\ ~dev.files)
    <3>1. TidyOrTold
      BY DEF TidyInv
    <3> QED BY <1>1, <2>2, <3>1 DEF TidyOrTold, Passed
  <2> QED BY <2>1, <2>2
<1> QED BY <1>1, <1>5, <1>6, <1>7, <1>8 DEF TidyInv

LEMMA StillTidy ==
    ASSUME TidyInv, PoisonInv', UNCHANGED <<job, pc, rig, dev, c64, untold>>
    PROVE  TidyInv'
<1>1. TidyOrTold'
    BY DEF TidyInv, TidyOrTold, Passed
<1>2. ASSUME NEW r \in Rigs
      PROVE  /\ Filing(job[r])' => Files(r)'
             /\ job'[r] \in Trusting => Roams(r)' /\ Leaves(r)'
  <2>1. Clean(r)' <=> Clean(r)
    BY DEF Clean, InBody
  <2>2. Files(r)' <=> Files(r)
    BY <2>1 DEF Files, InBody, At
  <2>3. OnScreen("closed")' <=> OnScreen("closed")
    BY DEF OnScreen
  <2>4. Roams(r)' <=> Roams(r)
    BY <2>1, <2>3 DEF Roams, InBody, At
  <2>5. Leaves(r)' <=> Leaves(r)
    BY <2>1 DEF Leaves, AtRest
  <2> QED BY <2>2, <2>4, <2>5 DEF TidyInv
<1> QED BY <1>1, <1>2 DEF TidyInv

LEMMA NextTidy ==
    ASSUME TidyInv, [Next]_vars
    PROVE  TidyInv'
<1>1. PoisonInv'
    BY NextPoison DEF TidyInv
<1>2. CASE \E r \in Rigs : RigStep(r)
    BY <1>1, <1>2, RigTidy
<1>3. CASE C64Step
    BY <1>1, <1>3, C64Tidy
<1>4. CASE (\E r \in Rigs : Expire(r)) \/ UNCHANGED vars
    BY <1>1, <1>4, StillTidy DEF Expire, vars
<1> QED BY <1>2, <1>3, <1>4 DEF Next

LEMMA InitTidy ==
    ASSUME Init
    PROVE  TidyInv
<1>1. PoisonInv
    BY InitPoison
<1>2. ~dev.files /\ \A r \in Rigs : pc[r].part = "pre"
    BY DEF Init
<1> QED BY <1>1, <1>2 DEF TidyInv, TidyOrTold, Files, Roams, Leaves, InBody

\* Trust files on the device's storage are never behind a pass: of the rigs that
\* write any, one is still at work or ended with an exit code other than 0.  What
\* the C64 records after its rig has looked for the end of the fetch would break
\* this, and so would a clean_up whose failure final_exit did not count.
THEOREM TidyOrNotPassed == Spec => []TidyOrTold
<1>1. ASSUME TidyInv PROVE TidyOrTold
    BY <1>1 DEF TidyInv
<1> QED BY <1>1, InitTidy, NextTidy, PTL DEF Spec
=============================================================================
