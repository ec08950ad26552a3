----------------------------- MODULE DeviceRig ------------------------------
(* Rig processes (RigScripts) that share one Ultimate device.  The DeviceLock  *)
(* of the test harness lets one rig at a time drive it; what one rig leaves    *)
(* behind - a live firmware socket, the REU and turbo settings, files - is     *)
(* what the next one finds.  The C64 runs on its own: it takes the keys the    *)
(* rig presses, dials, fetches, closes and prints, at any speed or never.  A   *)
(* reset over a live firmware socket poisons the device's DHCP lease; the     *)
(* helpers of tools/uci exist to keep that from happening unannounced.         *)
EXTENDS RigScripts, FiniteSets, SequencesExt

CONSTANTS Rigs,      \* the rig processes
          NoRig,     \* the value of "nobody"
          Assign,    \* the assignments of kinds to rigs that are considered
          Retries    \* load_verified_and_run: loads after the first

ASSUME RigAssumption ==
    /\ NoRig \notin Rigs
    /\ Assign \subseteq [Rigs -> Kinds]
    /\ Retries \in Nat

VARIABLES job,      \* the kind of each rig
          pc,       \* where each rig is in its script
          rig,      \* each rig's local variables
          log,      \* how each of its fetches ended, as the C64 and the peer know it
          lsn,      \* its listener: "off", "on" (accepting), "rekeyed" (with
                    \* another key), "served", "expired"
          holder,   \* who holds the DeviceLock
          dev,      \* the device: command interface, REU, turbo, lease, trust files
          c64,      \* the C64
          untold    \* history: the kinds whose live socket was reset unannounced, and
                    \* what had become of the fetch

vars == <<job, pc, rig, log, lsn, holder, dev, c64, untold>>

Calls == [k \in Kinds |-> ToSet(Script[k].sys)]
Routine == {k \in Kinds : "sentinel" \in Calls[k]}             \* started with SYS
PlainTcp == {k \in Routine : "http_get" \notin Calls[k]}
NoCrypto == {"m3_refuse", "m3_ab", "m3_timed", "m3_demo"}       \* uci-m3: the REU is off
Viewers == {"wiki_menu", "banner", "m3_timed", "trust_live"}
Changing == {"trust_match", "trust_policy", "trust_accept", "trust_override"}
Trusting == Changing \cup {"trust_live"}
ManyFetches == {"refetch", "m3_demo"} \cup Changing              \* in one boot

Ops == [k \in Kinds |-> {Script[k].body[i][1] : i \in DOMAIN Script[k].body}]
ListensHere(k) == "listen" \in Ops[k]
Prepares(k) == "prep" \in Ops[k]
WantsReu(k) == k \notin NoCrypto

Waits == {"sentinel", "body_stable", "banner", "body_whole", "closed", "not_terminal",
          "terminal", "arm_done", "settled", "settled_after", "viewer", "ended", "at_rest",
          "key_changed", "armed", "menu", "dhcp", "settled_now"}
Judges == {"judge_local", "judge_body", "judge_get", "judge_text", "judge_finished",
           "judge_round", "judge_arm", "judge_refused", "judge_closed", "judge_whole",
           "judge_ab", "judge_reu", "judge_wiki", "judge_kept", "judge_unserved",
           "judge_override", "judge_menu", "judge_ip", "judge_screen"}
Checks == {"offline", "rundir", "health", "stage", "init_wait", "drive", "report", "measure",
           "body_facts", "dump", "reference"}
Guards == {"guard", "guard_tls", "guard_tls_q"}

\* The discipline of the scripts: nothing but checks and the lock before the try
\* statement, the lock once; a finally clause only tidies, and releases the lock
\* once, after which it only judges; programs are started in the body, in a rig
\* that prepares the device after the preparation, whose refusal ends the body;
\* only the two rigs that measure set the clock themselves.
Steps(k, p) == {Script[k][p][i][1] : i \in 1 .. Len(Script[k][p])}
Parts == {"pre", "body", "late", "fin"}
Tidying == Guards \cup {"persist", "persist_raw", "disable", "disable_always", "restore",
                        "cleanup", "reset", "release"}
ASSUME ScriptShape ==
    \A k \in Kinds :
        /\ \A p \in Parts : Script[k][p] \in Seq(STRING \X Int)
        /\ \A p \in {"pre", "body", "fin"} : Len(Script[k][p]) > 0
        /\ "lock" \in Steps(k, "pre") /\ Steps(k, "pre") \subseteq Checks \cup {"lock"}
        /\ \A i, j \in 1 .. Len(Script[k]["pre"]) :
              Script[k]["pre"][i][1] = "lock" /\ Script[k]["pre"][j][1] = "lock" => i = j
        /\ {"lock", "release"} \cap (Steps(k, "body") \cup Steps(k, "late")) = {}
        /\ "release" \in Steps(k, "fin") /\ Steps(k, "fin") \subseteq Tidying \cup Judges
        /\ \A i, j \in 1 .. Len(Script[k]["fin"]) :
              i < j /\ Script[k]["fin"][i][1] = "release" => Script[k]["fin"][j][1] \in Judges
        /\ {"load", "load_run", "prep", "turbo"} \cap Steps(k, "late") = {}
        /\ Prepares(k) => \A j \in 1 .. Len(Script[k]["body"]) :
              Script[k]["body"][j][1] \in {"load", "load_run"} =>
                \E i \in 1 .. j - 1 : Script[k]["body"][i][1] = "prep"
        /\ \A i \in 1 .. Len(Script[k]["body"]) :
              Script[k]["body"][i][1] = "prep" => Script[k]["body"][i][2] > 0
        /\ "turbo" \in Steps(k, "body") => k \in {"bench", "m3_timed"}

\* The discipline of the fetches.  A program is started on a C64 that was just
\* reset, with the command interface on; keys are pressed while it runs.  The
\* finally clause of a rig that fetches guards before it disables and releases.
\* A rig with one fetch per boot presses once between two starts (the close-retry
\* rig, once its routine has returned), with the fetch noted as in flight, and
\* resets only when it has seen the fetch before over; Q is for a program with
\* a menu, after the press.  Only the uci-m3 rigs believe the lines of SETTLED,
\* and m3_ab then judges CONNECTION CLOSED.
Since(s, i, S, T) ==           \* a step of S came before step i, none of T after it
    \E j \in 1 .. i - 1 : s[j][1] \in S /\ \A m \in j + 1 .. i - 1 : s[m][1] \notin T
Body(k) == Script[k]["body"]
Fin(k) == Script[k]["fin"]
Presses == {"fetch", "arm", "press_g"}
Starts == {"load", "load_run"}
Flies(k) == Steps(k, "body") \cap (Presses \cup {"in_flight"}) # {}
AfterEnable(k, i) == Since(Body(k), i, {"enable"}, {})
Running(k, i) == Since(Body(k), i, Starts, {"reset"})
JustReset(k, i) ==
    \E j \in 1 .. i - 1 : Body(k)[j][1] = "reset"
                         /\ \A m \in j + 1 .. i - 1 : Body(k)[m][1] = "listen"
Pressed(k, i) == Since(Body(k), i, Presses, Starts \cup {"arm_done"})
Pending(k, i) == Since(Body(k), i, Presses, Starts \cup {"arm_done", "settled", "closed", "reset"})
Clears == {"sentinel", "settled", "settled_after", "settled_now", "closed", "terminal", "viewer",
           "landed", "judge_reu", "leave_viewer"}
Flying(k, i) == Since(Body(k), i, {"in_flight"}, Clears)
Booted(k, i) == Since(Body(k), i, {"dhcp"}, Starts \cup {"reset"})
Waited(k, i) == Since(Body(k), i, {"ended"}, Presses)
ASSUME FetchShape ==
    \A k \in Kinds :
        /\ Steps(k, "late") \subseteq Guards \cup {"orphan"}
        /\ (Guards \cup {"orphan", "disable", "disable_always"}) \cap Steps(k, "body") = {}
        /\ \A i \in 1 .. Len(Body(k)) :
              /\ Body(k)[i][1] \in Starts => JustReset(k, i) /\ AfterEnable(k, i) /\ Body(k)[i][2] > 0
              /\ Body(k)[i][1] \in Presses => Running(k, i) /\ AfterEnable(k, i)
              /\ Body(k)[i][1] \in {"in_flight", "terminal"} => AfterEnable(k, i) /\ Flies(k)
        /\ \A i \in 1 .. Len(Fin(k)) :
              Fin(k)[i][1] \in {"disable", "disable_always", "release"} /\ Flies(k)
                => Since(Fin(k), i, Guards, {})
        /\ "reset" \in Steps(k, "fin") => ~Flies(k)
        /\ "judge_reu" \notin Steps(k, "fin")
        /\ k \in Routine => \A p \in Parts :
              Steps(k, p) \cap {"press_g", "press_q", "viewer", "ended", "guard_tls_q"} = {}
        /\ "arm_done" \in Steps(k, "body") => k \in PlainTcp \ NoCrypto /\ "park" \notin Calls[k]
        /\ k \notin ManyFetches => \A i \in 1 .. Len(Body(k)) :
              /\ Body(k)[i][1] \notin {"terminal", "settled_after"}
              /\ Body(k)[i][1] \in Presses \cup {"dhcp"} => ~Pressed(k, i)
              /\ Body(k)[i][1] \in {"reset", "landed"} => ~Pending(k, i)
              /\ Body(k)[i][1] = "press_g" => Flying(k, i)
              /\ Body(k)[i][1] = "press_q" => Pressed(k, i)
              /\ Body(k)[i][1] = "settled_now" => Booted(k, i) /\ Waited(k, i)
              /\ Body(k)[i][1] = "judge_reu" => JustReset(k, i)
              /\ Body(k)[i][1] \in {"arm_done", "settled", "dhcp"} => Body(k)[i][2] > 0
              /\ Body(k)[i][1] = "closed" => Body(k)[i][2] > 0 \/ i = Len(Body(k))
              /\ Body(k)[i][1] \in {"settled", "viewer"} => k \in NoCrypto
              /\ k = "m3_ab" /\ Body(k)[i][1] = "settled" => Body(k)[i + 1][1] = "judge_closed"
              /\ Body(k)[i][1] = "judge_closed" => Body(k)[i][2] > 0

\* The discipline of the trust rigs' files.  A rig that leaves files makes sure of
\* them before anything else can fail unseen, ends with its last program loaded
\* and cleans up before it releases.  One that lets the C64 record presses G only
\* at a menu at rest, with a screen just cleared, and looks for the end of each
\* fetch; what it does not find is tallied.
Filing(k) == {"files", "write_files"} \cap Ops[k] # {}
Stored(k, i) == Since(Body(k), i, {"files"}, {})
Cleaned(k, i) == Since(Fin(k), i, {"cleanup"}, {})
Rested(k, i) == Since(Body(k), i, {"dhcp", "ended", "at_rest"}, Presses \cup Starts \cup {"reset"})
Cleared(k, i) == Since(Body(k), i, {"clear_screen"}, Presses)
Typed(k, i) == Since(Body(k), i, Presses, {"ended", "key_changed"})
ASSUME TidyShape ==
    \A k \in Kinds :
        /\ \A i \in 1 .. Len(Script[k]["pre"]) :
              Script[k]["pre"][i][1] = "lock" => Script[k]["pre"][i][2] > 0
        /\ Filing(k) =>
              /\ Stored(k, Len(Body(k)) + 1) /\ Running(k, Len(Body(k)) + 1)
              /\ \A i \in 1 .. Len(Body(k)) : Body(k)[i][1] = "files" => Body(k)[i][2] > 0
              /\ Steps(k, "fin") \cap Judges = {}
              /\ \A i \in 1 .. Len(Fin(k)) : Fin(k)[i][1] = "release" => Cleaned(k, i)
        /\ k \in Trusting =>
              /\ Filing(k) /\ Rested(k, Len(Body(k)) + 1)
              /\ "press_q" \notin Steps(k, "body")
              /\ \A i \in 1 .. Len(Body(k)) :
                    /\ Body(k)[i][1] \in Presses => Rested(k, i) /\ Cleared(k, i)
                    /\ Body(k)[i][1] \in {"dhcp", "ended", "at_rest"} => ~Cleared(k, i)
                    /\ Body(k)[i][1] \in {"dhcp", "at_rest"} => ~Typed(k, i)
                    /\ Body(k)[i][1] = "dhcp" => Body(k)[i][2] > 0
                    /\ Body(k)[i][1] \in {"ended", "at_rest"} => Body(k)[i][2] = Tallied

-----------------------------------------------------------------------------
(* Reading the C64 from the host. *)

\* The screen lines after the last banner: wait_after, since.
AfterBanner(s) == {s[i] : i \in {n \in DOMAIN s : \A j \in n .. Len(s) : s[j] # "get"}}
OnScreen(line) == line \in ToSet(c64.scr)
Terminal(s) == s # <<>> /\ Last(s) \in {"closed", "tlsfail", "connfail"}

\* net_tcp_state is under the BASIC ROM: readable while the program runs, and
\* after a routine that parks the CPU instead of returning to BASIC.
TcpReadable == \/ c64.ph \in {"dial", "tls", "recv", "viewer", "close", "asking"}
               \/ c64.ph = "ready" /\ job[c64.prog] \notin Routine
               \/ c64.ph = "ready" /\ c64.sent /\ "park" \in Calls[job[c64.prog]]
Tcp == IF TcpReadable THEN c64.tcp ELSE "unreadable"

\* _tls_ran: either byte off its reset value.
TlsRan == TcpReadable /\ c64.ev # "no"

\* Mutant of ProbeClosed: CLOSED counts before the socket was ever seen open.
ProbeClosedAtOnce(passed) == OnScreen("closed") \/ Tcp \in {"CONNECT_FAIL", "CLOSED"}

\* probe_socket with connect_passed.
ProbeClosed(passed) ==
    \/ OnScreen("closed")
    \/ Tcp = "CONNECT_FAIL"
    \/ Tcp = "CLOSED" /\ passed
ProbeOpen == ~OnScreen("closed") /\ Tcp \in {"CONNECTED", "ERROR"}

-----------------------------------------------------------------------------
(* Moving through a script. *)

Part(r) == Script[job[r]][pc[r].part]
Op(r) == IF pc[r].part = "end" THEN "none" ELSE Part(r)[pc[r].i][1]
Code(r) == Part(r)[pc[r].i][2]
Me(r) == rig[r]
Trying(r) == pc[r].part \in {"body", "late"}

\* The local variables of main().  The finally clause looks at neither the tally
\* nor the counts; whether the exit code is 0, and the two ways of having told
\* the operator, outlive the process.
Fresh == [fif |-> FALSE, uci |-> FALSE, store |-> FALSE, rc |-> 1, bad |-> FALSE, seen |-> FALSE,
          nud |-> FALSE, tries |-> 0, nth |-> 0, keep |-> FALSE, warned |-> FALSE,
          killed |-> FALSE]
Kept(part, me) ==
    CASE part \in {"pre", "body", "late"} -> me
      [] part = "fin" -> [me EXCEPT !.bad = FALSE, !.tries = 0, !.nth = 0]
      [] part = "end" -> [Fresh EXCEPT !.rc = IF me.rc = 0 THEN 0 ELSE 1,
                                       !.warned = me.warned, !.killed = me.killed]
GoTo(r, part, me) ==
    /\ pc' = [pc EXCEPT ![r] = [part |-> part, i |-> 1]]
    /\ rig' = [rig EXCEPT ![r] = Kept(part, me)]

\* The next step; the end of the try statement is "return 0", or 1 when a
\* tallied check failed.
Advance(r, me) ==
    CASE pc[r].i < Len(Part(r)) ->
           /\ pc' = [pc EXCEPT ![r] = [part |-> @.part, i |-> @.i + 1]]
           /\ rig' = [rig EXCEPT ![r] = me]
      [] pc[r].i = Len(Part(r)) /\ pc[r].part = "pre" -> GoTo(r, "body", me)
      [] pc[r].i = Len(Part(r)) /\ pc[r].part = "body" ->
           GoTo(r, "fin", [me EXCEPT !.rc = IF me.bad THEN 1 ELSE 0])
      [] pc[r].i = Len(Part(r)) /\ pc[r].part = "late" -> GoTo(r, "fin", [me EXCEPT !.rc = 1])
      [] pc[r].i = Len(Part(r)) /\ pc[r].part = "fin" -> GoTo(r, "end", me)

\* A return or an exception: the finally clause, or before the try statement
\* the end of the process, with which the lock goes too.
Leave(r, me, code) ==
    IF Trying(r)
    THEN GoTo(r, "fin", [me EXCEPT !.rc = code]) /\ UNCHANGED holder
    ELSE /\ GoTo(r, "end", [me EXCEPT !.rc = code])
         /\ holder' = IF holder = r THEN NoRig ELSE holder

\* The step fails in the way its code provides for.
Lapse(r, me) ==
    CASE Code(r) = Tallied -> Advance(r, [me EXCEPT !.bad = TRUE]) /\ UNCHANGED holder
      [] Code(r) = Ignored -> Advance(r, me) /\ UNCHANGED holder
      [] Code(r) > 0 /\ pc[r].part = "body" /\ Op(r) \in {"sentinel", "body_stable"}
           /\ Script[job[r]].late # <<>> -> GoTo(r, "late", me) /\ UNCHANGED holder
      [] OTHER -> Leave(r, me, Code(r))

-----------------------------------------------------------------------------
(* Steps that only this process sees. *)

\* Files, labels, health probes, pauses, benchmark vectors, reports.
Check(r) ==
    /\ Op(r) \in Checks
    /\ \/ Advance(r, Me(r)) /\ UNCHANGED holder
       \/ Lapse(r, Me(r))
    /\ UNCHANGED <<job, log, lsn, dev, c64, untold>>

\* An exception nobody expected, or Ctrl-C, under the lock and before the
\* finally clause.  (Before the lock it only ends the process.)
Escape(r) ==
    /\ holder = r /\ pc[r].part \in {"pre", "body", "late"}
    /\ Op(r) \notin Guards
    /\ Leave(r, Me(r), 1)
    /\ UNCHANGED <<job, log, lsn, dev, c64, untold>>

\* acquire_device_lock: the lock is got when it is free.  The deadline is set
\* again as long as the holder lives and is fresh, until its fourth change, so
\* only a wait behind a dead or wedged holder or a long chain of them ends in a
\* timeout that names it, with the rig's own exit code; here any wait may.
Acquire(r) ==
    /\ Op(r) = "lock" /\ holder = NoRig
    /\ Advance(r, Me(r))
    /\ holder' = r
    /\ UNCHANGED <<job, log, lsn, dev, c64, untold>>
\* Mutant of AcquireTimesOut: what acquire() returned is not looked at.
AcquireRegardless(r) ==
    /\ Op(r) = "lock" /\ holder # NoRig
    /\ Advance(r, Me(r))
    /\ UNCHANGED <<job, log, lsn, holder, dev, c64, untold>>
AcquireTimesOut(r) ==
    /\ Op(r) = "lock" /\ holder # NoRig
    /\ GoTo(r, "end", [Me(r) EXCEPT !.rc = Code(r)])
    /\ UNCHANGED <<job, log, lsn, holder, dev, c64, untold>>
\* lock_timeout_s: a setting it cannot read exits 2 before any wait.
BadLockTimeout(r) ==
    /\ Op(r) = "lock"
    /\ GoTo(r, "end", [Me(r) EXCEPT !.rc = 2])
    /\ UNCHANGED <<job, log, lsn, holder, dev, c64, untold>>

Release(r) ==
    /\ Op(r) = "release"
    /\ Advance(r, Me(r))
    /\ holder' = NoRig
    /\ lsn' = [lsn EXCEPT ![r] = "off"]
    /\ log' = [log EXCEPT ![r] = IF Me(r).rc = 0 THEN @ ELSE <<>>]
    /\ UNCHANGED <<job, dev, c64, untold>>

\* start_listener: the thread reports "listening" or the rig gives up.  The trust
\* rig stops its listener and starts one with another key.
Listen(r) ==
    /\ Op(r) = "listen"
    /\ \/ lsn' = [lsn EXCEPT ![r] = IF @ = "off" THEN "on" ELSE "rekeyed"] /\ Advance(r, Me(r)) /\ UNCHANGED holder
       \/ Lapse(r, Me(r)) /\ UNCHANGED lsn
    /\ UNCHANGED <<job, log, dev, c64, untold>>

\* ACCEPT_TIMEOUT of the listener thread; the trust rig's serves until stopped.
Expire(r) ==
    /\ lsn[r] = "on" /\ job[r] \notin Changing
    /\ lsn' = [lsn EXCEPT ![r] = "expired"]
    /\ UNCHANGED <<job, pc, rig, log, holder, dev, c64, untold>>

\* run_info, dumps, result.json.  Every write is caught, except where the rig
\* writes its record bare in the finally clause.
Persist(r) ==
    /\ Op(r) \in {"persist", "persist_raw"}
    /\ Advance(r, Me(r))
    /\ UNCHANGED <<job, log, lsn, holder, dev, c64, untold>>

\* Ctrl-C in a finally clause, or an exception in a bare part of it: the rest
\* is skipped, the process ends and the operating system frees the lock.
Kill(r) ==
    /\ pc[r].part = "fin"
    /\ Op(r) \in {"persist", "persist_raw", "disable", "disable_always", "restore", "cleanup",
                  "reset"}
    /\ GoTo(r, "end", [Me(r) EXCEPT !.rc = 1, !.killed = Me(r).fif])
    /\ holder' = NoRig
    /\ lsn' = [lsn EXCEPT ![r] = "off"]
    /\ log' = [log EXCEPT ![r] = <<>>]
    /\ UNCHANGED <<job, dev, c64, untold>>

-----------------------------------------------------------------------------
(* Steps on the device. *)

EnableUci(r) ==
    /\ Op(r) = "enable"
    /\ dev' = [dev EXCEPT !.uci = TRUE]
    /\ Advance(r, [Me(r) EXCEPT !.uci = TRUE])
    /\ UNCHANGED <<job, log, lsn, holder, c64, untold>>

\* disable_uci: only when this rig enabled it and did not leave the viewer to
\* the operator; a refusal by the device is printed.
DisableUci(r) ==
    /\ Op(r) \in {"disable", "disable_always"}
    /\ \/ /\ Op(r) = "disable_always" \/ (Me(r).uci /\ ~Me(r).keep)
          /\ dev' = [dev EXCEPT !.uci = FALSE]
       \/ UNCHANGED dev
    /\ Advance(r, Me(r))
    /\ UNCHANGED <<job, log, lsn, holder, c64, untold>>

\* Mutant of PrepareDevice: the REU is left as it was found.
PrepareTurbo(r) ==
    /\ Op(r) = "prep"
    /\ dev' = [dev EXCEPT !.turbo = TRUE]
    /\ Advance(r, Me(r))
    /\ UNCHANGED <<job, log, lsn, holder, c64, untold>>

\* prepare_device: the REU first, then the turbo.  A setting that does not
\* match, or a REU that cannot be read, is written; a refused write or a turbo
\* that cannot be read twice stops the rig.  The run without it that the operator
\* may ask for (C64_SKIP_DEVICE_PREP, C64_SKIP_REU_PREFLIGHT) is left out, and so is
\* the on-chip build, which asks for no REU.
PrepareDevice(r) ==
    /\ Op(r) = "prep"
    /\ dev' = [dev EXCEPT !.reu = WantsReu(job[r]), !.turbo = TRUE]
    /\ Advance(r, Me(r))
    /\ UNCHANGED <<job, log, lsn, holder, c64, untold>>
PrepRefused(r) ==
    /\ Op(r) = "prep"
    /\ dev' \in {dev, [dev EXCEPT !.reu = WantsReu(job[r])]}
    /\ Lapse(r, Me(r))
    /\ UNCHANGED <<job, log, lsn, c64, untold>>

\* preflight_reu: a build that needs the REU does not start without it; a
\* configuration that cannot be read counts as without.
PreflightReu(r) ==
    /\ Op(r) = "preflight"
    /\ WantsReu(job[r]) => dev.reu
    /\ Advance(r, Me(r))
    /\ UNCHANGED <<job, log, lsn, holder, dev, c64, untold>>
PreflightRefuses(r) ==
    /\ Op(r) = "preflight" /\ WantsReu(job[r])
    /\ Lapse(r, Me(r))
    /\ UNCHANGED <<job, log, lsn, dev, c64, untold>>

\* set_turbo_mhz between benchmark runs: any clock of MHZ_LIST.
SetTurbo(r) ==
    /\ Op(r) = "turbo"
    /\ \E fast \in BOOLEAN : dev' = [dev EXCEPT !.turbo = fast]
    /\ Advance(r, Me(r))
    /\ UNCHANGED <<job, log, lsn, holder, c64, untold>>

\* The trust rigs' files: the store directory of the image must be on a volume
\* that may be written (select_store_dir), and prepare() refuses what is not its
\* own; the phases write TRUST.A and TRUST.B; clean_up() deletes them and the
\* directory, and a failure of it is an exit code of its own (final_exit).
TrustFiles(r) ==
    /\ Op(r) = "files"
    /\ dev' = [dev EXCEPT !.files = TRUE]
    /\ Advance(r, [Me(r) EXCEPT !.store = TRUE])
    /\ UNCHANGED <<job, log, lsn, holder, c64, untold>>
StoreUnavailable(r) ==
    /\ Op(r) = "files"
    /\ Lapse(r, Me(r))
    /\ UNCHANGED <<job, log, lsn, dev, c64, untold>>
WriteFiles(r) ==
    /\ Op(r) = "write_files"
    /\ dev' = [dev EXCEPT !.files = TRUE]
    /\ \/ Advance(r, Me(r)) /\ UNCHANGED holder
       \/ Lapse(r, Me(r))
    /\ UNCHANGED <<job, log, lsn, c64, untold>>

\* Mutant of CleanUp: a failure is printed and the exit code stays.
CleanUpPrinted(r) ==
    /\ Op(r) = "cleanup"
    /\ dev' \in {dev, [dev EXCEPT !.files = @ /\ ~Me(r).store]}
    /\ Advance(r, Me(r))
    /\ UNCHANGED <<job, log, lsn, holder, c64, untold>>

CleanUp(r) ==
    /\ Op(r) = "cleanup"
    /\ \/ /\ dev' = [dev EXCEPT !.files = @ /\ ~Me(r).store]
          /\ Advance(r, Me(r))
       \/ /\ Me(r).store
          /\ Advance(r, [Me(r) EXCEPT !.rc = 1])
          /\ UNCHANGED dev
    /\ UNCHANGED <<job, log, lsn, holder, c64, untold>>

\* restore_drive_a: the demo disk is unmounted, or a warning says it was not.
RestoreDrive(r) ==
    /\ Op(r) = "restore"
    /\ Advance(r, Me(r))
    /\ UNCHANGED <<job, log, lsn, holder, dev, c64, untold>>

Blank == [ph |-> "basic", img |-> "none", prog |-> NoRig, key |-> FALSE, q |-> FALSE,
          ans |-> "no", sock |-> FALSE, tcp |-> "CLOSED", ev |-> "no", scr |-> <<>>,
          st |-> "none", out |-> "none", sent |-> FALSE, kept |-> FALSE]

\* A live socket loses its program; nobody announced it if the rig that opened
\* it neither warned nor was killed with its guard still to come.
ResetEffect ==
    /\ c64' = Blank
    /\ dev' = [dev EXCEPT !.lease = @ /\ ~c64.sock]
    /\ untold' = IF c64.sock /\ ~rig[c64.prog].warned /\ ~rig[c64.prog].killed
                 THEN untold \cup {[kind |-> job[c64.prog], out |-> c64.out]} ELSE untold

ResetC64(r) ==
    /\ Op(r) = "reset"
    /\ ResetEffect
    /\ Advance(r, Me(r))
    /\ UNCHANGED <<job, log, lsn, holder>>

\* load_verified_and_run: load_prg, read the image back, SYS; an image that does
\* not verify is loaded again, at most Retries times.  The demo is LOADed and
\* RUN from its disk, which no one reads back.
LoadPrg(r) ==
    /\ Op(r) = "load"
    /\ c64.img = "none" \/ (c64.img = "torn" /\ Me(r).tries <= Retries)
    /\ \E img \in {"good", "torn"} : c64' = [c64 EXCEPT !.img = img]
    /\ rig' = [rig EXCEPT ![r].tries = @ + 1]
    /\ UNCHANGED <<job, pc, log, lsn, holder, dev, untold>>
VerifyAndRun(r) ==
    /\ Op(r) = "load"
    /\ \/ /\ c64.img = "good"
          /\ c64' = [c64 EXCEPT !.ph = "boot", !.prog = r]
          /\ Advance(r, [Me(r) EXCEPT !.tries = 0]) /\ UNCHANGED holder
       \/ /\ c64.img = "torn" /\ Me(r).tries > Retries
          /\ Lapse(r, Me(r)) /\ UNCHANGED c64
    /\ UNCHANGED <<job, log, lsn, dev, untold>>
LoadAndRun(r) ==
    /\ Op(r) = "load_run"
    /\ c64' = [c64 EXCEPT !.ph = "boot", !.prog = r, !.img = "good"]
    /\ Advance(r, Me(r))
    /\ UNCHANGED <<job, log, lsn, holder, dev, untold>>

\* Keys, and the bytes a rig writes into the C64's memory.
Press(r) ==
    /\ \/ /\ Op(r) \in {"fetch", "arm"}
          /\ c64' = [c64 EXCEPT !.key = TRUE, !.sent = FALSE]
          /\ Advance(r, [Me(r) EXCEPT !.fif = TRUE, !.nth = @ + 1])
       \/ /\ Op(r) = "press_g"
          /\ c64' = [c64 EXCEPT !.key = TRUE]
          /\ Advance(r, [Me(r) EXCEPT !.nth = @ + 1])
       \/ /\ Op(r) = "in_flight"
          /\ Advance(r, [Me(r) EXCEPT !.fif = TRUE]) /\ UNCHANGED c64
       \/ /\ Op(r) = "press_q"
          /\ c64' = [c64 EXCEPT !.q = TRUE]
          /\ Advance(r, Me(r))
       \/ /\ Op(r) \in {"answer_n", "answer_y", "answer_a"}
          /\ c64' = IF c64.ph = "asking"    \* keys typed earlier are flushed
                    THEN [c64 EXCEPT !.ans = CASE Op(r) = "answer_y" -> "y"
                                               [] Op(r) = "answer_a" -> "a"
                                               [] Op(r) = "answer_n" -> "n"]
                    ELSE c64
          /\ Advance(r, Me(r))
       \/ /\ Op(r) = "poison"
          /\ c64' = [c64 EXCEPT !.st = "poison"]
          /\ Advance(r, Me(r))
       \/ /\ Op(r) = "clear_screen"
          /\ c64' = [c64 EXCEPT !.scr = <<>>]
          /\ Advance(r, [Me(r) EXCEPT !.nth = 0])
    /\ UNCHANGED <<job, log, lsn, holder, dev, untold>>

-----------------------------------------------------------------------------
(* Waits: every one ends on what it looks for or on its budget. *)

\* ENDS, the lines that end a fetch, and SETTLED, those for which the m3 rigs
\* take its socket for closed without another look at the C64 (after a failed
\* handshake, two seconds later).
Ending(lines) == {"closed", "tlsfail", "connfail"} \cap lines # {}
Settled(lines) == {"closed", "tlsfail"} \cap lines # {}

Met(r) ==
    CASE Op(r) \in {"sentinel", "arm_done"} -> c64.sent
      [] Op(r) = "body_stable" -> c64.st = "200"
      [] Op(r) = "banner" -> Len(SelectSeq(c64.scr, LAMBDA l : l = "get")) >= Me(r).nth
      [] Op(r) = "body_whole" -> c64.st = "200" /\ c64.out = "full"
      [] Op(r) = "closed" -> OnScreen("closed")
      [] Op(r) = "not_terminal" -> ~Terminal(c64.scr)
      [] Op(r) = "terminal" -> Terminal(c64.scr)
      [] Op(r) = "settled" -> Ending(ToSet(c64.scr))
      [] Op(r) = "settled_after" -> Ending(AfterBanner(c64.scr))
      [] Op(r) = "viewer" -> c64.ph = "viewer"
      [] Op(r) = "ended" -> OnScreen("closed") /\ c64.ph = "ready"
      [] Op(r) \in {"at_rest", "settled_now"} -> c64.ph = "ready" /\ Tcp # "CONNECTED"
      [] Op(r) = "key_changed" -> c64.ph = "asking"
      [] Op(r) = "armed" -> c64.ans = "a" /\ c64.ph = "ready"
      [] Op(r) = "menu" -> OnScreen("menu")
      [] Op(r) = "dhcp" -> c64.ph = "ready" /\ dev.lease /\ dev.uci

\* What the wait shows about the fetch in flight.  The refetch rig reads
\* net_tcp_state when the screen ends in a terminal line.
StillInFlight(r) ==
    CASE Op(r) \in {"sentinel", "settled_now"} -> FALSE
      [] Op(r) = "settled" -> Me(r).fif /\ ~Settled(ToSet(c64.scr))
      [] Op(r) = "settled_after" -> Me(r).fif /\ ~Settled(AfterBanner(c64.scr))
      [] Op(r) = "closed" -> Me(r).fif /\ job[r] # "banner"
      [] Op(r) = "terminal" -> Tcp = "CONNECTED"
      [] OTHER -> Me(r).fif

Wait(r) ==
    /\ Op(r) \in Waits
    /\ Met(r)
    /\ Advance(r, [Me(r) EXCEPT !.fif = StillInFlight(r)])
    /\ UNCHANGED <<job, log, lsn, holder, dev, c64, untold>>

\* Mutant of Overdue: a wait without a deadline.
NeverOverdue(r) == FALSE

\* The budget is over; it is never so short that the menu loop or BASIC has not
\* even taken the key.  The timed m3 attempt also ends on any other line that
\* ends a fetch; unsettled, it presses Q and waits for the close (its own call
\* of guard_socket_teardown, taken here by the one in the finally clause).
Overdue(r) ==
    /\ Op(r) \in Waits
    /\ IF Op(r) = "viewer"
       THEN IF Settled(ToSet(c64.scr))
            THEN Leave(r, [Me(r) EXCEPT !.fif = FALSE], 1) /\ UNCHANGED c64
            ELSE /\ Leave(r, [Me(r) EXCEPT !.seen = ProbeOpen], 1)
                 /\ c64' = [c64 EXCEPT !.q = TRUE]
       ELSE ~Met(r) /\ Lapse(r, Me(r)) /\ UNCHANGED c64
    /\ ~(c64.ph = "ready" /\ c64.key)
    /\ UNCHANGED <<job, log, lsn, dev, untold>>

\* phase_live types Q once the sink is in use and the stream is not CONNECTED.
NudgeViewer(r) ==
    /\ Op(r) = "ended" /\ job[r] = "trust_live"
    /\ c64.ph = "viewer" /\ Tcp # "CONNECTED" /\ ~c64.q
    /\ c64' = [c64 EXCEPT !.q = TRUE]
    /\ UNCHANGED <<job, pc, rig, log, lsn, holder, dev, untold>>

\* Both arms of the close-retry rig have returned.
Landed(r) ==
    /\ Op(r) = "landed"
    /\ Advance(r, [Me(r) EXCEPT !.fif = FALSE])
    /\ UNCHANGED <<job, log, lsn, holder, dev, c64, untold>>

\* guard_socket_teardown: with a nudge, one look and then Q; closed when the
\* probe says so, with CLOSED counting once the socket was seen open or, given
\* the TLS bytes, once they show that tls_connect ran.  The budget, a Ctrl-C or
\* an exception ends the wait with the loud warning.
Guard(r) ==
    /\ Op(r) \in Guards
    /\ \/ /\ ~Me(r).fif
          /\ Advance(r, Me(r)) /\ UNCHANGED c64
       \/ /\ Me(r).fif /\ Op(r) = "guard_tls_q" /\ ~Me(r).nud
          /\ c64' = [c64 EXCEPT !.q = TRUE]
          /\ rig' = [rig EXCEPT ![r].nud = TRUE, ![r].seen = ProbeOpen]
          /\ UNCHANGED pc
       \/ /\ Me(r).fif /\ (Op(r) = "guard_tls_q" => Me(r).nud)
          /\ \/ /\ ProbeClosed(Me(r).seen \/ (Op(r) # "guard" /\ TlsRan))
                /\ Advance(r, [Me(r) EXCEPT !.fif = FALSE])
             \/ /\ ProbeOpen /\ ~Me(r).seen
                /\ rig' = [rig EXCEPT ![r].seen = TRUE]
                /\ UNCHANGED pc
             \/ Advance(r, [Me(r) EXCEPT !.fif = FALSE, !.warned = TRUE])
          /\ UNCHANGED c64
    /\ UNCHANGED <<job, log, lsn, holder, dev, untold>>

\* The wiki rig after an overdue fetch that was not seen to close: reset, then
\* SYS net_tcp_close with the saved socket id.
CloseOrphan(r) ==
    /\ Op(r) = "orphan"
    /\ IF Me(r).warned /\ c64.sock
       THEN ResetEffect
       ELSE UNCHANGED <<c64, dev, untold>>
    /\ Advance(r, Me(r))
    /\ UNCHANGED <<job, log, lsn, holder>>

\* The wiki rig leaves the viewer, its socket and the command interface to the
\* operator, and says so with the same warning.
LeaveViewer(r) ==
    /\ Op(r) = "leave_viewer"
    /\ Advance(r, [Me(r) EXCEPT !.fif = FALSE, !.keep = TRUE, !.warned = TRUE])
    /\ UNCHANGED <<job, log, lsn, holder, dev, c64, untold>>

-----------------------------------------------------------------------------
(* Verdicts, from what the rig can see: C64 memory, the screen, its listener. *)

\* rig_https_local needs both sides: the body in the C64 and the request that
\* the listener decrypted.
C64Result == c64.out = "full"
ServerResult(r) == lsn[r] = "served"
\* The status, and a prefix of the article: another length is only a warning.
WikiVerified == c64.st = "200"
\* The corrupted Finished must be refused, and the good one must not.
Evaluated(r) ==
    IF job[r] = "bad_finished" THEN c64.out = "refused" /\ c64.ev = "err"
    ELSE C64Result /\ c64.ev = "ok" /\ ServerResult(r)
ArmGood == C64Result
BodyOnScreen == C64Result
RefusalShown == "tlsfail" \in AfterBanner(c64.scr) /\ c64.out = "refused"
\* Status, length and bytes of the A fetch and of the B fetch.
VerdictAb(r) == Len(log[r]) = 2 /\ log[r][1] = log[r][2]
\* The body read back from the REU against the host's own.
BodyOracle(r) == log[r] = <<"full">>
\* The trust rig looks at its listener's handshakes and at the store, and at no
\* body; a save that failed shows in the store only.
Through == {"full", "cut"}
Override(r) ==
    LET n == Len(log[r])
    IN n >= 2 /\ log[r][n - 1] = "refused" /\ log[r][n] \in Through
Unsaved(r) == Op(r) = "judge_kept"
MenuShown == OnScreen("menu")
LeasePlausible == dev.lease

Good(r) ==
    CASE Op(r) = "judge_local" -> C64Result /\ ServerResult(r)
      [] Op(r) \in {"judge_body", "judge_get"} -> C64Result
      [] Op(r) = "judge_kept" -> c64.out \in Through
      [] Op(r) = "judge_screen" -> BodyOnScreen
      [] Op(r) = "judge_arm" -> ArmGood
      [] Op(r) = "judge_wiki" -> WikiVerified
      [] Op(r) = "judge_text" -> MenuShown             \* "HTTP" in screen_text
      [] Op(r) = "judge_finished" -> Evaluated(r)
      [] Op(r) = "judge_round" -> c64.ev = "ok" /\ c64.st = "200"
      [] Op(r) = "judge_refused" -> RefusalShown
      [] Op(r) = "judge_closed" -> "closed" \in AfterBanner(c64.scr)
      [] Op(r) = "judge_whole" -> c64.st = "200" /\ c64.out = "full"
      [] Op(r) = "judge_ab" -> VerdictAb(r)
      [] Op(r) = "judge_reu" -> BodyOracle(r)
      [] Op(r) = "judge_unserved" -> c64.out = "refused"
      [] Op(r) = "judge_override" -> Override(r)
      [] Op(r) = "judge_menu" -> MenuShown
      [] Op(r) = "judge_ip" -> LeasePlausible

Judge(r) ==
    /\ Op(r) \in Judges
    /\ LET me == IF Op(r) = "judge_reu" THEN [Me(r) EXCEPT !.fif = FALSE] ELSE Me(r)
       IN \/ Good(r) /\ Advance(r, me) /\ UNCHANGED holder
          \/ (~Good(r) \/ Unsaved(r)) /\ pc[r].part # "fin" /\ Lapse(r, me)
          \/ ~Good(r) /\ pc[r].part = "fin" /\ Advance(r, [me EXCEPT !.rc = 1]) /\ UNCHANGED holder
    /\ UNCHANGED <<job, log, lsn, dev, c64, untold>>

-----------------------------------------------------------------------------
(* The C64, running the image of rig c64.prog. *)

Kind == job[c64.prog]
InFirmware == Kind \in NoCrypto /\ ~(Kind = "m3_ab" /\ log[c64.prog] # <<>>)
\* What comes after the fetch: the menu, or BASIC with the routine's sentinel.
Ready(c) == [c EXCEPT !.ph = "ready", !.sent = @ \/ Kind \in Routine]
Ended(how) == log' = [log EXCEPT ![c64.prog] = Append(@, how)]
\* Of what follows the menu, the trust rigs wait for CONNECTION CLOSED alone.
Shown(line) ==
    IF Kind \in Routine \/ (Kind \in Changing /\ (line # "closed" \/ OnScreen(line)))
    THEN c64.scr
    ELSE Append(c64.scr, line)
C64Only == UNCHANGED <<job, pc, rig, holder, untold>>

Boot ==
    /\ c64.ph = "boot"
    /\ c64' = [c64 EXCEPT !.ph = "ready", !.tcp = "CLOSED", !.ev = "no", !.st = "none",
                          !.scr = Append(@, "menu")]
    /\ C64Only /\ UNCHANGED <<log, lsn, dev>>

\* do_https_get from the menu, or the rig's routine, which runs net_init first.
\* tls_reached_connected is cleared; tls_state keeps the last fetch's ERROR.
TakeKey ==
    /\ c64.ph = "ready" /\ c64.key
    /\ c64' = [c64 EXCEPT !.ph = "dial", !.key = FALSE, !.sent = FALSE,
                          !.ans = IF @ = "a" THEN "a" ELSE "no",
                          !.scr = Shown("get"), !.st = "none", !.out = "none",
                          !.tcp = IF Kind \in Routine THEN "CLOSED" ELSE @,
                          !.ev = IF @ = "err" THEN "err" ELSE "no"]
    /\ C64Only /\ UNCHANGED <<log, lsn, dev>>

\* Q in the menu: the program ends in BASIC.
TakeQuit ==
    /\ c64.ph = "ready" /\ c64.q /\ ~c64.key /\ Kind \notin Routine
    /\ c64' = [c64 EXCEPT !.ph = "basic", !.q = FALSE]
    /\ C64Only /\ UNCHANGED <<log, lsn, dev>>

Answers == ListensHere(Kind) => lsn[c64.prog] \in {"on", "rekeyed"}
DialFails ==
    /\ c64.ph = "dial"
    /\ \E t \in {"CONNECT_FAIL", c64.tcp}, how \in {"nodial", "refused"} :
         /\ how = "refused" => InFirmware
         /\ c64' = Ready([c64 EXCEPT !.tcp = t, !.out = how,
                           !.ans = IF @ = "a" THEN "no" ELSE @,
                           !.scr = Shown(IF how = "refused" THEN "tlsfail" ELSE "connfail")])
         /\ Ended(how)
    /\ C64Only /\ UNCHANGED <<lsn, dev>>
DialOk ==
    /\ c64.ph = "dial"
    /\ dev.uci /\ dev.lease /\ Answers
    /\ c64' = [c64 EXCEPT !.sock = TRUE, !.tcp = "CONNECTED",
                          !.ph = IF InFirmware \/ Kind \in PlainTcp THEN "recv" ELSE "tls",
                          !.ev = IF InFirmware THEN "ok" ELSE @]
    /\ lsn' = [lsn EXCEPT ![c64.prog] =
                 IF ListensHere(Kind) /\ Kind \notin Changing THEN "served" ELSE @]
    /\ C64Only /\ UNCHANGED <<log, dev>>

\* tls_connect.  A corrupted Finished is refused, and so is a key that is not
\* the one recorded, unless this dial is the operator's unpinned one or the
\* retry for which the key was accepted.
Recorded == lsn[c64.prog] = "rekeyed" /\ c64.kept /\ c64.ans \notin {"y", "a"}
TlsOk ==
    /\ c64.ph = "tls" /\ Kind # "bad_finished" /\ ~Recorded
    /\ c64' = [c64 EXCEPT !.ph = "recv", !.ev = "ok"]
    /\ C64Only /\ UNCHANGED <<log, lsn, dev>>
TlsFails ==
    /\ c64.ph = "tls"
    /\ \E t \in {"CONNECTED", "ERROR"} :
         c64' = [c64 EXCEPT !.ph = "close", !.ev = "err", !.out = "refused", !.tcp = t,
                            !.scr = Shown("tlsfail")]
    /\ Ended("refused")
    /\ C64Only /\ UNCHANGED <<lsn, dev>>

\* The trust rigs look at no response: a whole one and a cut one are the same.
RecvHead ==
    /\ c64.ph = "recv" /\ c64.st # "200" /\ Kind \notin Trusting
    /\ c64' = [c64 EXCEPT !.st = "200"]
    /\ C64Only /\ UNCHANGED <<log, lsn, dev>>
\* The whole response, or the end of the connection or of patience before it;
\* the peer may have closed, which ends the firmware's socket as well.
\* A viewer build shows what it has, unless the request or the sink failed.
AfterBody == IF Kind \in Viewers THEN {"viewer", "close"} ELSE {"close"}
RecvEnd ==
    /\ c64.ph = "recv"
    /\ \E how \in Through, t \in {"CONNECTED", "CLOSED", "ERROR"}, ph \in AfterBody :
         /\ how = "full" => c64.st = "200" /\ t # "ERROR" /\ (Kind \in Viewers => ph = "viewer")
         /\ c64' = [c64 EXCEPT !.out = how, !.tcp = t, !.sock = @ /\ t # "CLOSED", !.ph = ph]
         /\ Ended(how)
    /\ C64Only /\ UNCHANGED <<lsn, dev>>
LeavesViewer ==
    /\ c64.ph = "viewer" /\ c64.q
    /\ c64' = [c64 EXCEPT !.ph = "close", !.q = FALSE]
    /\ C64Only /\ UNCHANGED <<log, lsn, dev>>

\* net_tcp_close: without the command interface nothing reaches the firmware,
\* and the state is CLOSED all the same.  (A close that gives up is left out.)
\* A refusal for a changed key is put to the operator; a first use that was
\* accepted is recorded on the storage.
CloseSocket ==
    /\ c64.ph = "close"
    /\ LET records == Kind \in Trusting /\ c64.out # "refused" /\ c64.ans # "y" /\ dev.uci
           c == [c64 EXCEPT !.sock = @ /\ ~dev.uci, !.tcp = "CLOSED",
                            !.ans = IF @ = "a" THEN "no" ELSE @,
                            !.kept = @ \/ (records /\ Kind \in Changing),
                            !.scr = IF c64.out = "refused" THEN @ ELSE Shown("closed")]
       IN /\ c64' = IF c64.out = "refused" /\ Recorded THEN [c EXCEPT !.ph = "asking"]
                    ELSE Ready(c)
          /\ dev' = [dev EXCEPT !.files = @ \/ records]
    /\ C64Only /\ UNCHANGED <<log, lsn>>
TakeAnswer ==
    /\ c64.ph = "asking" /\ c64.ans # "no"
    /\ c64' = IF c64.ans = "y"
              THEN [c64 EXCEPT !.ph = "dial", !.scr = Shown("get"), !.out = "none"]
              ELSE Ready(c64)
    /\ C64Only /\ UNCHANGED <<log, lsn, dev>>

C64Step == \/ Boot \/ TakeKey \/ TakeQuit \/ DialFails \/ DialOk \/ TlsOk \/ TlsFails
           \/ RecvHead \/ RecvEnd \/ LeavesViewer \/ CloseSocket \/ TakeAnswer

-----------------------------------------------------------------------------
Init ==
    /\ job \in Assign
    /\ pc = [r \in Rigs |-> [part |-> "pre", i |-> 1]]
    /\ rig = [r \in Rigs |-> Fresh]
    /\ log = [r \in Rigs |-> <<>>]
    /\ lsn = [r \in Rigs |-> "off"]
    /\ holder = NoRig
    /\ dev \in [uci : {FALSE}, reu : BOOLEAN, turbo : {FALSE}, files : {FALSE}, lease : {TRUE}]
    /\ c64 = Blank
    /\ untold = {}

\* What a rig does when nothing interrupts it.
Work(r) ==
  /\ pc[r].part # "end"
  /\ \/ Acquire(r) \/ AcquireTimesOut(r) \/ BadLockTimeout(r) \/ Check(r)
     \/ Release(r) \/ Listen(r) \/ Persist(r) \/ EnableUci(r) \/ DisableUci(r)
     \/ PrepareDevice(r) \/ PrepRefused(r) \/ PreflightReu(r) \/ PreflightRefuses(r)
     \/ SetTurbo(r) \/ TrustFiles(r) \/ StoreUnavailable(r) \/ WriteFiles(r) \/ CleanUp(r)
     \/ RestoreDrive(r) \/ ResetC64(r) \/ LoadPrg(r) \/ VerifyAndRun(r) \/ LoadAndRun(r)
     \/ Press(r) \/ Wait(r) \/ Overdue(r) \/ NudgeViewer(r) \/ Landed(r) \/ Guard(r)
     \/ CloseOrphan(r) \/ LeaveViewer(r) \/ Judge(r)
RigStep(r) == Work(r) \/ Escape(r) \/ Kill(r)

Next == (\E r \in Rigs : RigStep(r) \/ Expire(r)) \/ C64Step

\* A rig process runs, and a C64 in its input loop takes a key; nothing more is
\* assumed of the C64, nothing of the network, and no exception or Ctrl-C has to
\* come to a rig that waits.
Fairness == (\A r \in Rigs : WF_vars(Work(r))) /\ WF_vars(TakeKey)
Spec == Init /\ [][Next]_vars /\ Fairness

-----------------------------------------------------------------------------
(* Properties *)

\* The device's settings, and the program the C64 runs, change only in a step of
\* the rig that holds the DeviceLock (lock ... finally: disable_uci, release), and
\* no listener's accept clock starts or runs out while its rig still queues for
\* that lock (#246: start_listener is called under it).
OnlyTheHolder ==
    [][ /\ <<dev.uci, dev.reu, dev.turbo, c64.img, c64.prog>>'
             # <<dev.uci, dev.reu, dev.turbo, c64.img, c64.prog>>
           => holder # NoRig /\ <<rig[holder], pc[holder]>> # <<rig'[holder], pc'[holder]>>
        /\ \A r \in Rigs : lsn'[r] # lsn[r] => holder = r ]_vars

\* #234: no rig that makes one fetch per boot lets the next one reset the C64
\* over its live firmware socket without having warned (guard_socket_teardown
\* before disable_uci and release).  The rigs that fetch more than once
\* in a boot, and a handshake that failed in the 6510-TLS build of m3_ab, are the
\* subject of NeverUntold.
NoSilentPoison ==
    \A u \in untold : u.kind \in ManyFetches \/ (u.kind = "m3_ab" /\ u.out = "refused")

\* The rule as _rig_lifecycle.py states it, for every rig: the lock is not
\* released over a live socket without a bounded wait and a loud warning.
NeverUntold == untold = {}

\* Exit 0 means the fetches really ended the way the rig is there to show, by
\* the C64's own account of them and not by what its screen and memory still
\* held from before.  (rig_http_live is left out: its check, "HTTP" in the
\* screen text, is met by the banner of the program itself.)
Expected(k) ==
    CASE k \in {"local", "print_body", "live", "good_finished", "banner", "http_local",
                "http_live", "echo", "m3_timed"} -> {<<"full">>}
      [] k \in {"bad_finished", "m3_refuse"} -> {<<"refused">>}
      [] k = "refetch" -> {"full", "cut"} \X {"full", "cut"}
      [] k = "close_retry" -> {<<"full", "full">>}
      [] k = "m3_ab" -> {<<"full", "full">>, <<"cut", "cut">>}
      [] k = "m3_demo" -> {<<"full", "full", "refused">>}
      [] k = "trust_live" -> {<<how>> : how \in Through}
      [] k = "trust_match" -> Through \X Through
      [] k = "trust_policy" -> Through \X {"refused"}
      [] k \in {"trust_accept", "trust_override"} -> Through \X {"refused"} \X Through
      [] OTHER -> {log[r] : r \in Rigs}
Passed(r) == pc[r].part = "end" /\ rig[r].rc = 0
PassMeansFetched ==
    \A r \in Rigs : Passed(r) /\ job[r] # "http_live" => log[r] \in Expected(job[r])

\* Nothing starts on an image that was not read back whole, and a program that
\* prepare_device prepared for runs with the REU and the clock it asked for,
\* whatever the rig before left (prepare_device, load_verified_and_run).
RightMachine ==
    \A r \in Rigs :
        c64.prog = r /\ c64.ph # "basic" =>
          /\ c64.img = "good"
          /\ holder = r /\ Prepares(job[r]) =>
               /\ dev.reu = WantsReu(job[r])
               /\ dev.turbo \/ job[r] \in {"bench", "m3_timed"}

\* Trust files are never left on the device's storage behind an exit code 0
\* (clean_up, final_exit).
TidyOrTold ==
    dev.files => \E r \in Rigs : {"files", "write_files"} \cap Ops[job[r]] # {} /\ ~Passed(r)

\* Every wait is bounded: each rig ends, whatever the C64 and the others do.
EveryRigEnds == \A r \in Rigs : <>(pc[r].part = "end")
=============================================================================
