----------------------------- MODULE RigScripts -----------------------------
(* The hardware rigs of tools/uci/ as data.  A rig is a Python process that    *)
(* takes the lock of the one Ultimate device, brings the C64 up, lets it fetch *)
(* and judges the result.  Its main() is a list of steps: "pre" runs before    *)
(* the try statement (a failure there ends the process), "body" inside it (a   *)
(* failure, a return or Ctrl-C goes to the finally clause), "fin" is that      *)
(* clause, and "late" is what the wiki rig does in the try statement when its  *)
(* fetch is overdue.  A step is <<operation, code>>: the exit code when the    *)
(* step fails, Tallied when a failure is only counted and decides the exit     *)
(* code at the end, Ignored when it is only printed.  An unexpected exception  *)
(* and Ctrl-C exit with 1 whatever the step.  DeviceRig has the operations.    *)
EXTENDS Integers, Sequences

Tallied == 0
Ignored == -1

(***************************************************************************)
(* rig_https_local: TLS fetch from a listener on this host                 *)
(***************************************************************************)
\* Certificates, PRG, labels, SNI name, memory plan and routine: no device.
Certificates == << <<"offline", 2>> >>
\* Does the image present a name that the listener's certificate has?
SniPrecondition == << <<"offline", 2>> >>
LocalOffline == Certificates \o SniPrecondition
\* The 6502 code a rig writes into the C64 and starts with SYS: what it calls.
LocalRoutine == <<"net_init", "http_get", "sentinel", "park">>
\* The run directory is made between the lock and the try statement.
RunDir == << <<"rundir", 1>> >>
LocalLock == << <<"lock", 2>> >> \o RunDir
LocalBringUp == << <<"enable", 1>>, <<"health", 3>>, <<"prep", 4>>, <<"preflight", 4>>,
                   <<"reset", 1>> >>
\* Bind, listen, load, let the menu come up, quit it, write the routine, SYS.
LocalListen == << <<"listen", 1>> >>
LocalFetch == LocalListen \o << <<"load", 4>>, <<"init_wait", 1>>, <<"stage", 1>>,
                 <<"fetch", 1>>, <<"sentinel", 1>> >>
\* Diagnostics, read over DMA before the verdict; what _dump_diag and the key
\* exchange dump cannot read raises, the rest is caught.
PhaseLog == << <<"dump", Ignored>> >>
DumpDiag == << <<"dump", 1>> >>
DumpRing == << <<"dump", Ignored>> >>
DumpTlsState == << <<"dump", Ignored>> >>
DumpFull == DumpDiag \o DumpRing \o DumpTlsState
PqDump == << <<"dump", 1>> >>
LocalJudge == PhaseLog \o DumpFull \o PqDump \o << <<"judge_local", 1>> >>
\* The trace and the run's record: each write is caught.
LocalTrace == << <<"persist", Ignored>> >>
LocalFinally == LocalTrace \o << <<"guard_tls", Ignored>>, <<"disable", Ignored>>, <<"release", 1>> >>

(***************************************************************************)
(* rig_https_print_body: the same main(), whose screen dump it intercepts  *)
(***************************************************************************)
PrintBodyRoutine == <<"net_init", "http_get", "print_resp_body", "sentinel", "park">>
PrintBodyFinally == LocalFinally \o << <<"judge_screen", 1>> >>

(***************************************************************************)
(* rig_https_wiki: a long article into the REU, from the menu or a routine *)
(***************************************************************************)
WikiOffline == << <<"offline", 2>> >>
\* The sentinel comes before the viewer, which http_get's C=0 leads to.
WikiRoutine == <<"net_init", "http_get", "sentinel", "viewer_enter", "park">>
WikiLock == << <<"lock", 2>> >> \o RunDir
WikiBringUp == << <<"enable", 1>>, <<"health", 3>>, <<"prep", 4>>, <<"preflight", 4>>,
                  <<"reset", 1>>, <<"load", 4>>, <<"init_wait", 1>> >>
WikiMenuFetch == << <<"fetch", 1>>, <<"body_stable", 1>> >>
WikiRoutineFetch == << <<"stage", 1>>, <<"fetch", 1>>, <<"sentinel", 1>> >>
WikiMenuLate == << <<"guard_tls_q", Ignored>>, <<"orphan", Ignored>> >>
WikiRoutineLate == << <<"guard_tls", Ignored>>, <<"orphan", Ignored>> >>
\* The same article fetched by the host, twice if need be.
WikiReference == << <<"reference", 1>> >>
WikiJudge == PhaseLog \o DumpRing \o WikiReference
             \o << <<"judge_wiki", 1>>, <<"leave_viewer", 1>> >>
WikiMenuFinally == << <<"persist", Ignored>>, <<"guard_tls_q", Ignored>>, <<"disable", Ignored>>,
                      <<"release", 1>> >>
WikiRoutineFinally == << <<"persist", Ignored>>, <<"guard_tls", Ignored>>,
                         <<"disable", Ignored>>, <<"release", 1>> >>

(***************************************************************************)
(* rig_https_live: a public server                                         *)
(***************************************************************************)
LiveOffline == << <<"offline", 2>> >>
LiveRoutine == <<"net_init", "http_get", "sentinel", "park">>
LiveLock == << <<"lock", 2>> >> \o RunDir
LiveBringUp == << <<"enable", 1>>, <<"health", 3>>, <<"prep", 4>>, <<"preflight", 4>>,
                  <<"reset", 1>>, <<"load", 4>>, <<"init_wait", 1>>, <<"stage", 1>>,
                  <<"fetch", 1>> >>
\* An overdue sentinel does not end the poll at once: the dumps are taken first.
LivePoll == << <<"sentinel", Tallied>> >> \o PhaseLog \o DumpFull \o << <<"judge_get", 1>> >>
LiveFinally == << <<"persist", Ignored>>, <<"guard_tls", Ignored>>, <<"disable", Ignored>>,
                  <<"release", 1>> >>

(***************************************************************************)
(* rig_https_bad_finished: a listener that may corrupt its Finished        *)
(***************************************************************************)
BadFinishedOffline == SniPrecondition \o << <<"lock", 2>> >>
BadFinishedRoutine == <<"net_init", "http_get", "sentinel", "park">>
BadFinishedBody == << <<"enable", 1>>, <<"health", 3>>, <<"prep", 4>>, <<"preflight", 4>>,
                      <<"reset", 1>>, <<"listen", 2>>, <<"load", 4>>, <<"init_wait", 1>>,
                      <<"stage", 1>>, <<"fetch", 1>>, <<"sentinel", 1>>,
                      <<"judge_finished", 1>> >>
BadFinishedFinally == << <<"guard_tls", Ignored>>, <<"disable", Ignored>>, <<"release", 1>> >>

(***************************************************************************)
(* rig_https_banner: the menu, the target banner, one fetch                *)
(***************************************************************************)
BannerOffline == << <<"offline", 2>>, <<"lock", 3>> >>
BannerBringUp == << <<"enable", 1>>, <<"prep", 4>>, <<"preflight", 4>>, <<"reset", 1>>,
                    <<"load", 4>>, <<"menu", 1>>, <<"dhcp", 1>> >>
BannerFetch == << <<"fetch", 1>>, <<"banner", 1>> >>
\* The poll ends on a whole body, on an early stop or on the budget (BodyPoll).
BannerPoll == << <<"body_whole", Tallied>>, <<"press_q", 1>>, <<"closed", Ignored>> >>
BannerFinally == << <<"guard_tls_q", Ignored>>, <<"disable", Ignored>>, <<"release", 1>> >>

(***************************************************************************)
(* rig_https_refetch: several fetches in one boot                          *)
(***************************************************************************)
RefetchOffline == << <<"offline", 2>>, <<"lock", 3>> >>
RefetchBringUp == << <<"enable", 1>>, <<"prep", 4>>, <<"preflight", 4>>, <<"reset", 1>>,
                     <<"load", 4>>, <<"menu", 1>>, <<"dhcp", 1>> >>
\* One round; the status is overwritten before the fetch, and a terminal line
\* left by the fetch before must go away before this one's is waited for.
RefetchRound == << <<"poison", 2>>, <<"fetch", 1>>, <<"not_terminal", 1>>, <<"terminal", 1>>,
                   <<"judge_round", Tallied>> >>
RefetchFinally == << <<"guard_tls", Ignored>>, <<"disable", Ignored>>, <<"release", 1>> >>

(***************************************************************************)
(* rig_close_retry: one routine run twice, a forced abort and a control    *)
(***************************************************************************)
CloseRetryOffline == << <<"offline", 2>> >>
CloseRetryLock == << <<"lock", 3>> >> \o RunDir
\* With one reply left unread in the forced arm; back to BASIC.
CloseRetryRoutine == <<"net_init", "net_dns_resolve", "net_tcp_connect", "uci_push_wait",
                       "net_tcp_close", "net_poll", "net_tcp_close", "sentinel", "basic">>
CloseRetryBringUp == << <<"enable", 1>>, <<"prep", 4>>, <<"preflight", 4>>, <<"reset", 1>>,
                        <<"load", 4>>, <<"init_wait", 1>>, <<"stage", 2>> >>
\* _run_arm: the sentinel is cleared, the routine started, its results judged.
CloseRetryArm == << <<"arm", 1>>, <<"arm_done", 1>>, <<"judge_arm", Tallied>> >>
CloseRetryEnd == << <<"landed", 1>> >>
CloseRetryFinally == << <<"persist", Ignored>>, <<"guard", Ignored>>, <<"disable", Ignored>>,
                        <<"release", 1>> >>

(***************************************************************************)
(* rig_http_local, rig_http_live, phase3_tcp_echo: no TLS                  *)
(***************************************************************************)
HttpLocalOffline == << <<"offline", 2>>, <<"lock", 3>> >>
HttpLocalRoutine == <<"net_init", "http_get_plain", "sentinel", "park">>
HttpLocalBody == << <<"enable", 1>>, <<"reset", 1>>, <<"listen", 1>>, <<"load", 4>>,
                    <<"init_wait", 1>>, <<"stage", 1>>, <<"fetch", 1>>, <<"sentinel", 1>>,
                    <<"judge_body", 1>> >>
HttpLocalFinally == << <<"guard", Ignored>>, <<"disable", Ignored>>, <<"release", 1>> >>
HttpLiveOffline == << <<"offline", 2>>, <<"lock", 3>> >>
HttpLiveRoutine == <<"net_init", "http_get_plain", "sentinel", "park">>
HttpLiveBody == << <<"enable", 1>>, <<"reset", 1>>, <<"load", 4>>, <<"init_wait", 1>>,
                   <<"stage", 1>>, <<"fetch", 1>>, <<"sentinel", 1>>, <<"judge_text", 1>> >>
HttpLiveFinally == << <<"guard", Ignored>>, <<"disable", Ignored>>, <<"release", 1>> >>
EchoOffline == << <<"offline", 2>>, <<"lock", 3>> >>
EchoRoutine == <<"net_init", "net_dns_resolve", "net_tcp_connect", "net_tcp_send", "net_poll",
                 "net_tcp_close", "sentinel", "park">>
EchoBody == << <<"enable", 1>>, <<"reset", 1>>, <<"listen", 1>>, <<"load", 4>>,
               <<"init_wait", 1>>, <<"stage", 1>>, <<"fetch", 1>>, <<"sentinel", 1>>,
               <<"judge_body", 1>> >>
EchoFinally == << <<"guard", Ignored>>, <<"disable", Ignored>>, <<"release", 1>> >>

(***************************************************************************)
(* rig_https_m3 and rig_https_m3_demo: TLS in the firmware                 *)
(***************************************************************************)
M3Offline == << <<"offline", 2>>, <<"lock", 3>> >>
M3Prepare == << <<"enable", 1>>, <<"prep", 4>>, <<"preflight", 4>> >>
\* The timed mode may switch the turbo off for a stock 1 MHz run.
M3PrepareTimed == << <<"enable", 1>>, <<"prep", 4>>, <<"turbo", 1>>, <<"preflight", 4>> >>
\* run_fetch; main() has set fetch_in_flight before its reset and load.
M3RunFetch == << <<"in_flight", 1>>, <<"reset", 1>>, <<"load", 4>>, <<"menu", 1>>,
                 <<"dhcp", 1>>, <<"press_g", 1>>, <<"settled", 1>> >>
M3Refuse == << <<"judge_refused", 1>> >>
M3Compare == << <<"judge_closed", 1>>, <<"body_facts", 1>> >>
\* verdict_ab: both bodies are 200 and equal.
M3Verdict == << <<"judge_ab", 1>> >>
\* timed_attempt; run_timed waits for the close on any exception out of it.
M3TimedAttempt == << <<"in_flight", 1>>, <<"reset", 1>>, <<"load", 4>>, <<"menu", 1>>,
                     <<"dhcp", 1>>, <<"press_g", 1>>, <<"viewer", 1>>, <<"press_q", 1>>,
                     <<"closed", 1>>, <<"reset", 1>>, <<"judge_reu", 1>> >>
M3Finally == << <<"guard", Ignored>>, <<"disable_always", Ignored>>, <<"release", 1>> >>
DemoOffline == << <<"offline", 2>>, <<"lock", 3>> >>
DemoBringUp == << <<"enable", 1>>, <<"prep", 4>>, <<"preflight", 4>>, <<"drive", 1>>,
                  <<"reset", 1>>, <<"load_run", 1>>, <<"menu", 1>>, <<"dhcp", 1>> >>
DemoFirst == << <<"fetch", 1>>, <<"settled", 1>>, <<"judge_closed", 1>>, <<"judge_whole", 1>> >>
\* Mutant of DemoSecond: the whole screen is looked at.
DemoSecondUnanchored == << <<"fetch", 1>>, <<"settled", 1>>, <<"judge_closed", 1>>,
                           <<"judge_whole", 1>> >>
\* The screen still ends the fetch before: only what follows the new banner counts.
DemoSecond == << <<"fetch", 1>>, <<"banner", 1>>, <<"settled_after", 1>>, <<"judge_closed", 1>>,
                 <<"judge_whole", 1>> >>
DemoNegative == << <<"fetch", 1>>, <<"banner", 1>>, <<"settled_after", 1>>,
                   <<"judge_refused", 1>>, <<"press_q", 1>> >>
DemoFinally == << <<"guard", Ignored>>, <<"restore", Ignored>>, <<"disable_always", Ignored>>,
                  <<"release", 1>> >>

(***************************************************************************)
(* The trust rigs: files on the device's storage beside the C64            *)
(***************************************************************************)
TrustPolicyOffline == << <<"offline", 2>> >>
TrustPolicyLock == << <<"lock", 3>> >> \o RunDir
TrustPolicyBringUp == << <<"files", 2>>, <<"enable", 1>>, <<"prep", 4>>, <<"preflight", 4>>,
                         <<"reset", 1>>, <<"load", 4>>, <<"menu", 1>>, <<"dhcp", 1>>,
                         <<"in_flight", 1>> >>
\* phases_local: a first use (1), the same key again (2), and a changed key that
\* the operator refuses (3), accepts for the retry (4, 5) or lets through once,
\* unpinned (6).  A failed check is tallied.  Each of 2, 3, 4 with 5, and 6 starts
\* from a recorded key, and is a kind of its own after phase 1.
TrustListener == << <<"listen", 1>> >>
TrustPressG == << <<"clear_screen", 1>>, <<"press_g", 1>> >>
TrustPolicyFirst == TrustListener \o TrustPressG
                    \o << <<"ended", Tallied>>, <<"at_rest", Tallied>>, <<"judge_kept", Tallied>> >>
TrustPolicyMatch == TrustPressG
                    \o << <<"ended", Tallied>>, <<"at_rest", Tallied>>, <<"judge_kept", Tallied>> >>
TrustPolicyRefuse == TrustListener \o TrustPressG
                     \o << <<"key_changed", Tallied>>, <<"answer_n", 1>>, <<"at_rest", Tallied>>,
                           <<"judge_unserved", Tallied>> >>
TrustPolicyArm == TrustListener \o TrustPressG
                  \o << <<"key_changed", Ignored>>, <<"answer_a", 1>>, <<"armed", Tallied>>,
                        <<"at_rest", Tallied>> >>
TrustPolicyRetry == TrustPressG
                    \o << <<"ended", Tallied>>, <<"at_rest", Tallied>>, <<"judge_kept", Tallied>> >>
TrustPolicyOverride == TrustListener \o TrustPressG
                       \o << <<"key_changed", Ignored>>, <<"answer_y", 1>>, <<"ended", Tallied>>,
                             <<"at_rest", Tallied>>, <<"judge_override", Tallied>> >>
TrustPolicyLive == TrustPressG
                   \o << <<"ended", Tallied>>, <<"at_rest", Tallied>>, <<"judge_kept", Tallied>> >>
TrustPolicyEnd == << <<"settled_now", Ignored>> >>
TrustPolicyFinally == << <<"guard_tls_q", Ignored>>, <<"persist_raw", 1>>, <<"cleanup", 1>>,
                         <<"disable", Ignored>>, <<"release", 1>> >>
TrustStoreOffline == << <<"offline", 2>> >>
TrustStoreLock == << <<"lock", 3>> >> \o RunDir
\* The routine with which the rig calls the store from BASIC.
TrustStoreStage == << <<"stage", 1>> >>
\* Rig.sys, load, save and what is checked after each: the C64 writes the files.
TrustStoreCalls == << <<"write_files", Tallied>> >>
\* Rig.boot
TrustStoreBoot == << <<"reset", 1>>, <<"load", 1>>, <<"init_wait", 1>> >> \o TrustStoreStage
TrustStoreBringUp == << <<"files", 2>>, <<"enable", 1>>, <<"prep", 4>>, <<"preflight", 4>>,
                        <<"reset", 1>>, <<"load", 4>>, <<"init_wait", 1>> >> \o TrustStoreStage
\* Phases 1 to 12: calls, the torn write and its reset, the reload, more calls.
TrustStorePhases == TrustStoreCalls \o << <<"reset", 1>> >> \o TrustStoreBoot
                    \o TrustStoreCalls
\* Phase 13 (1 MHz): a reset inside a save, and a reload if it landed there.
TrustStoreMidsave == TrustStoreCalls \o << <<"reset", 1>> >> \o TrustStoreBoot
\* Phase 14: the directory is removed and always made again.
TrustStoreNoPath == << <<"write_files", 1>> >>
TrustStoreFinally == << <<"persist_raw", 1>>, <<"disable", Ignored>>, <<"reset", Ignored>>,
                        <<"cleanup", 1>>, <<"release", 1>> >>

(***************************************************************************)
(* Rigs that never open a socket                                           *)
(***************************************************************************)
\* The image checks are reported; a bad image is still booted.
BootCheckImage == << <<"measure", Tallied>> >>
BootCheckTod == << <<"measure", Tallied>> >>
BootCheckOffline == << <<"offline", 2>> >> \o BootCheckImage \o << <<"lock", 3>> >>
BootCheckBody == << <<"enable", 1>>, <<"reset", 1>>, <<"load", 4>>, <<"menu", Ignored>>,
                    <<"judge_menu", Tallied>> >> \o BootCheckTod
BootCheckFinally == << <<"disable", Ignored>>, <<"release", 1>> >>
Phase2Pre == << <<"offline", 2>>, <<"lock", 3>> >>
Phase2Body == << <<"enable", 1>>, <<"reset", 1>>, <<"load", 4>>, <<"init_wait", 1>>,
                 <<"judge_menu", 1>>, <<"judge_ip", 1>> >>
Phase2Finally == << <<"disable", Ignored>>, <<"release", 1>> >>
MlkemOffline == << <<"offline", 2>>, <<"lock", 2>> >>
\* boot_to_basic, once for each of the two phases.
MlkemBoot == << <<"reset", 1>>, <<"load", 1>>, <<"menu", 1>>, <<"stage", 1>> >>
MlkemImage == MlkemBoot \o << <<"measure", Tallied>> >>
MlkemKat == MlkemBoot \o << <<"measure", Tallied>> >>
MlkemBody == << <<"enable", 1>>, <<"prep", 1>>, <<"preflight", 1>> >> \o MlkemImage \o MlkemKat
MlkemFinally == << <<"disable_always", Ignored>>, <<"release", 1>> >>
BenchOffline == << <<"offline", 2>>, <<"rundir", 1>>, <<"lock", 3>> >>
BenchStub == << <<"stage", 1>> >>
BenchBringUp == << <<"enable", 1>>, <<"prep", 4>>, <<"preflight", 4>>, <<"reset", 1>>,
                   <<"load", 4>>, <<"init_wait", 1>> >> \o BenchStub
\* One vector: its buffers, the SYS, the cycle count from the debug stream.
BenchVector == << <<"measure", Tallied>> >>
\* One clock of MHZ_LIST: the turbo write, then the vectors.
BenchRuns == << <<"turbo", 1>> >> \o BenchVector
BenchReport == << <<"report", 1>> >>
BenchFinally == << <<"persist", Ignored>>, <<"disable", Ignored>>, <<"release", 1>> >>

(***************************************************************************)
(* The rigs                                                                *)
(***************************************************************************)
Sys(calls, pre, body, fin) ==
    [sys |-> calls, pre |-> pre, body |-> body, fin |-> fin, late |-> <<>>]
\* A rig that works the menu, or calls nothing that opens a socket.
Plain(pre, body, fin) == Sys(<<>>, pre, body, fin)

Script ==
  [local |-> Sys(LocalRoutine, LocalOffline \o LocalLock, LocalBringUp \o LocalFetch \o LocalJudge,
                   LocalFinally),
   print_body |-> Sys(PrintBodyRoutine, LocalOffline \o LocalLock,
                      LocalBringUp \o LocalFetch \o LocalJudge, PrintBodyFinally),
   wiki_menu |-> [sys |-> <<>>, pre |-> WikiOffline \o WikiLock,
                  body |-> WikiBringUp \o WikiMenuFetch \o WikiJudge,
                  fin |-> WikiMenuFinally, late |-> WikiMenuLate],
   wiki_routine |-> [sys |-> WikiRoutine, pre |-> WikiOffline \o WikiLock,
                     body |-> WikiBringUp \o WikiRoutineFetch \o WikiJudge,
                     fin |-> WikiRoutineFinally, late |-> WikiRoutineLate],
   live |-> Sys(LiveRoutine, LiveOffline \o LiveLock, LiveBringUp \o LivePoll, LiveFinally),
   good_finished |-> Sys(BadFinishedRoutine, BadFinishedOffline, BadFinishedBody,
                         BadFinishedFinally),
   bad_finished |-> Sys(BadFinishedRoutine, BadFinishedOffline, BadFinishedBody,
                         BadFinishedFinally),
   banner |-> Plain(BannerOffline, BannerBringUp \o BannerFetch \o BannerPoll, BannerFinally),
   refetch |-> Plain(RefetchOffline, RefetchBringUp \o RefetchRound \o RefetchRound,
                     RefetchFinally),
   close_retry |-> Sys(CloseRetryRoutine, CloseRetryOffline \o CloseRetryLock,
                         CloseRetryBringUp \o CloseRetryArm \o CloseRetryArm \o CloseRetryEnd,
                         CloseRetryFinally),
   http_local |-> Sys(HttpLocalRoutine, HttpLocalOffline, HttpLocalBody, HttpLocalFinally),
   http_live |-> Sys(HttpLiveRoutine, HttpLiveOffline, HttpLiveBody, HttpLiveFinally),
   echo |-> Sys(EchoRoutine, EchoOffline, EchoBody, EchoFinally),
   m3_refuse |-> Plain(M3Offline, M3Prepare \o M3RunFetch \o M3Refuse, M3Finally),
   m3_ab |-> Plain(M3Offline, M3Prepare \o M3RunFetch \o M3Compare \o M3RunFetch \o M3Compare
                              \o M3Verdict, M3Finally),
   m3_timed |-> Plain(M3Offline, M3PrepareTimed \o M3TimedAttempt, M3Finally),
   m3_demo |-> Plain(DemoOffline, DemoBringUp \o DemoFirst \o DemoSecond \o DemoNegative,
                     DemoFinally),
   trust_policy |-> Plain(TrustPolicyOffline \o TrustPolicyLock,
                          TrustPolicyBringUp \o TrustPolicyFirst \o TrustPolicyRefuse
                          \o TrustPolicyEnd, TrustPolicyFinally),
   trust_match |-> Plain(TrustPolicyOffline \o TrustPolicyLock,
                         TrustPolicyBringUp \o TrustPolicyFirst \o TrustPolicyMatch
                         \o TrustPolicyEnd, TrustPolicyFinally),
   trust_accept |-> Plain(TrustPolicyOffline \o TrustPolicyLock,
                          TrustPolicyBringUp \o TrustPolicyFirst \o TrustPolicyArm
                          \o TrustPolicyRetry \o TrustPolicyEnd, TrustPolicyFinally),
   trust_override |-> Plain(TrustPolicyOffline \o TrustPolicyLock,
                            TrustPolicyBringUp \o TrustPolicyFirst \o TrustPolicyOverride
                            \o TrustPolicyEnd, TrustPolicyFinally),
   trust_live |-> Plain(TrustPolicyOffline \o TrustPolicyLock,
                        TrustPolicyBringUp \o TrustPolicyLive \o TrustPolicyEnd,
                        TrustPolicyFinally),
   trust_store |-> Plain(TrustStoreOffline \o TrustStoreLock,
                         TrustStoreBringUp \o TrustStorePhases \o TrustStoreMidsave
                         \o TrustStoreNoPath, TrustStoreFinally),
   boot_check |-> Plain(BootCheckOffline, BootCheckBody, BootCheckFinally),
   phase2 |-> Plain(Phase2Pre, Phase2Body, Phase2Finally),
   mlkem |-> Plain(MlkemOffline, MlkemBody, MlkemFinally),
   bench |-> Plain(BenchOffline, BenchBringUp \o BenchRuns \o BenchReport, BenchFinally)]

Kinds == DOMAIN Script
=============================================================================
