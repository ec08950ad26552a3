# c64-https: TLA+ specifications

c64-https is an HTTPS client for the Commodore 64, written in 6502 assembly:
TCP through an Ultimate cartridge or an Ethernet card, TLS 1.3, HTTP/1.1, and a
trust store on a USB stick that remembers the key of every host it has spoken
to. This directory holds specifications of its parts, the TLC configurations
that check them on small instances, and proofs for the TLA+ proof system.
The repository also holds the Python that drives a real device: some two dozen
rigs in `tools/uci/` that load the program onto a C64 with an Ultimate cartridge, let
it fetch and judge the result. They share the device, and what they conclude
decides whether a build is good, so they are specified as well.
Assembly below is relative to `src/` of the repository, Python to its root.

Run a check with `tlc -config X.cfg MCModule`, a proof with `tlapm Module.tla`.
`PROJECT.json` lists the runs, the source lines behind every definition, a
fault for every property that the property catches, and the hazards the
properties were chosen for.

## 1. Inventory

| part | source | state | operations | specified in |
|---|---|---|---|---|
| trust store on the medium | `net/uci/trust_store.s`, `net/uci/uci_dos.s` | two slot files with generation and checksum; `ts_state`, `ts_slot`, `ts_gen`, `ts_key`, `ts_rec`, `ts_found`, `ts_staged`; the firmware's file handle | load, stage, save | `TrustStore`, abstract: `TrustRegister` |
| its mirror on the host | `tools/trust_store.py` | none: two slot contents in, a selection or a file out | decode, select, save | `TrustMirror` |
| certificate hook | `cert_pin.s` | `cert_pin_status`, the policy block | check the leaf, require before Finished | `CertPin` |
| TLS client | `tls13.s`, `tls_hs_seq.inc`, `tls_deframe.s`, `tls_keyschedule.s`, `tls_transcript.s`, `tls_cert.s`, `tls_handshake.s` | `tls_state`, `tls_last_state`, transcript, secrets, deframer | connect, send, recv, close | `TlsHandshake`, abstract: `TlsSession` |
| TLS record layer | `tls_record_io.s`, `tls_record.s` | ring, record being read, sequence numbers | read a record, open it, seal one | `TlsHandshake` |
| trust policy | `net/uci/trust_policy.s`, `boot.s` | mode, armed accept, bundle warning | `trust_pre`, `trust_post`, the redial | `TrustPolicy` |
| signed bundle | `net/uci/trust_bundle.s` | the file, the cached verdict | load, verify, look up | `TrustPolicy` |
| HTTP client | `http.s`, `net/uci-m3/m3_https_get.inc` | parser state, framing, body buffer, REU sink | three receive loops, one parser | `HttpParser`, `HttpReceive`, `HttpMessage` |
| UCI network adapter | `net/uci/net.s`, `net/uci/uci_cmd.s`, `net/net_recv_byte.inc` | ring, socket number, `net_tcp_state`, `net_last_error` | init, DHCP, connect, send, poll, receive, close | `UciNet`, `UciDevice` |
| uci-m3 adapter | `net/uci-m3/` | connection state of a cartridge that does TLS | as above | not yet |
| ip65 adapter | `net/ip65/net.s` | ring, callback, zero-page swap | as above | not yet |
| hybrid key exchange | `crypto/pq_hybrid.s`, `crypto/mlkem_link.s` | overlay, key share | build, decapsulate | not yet |
| deframer, byte level | `tls_deframe.s` | carry buffer, cursors, certificate stream | pump | messages only, in `TlsHandshake` |
| certificates and names | `tls_cert.s`, `der_decode.s`, `x509_name.s` | cursors | parse, match | accepted or refused whole |
| cold bank | `net/uci/cold_bank.s` | which overlay is present | load, call | its refusals, in `TrustPolicy` |
| random numbers | `crypto/hmac_drbg.s`, `entropy.s` | generator state | seed, generate | not yet |
| session scrub, viewer, boot, VIC, REU loader | `session_scrub.s`, `viewer.s`, `boot.s`, `vic.s`, `reu_exec.s` | | | parts of `boot.s` only |
| primitives | `crypto/*.s`, `hkdf.s` | | | symbolic |
| device rigs | `tools/uci/`: `rig_*.py`, `boot_check.py`, `phase2_check.py`, `phase3_tcp_echo.py`, `bench_ecdsa_u64e.py` | exit code, `fetch_in_flight`, `uci_enabled`, tally of failed checks; the listener and its accept clock | the steps of each `main()`: bring up, load, key presses, waits, judgements, the `finally` clause | `RigScripts` (the scripts), `DeviceRig` (the steps) |
| rig helpers | `_rig_lifecycle.py`, `_device_lock_helper.py`, `_device_prep.py`, `_reu_preflight.py`, `_prg_load.py`, `_trust_storage.py`, `_sni_precondition.py` | the lock; the device's command interface, REU, turbo and files | acquire, probe and guard the socket, prepare, preflight, load and verify, install and remove trust files, exit | `DeviceRig` |
| body completeness checks | `tools/http_body_checks.py`, `tools/uci/rig_https_banner.py` | the last counters read, the stall clock, the verdicts | poll, judge, stop early, wait for the close, decide | `BodyPoll` |
| listeners, pure checks, packaging, test runners | `tools/https_e2e/`, `tools/ip65_hw_checks.py`, `tools/check_m3_client.py`, `tools/run_all_tests.py` | none between calls | | not modelled |

How they interact. The menu loop (`boot.s`) calls `do_https_get`: prompt,
`trust_pre` (which loads the store and the bundle), DNS and TCP through the
network adapter, `tls_connect`, the request, `http_recv_body`, the closes, and
`trust_post` (which may save to the store, arm an accept, or ask for a redial).
Everything runs on one processor with no threads; what runs beside it is the
cartridge's firmware task (commands, replies, aborts, files, sockets), the
network, the server, and the user with the power switch and the USB stick.
State is shared by fixed addresses: one part leaves a verdict, a flag or a
count in memory and another reads it minutes later, often in the next fetch.

A rig is a process of its own on another machine. It presses keys and writes
memory over the device's network interface, and learns what the C64 does only
by reading its screen and its memory by DMA, one transfer at a time, while the
C64 runs on. Rigs are kept apart by one lock per device; a C64 whose rig has
died goes on dialling, and what it holds is what the next rig resets.

What is hard to test, and so what the properties are for (`hazards` in
`PROJECT.json` gives each with its line):

* a reset, a power loss or an exchanged stick between any two commands of a save;
* a reply that comes after the call that wanted it has given up, and the abort
  that is queued behind a command still running;
* messages split, packed, repeated, damaged or out of order, and the state of
  one connection, record or response left over in the next;
* counters at their width: generations, sequence numbers, chunk sizes, ring
  indices, REU addresses;
* one of several steps failing, and which state the others then leave;
* everything that must end although nobody answers;
* a rig's verdict put together from reads of different moments, or from a line
  that an earlier fetch left on the screen;
* a rig that ends anywhere, by an exception, Ctrl-C or a time limit, with the
  lock, a live socket, a listener or files on the device in its hands.

## 2. Modules

`TrustStore` is the store at the level of file commands. A step is one command
that reaches the medium, so a reset or loss of power can fall between any two;
a scan of both slots only reads and is one step, and what each read returns is
chosen from what the command interface can give (the file, an error, or, with
`ShortReads`, a short count under an old status line). A slot file is absent, an
image (a generation and a table), or damaged, and then told apart by what the
checks look at: its length (below that of an empty store, not the one its N asks
for, right) and its head (foreign, of another version, ours, or cut off before
the version byte). A file cut off there is judged by the bytes an earlier read
left in the buffer, as the comment in `ts_read_slot` says, and may come out as
another version.
Generations are modulo `2 * Half` (2^16 in the code). `trust_store_save` is
`SaveRefused`/`SaveScan` and then `PutOpen`, `PutWrite`, `PutClose`,
`PutVerify`, as `ts_put` is. `Reset` keeps the firmware's handle, `PowerLoss`
does not; `ForeignSave` is another machine with the same stick; `SwapMedium` is
another stick.

`TrustRegister` is what the store promises: a table with atomic puts.
`TrustStore` implements it (`ImplementsRegister`) with the table read from the
newest whole slot.

`TrustMirror` is `tools/trust_store.py`, the host's reading of the same slots, from
which the tests of the 6502 store take what they expect. Its arithmetic and its
order of checks are its own: `decode` tests a size floor before the version,
`ts_read_slot` the version before the size. `MirrorAgrees` therefore says that
the mirror selects what the 6502 selects, and finds a store the 6502 refuses only
beside a file too short to be one: they do not always agree, as the docstrings
say they do (section 4).

`CertPin` holds the hook's pure part: the verdict for a policy and a key.

`TlsHandshake` is the client of the UCI build. Cryptography is symbolic: a
transcript hash is the sequence of messages hashed, a key is the connection and
epoch it was derived for, a record opens under the key and number it was sealed
with. `tls_connect` is a program counter (`pc`) with one action for each call it
makes; the deframer's three ways of handing over a message meet in `Gate` and
`Handler`. The server and the network are the environment: with `Honest` the
server follows the protocol and packs as it likes, without it any message may
follow any; the network commits `MaxFaults` faults of the kinds in `Faults`.

`TlsSession` is what the client promises its callers: one verdict for each
connection, on its own leaf and under its own policy, before it opens.
`TlsHandshake` implements it, and `TrustPolicy` is built on it.

`TrustPolicy` composes fetches: the prompt, `trust_pre`, the bundle, the dial,
a `TlsSession`, `trust_post`, the redial, with restarts and changes of the
medium between them. The store is a table, as `TrustRegister` promises. Every
answer of the operator is a choice, and history variables keep what was asked
and answered so that the properties can speak of consent.

`HttpParser` is the parser as a function of its state and one token: a line of
text is one token, a digit of a chunk size is one, every other byte is one. It
also has the body's storage: the buffer, the REU sink, its region and its
latch. `HttpReceive` puts the three receive loops around it, one fetch after
another. `HttpMessage` builds the responses the runs send.

`UciDevice` is the cartridge's command interface as the adapter uses it, as
operators on one record: registers, the queue of commands and aborts, the
firmware task. It is modelled from the comments and the code of `uci_cmd.s`,
since the firmware is not in the repository. `UciNet` is the adapter. Each call
is a transaction (wait, write, push, wait for the reply, read, accept) with one
step for each access that the firmware can interleave with; the command's bytes
are written in two steps, so that a reset by the firmware can fall between them.
The reads of a valid reply, both drains and the accept are one step, because the
firmware writes nothing while a reply is valid and no abort is pending; the
drain that runs out its time is a choice (`w`).

`RigScripts` has the `main()` of every rig as data: the steps before the `try`
statement, those in it, those of its `finally` clause, and the wiki rig's extra
steps for an overdue fetch. A step is an operation with the exit code of its
failure, or `Tallied` (counted, decides the exit code at the end) or `Ignored`
(printed only). Each also names the calls of the 6502 routine the rig writes
into the C64, where it does not use the menu. Each later phase of
`rig_trust_policy` is a rig of its own that begins with the first use.

`DeviceRig` has one action for each kind of step: the lock, settings, the load
with its verification and retry, the listener, keys, the waits with their
evidence on the screen or in memory, the judgements, the guard before the lock
is released, the removal of trust files. `Escape` is an exception or Ctrl-C
under the lock, which leads to the `finally` clause; `Kill` is one in that clause,
which skips the rest of it. `holder` is the DeviceLock; `dev` is
what outlives a rig on the device; `c64` is the machine, which runs at any speed
or never, taking keys, dialling, receiving, closing and printing lines. The
screen is the sequence of the lines that a rig looks for. `log` is how each
fetch really ended, which no rig reads and the properties compare with its exit
code. `net_tcp_state` is readable only while the ROM does not cover it. `Ending`
and `Settled` are the two lists of lines of `rig_https_m3.py`: what ends its wait,
and what makes it note the fetch as over without a look at the C64, wherever the
C64 is by then.

`BodyPoll` is the poll loop of `rig_https_banner` with the functions of
`http_body_checks` inside it, at a finer grain: every DMA read is a step, and
between any two the C64 may receive a byte, count one (the carry of the 24-bit
counter is a step of its own, so a read can fall into it), sink it, close, and
go back to the menu or to BASIC. `moved` is when the counter last really
changed. With `Prompt` the C64 parses everything it has received before the
rig's next poll.

The `MC*` modules give the constants their values.

`TrustStoreProofs`, `TrustMirrorProofs`, `TlsHandshakeProofs`,
`TrustPolicyProofs`, `HttpReceiveProofs`, `UciNetProofs`, `DeviceRigProofs` and
`BodyPollProofs` hold the theorems.

## 3. Runs

Nine runs pass, three show where the code and a comment disagree.

| run | what it shows | bounds |
|---|---|---|
| `trust_store_crash` | `ImplementsRegister`, `Loadable`, `LoadIsCurrent`, `NoBlindOverwrite`: saves interrupted at every command, with another machine saving in between, on one medium | 2 hosts, 2 pins, generations mod 4, 2 foreign saves between loads |
| `trust_store_swap` | `ImplementsRegister` with other sticks: one with a save of its own, one of another version, one whose first save tore; a full table. `MirrorAgrees`: in every state, also beside any other file and for a slot that cannot be read, the host selects what the 6502 selects, finds one store more only beside a stump of another version, and would write the file the 6502 is about to write | table of 1 record |
| `tls_unruly` | `NothingBeforeAuthentication`, `ConnectReturns`: a server with the keys that sends anything | 1 connection, 3 policies, 1 stray record |
| `tls_faults` | `NonceOnce`, `Agreement`, `AppDataIntact`, `ErrorKept`, `HonestServed`, `ImplementsSession` against each of the eight faults of the network, with the server's messages split and packed | 2 connections, 1 fault, 2 sends, 3 records in flight |
| `policy_fetches` | `NoSilentKey`, `RecordedOnPurpose`, `FetchEnds` | 3 fetches, 3 hosts (one with a build pin), 3 keys (one of another curve), 4 bundles and none, an empty store and one with records |
| `http_shapes` | `StoredIsBody`, `WholeIsComplete`, `NothingOfTheLast`, `LowBanksIntact`, `FetchEnds` | 7 responses through 3 loops, 2 bodies through the REU sink (REU of 0, 4 and 8 banks, bases 2 and 10), 2 fetches, pieces of any size up to 10 |
| `uci_net` | `StreamIntact`, `ReplyIsMine`, `SentOnce`, `CloseCloses`, `LeftClean`, `CallsReturn` | 2 connections, 3 bytes in, 2 out, ring of 3, 1 reset |
| `rig_fleet` | `NoSilentPoison`, `PassMeansFetched`, `RightMachine`, `TidyOrTold`, `OnlyTheHolder`, `EveryRigEnds` | each of the 27 kinds of rig with `phase2`, in either order, 1 retry of a load |
| `body_poll` | `TypeOK`, `PassIsWhole`, `NoCryWolf`, `ClearedIsClosed`, `NothingMoreArrives`, `PollEnds` | bodies of 0 and 3 bytes in three framings, counter bytes of 2 values, a sink of 2, budget 4, stall limit 3, grace 2, 1 look for the close |
| `trust_store_short_read` | violation: a short read is taken for a torn save | |
| `rig_untold` | violation: a guard that believes an earlier fetch's line | `m3_demo` (`Stale`) and `m3_ab` (`Hasty`), each with `phase2` |
| `body_early_stop` | violation: an early stop before a verdict that was not fixed | as `body_poll`, with `Prompt` |

Why the bounds are enough. Generations modulo 4 wrap, tie (distance 2) and
collide within two saves, as 2^16 does after many. Two connections are what
"left over from the last one" takes, and three fetches are what an accept takes
(refused, accepted, and one fetch too late). Widths shrink together: counters of
16 values instead of 2^24, chunk sizes in base 4 instead of 16, a buffer of two
bytes and banks of two, so that a body crosses the buffer, a bank, the top of
the REU and the width within a few bytes. The UCI ring holds two bytes, a read
asks for at most two and a connection carries three, so the ring wraps, fills
and clamps the request; sends are cut into chunks of one. The polls before a
timeout are two instead of 65536, since what matters is what arrives
before, between and after them. Two rigs are what "left behind for the next
one" takes, and `phase2` is the one that resets and reloads the C64 without
asking anything first, so whatever the other left is at its mercy. In
`body_poll` a body of three bytes carries in a counter of base 2 and overflows
a sink of two; the grace is shorter than the stall limit and both fit in the
budget, so a body can stop, stall within grace, stall beyond it, and grow again.

Fairness. `tls_unruly`, `http_shapes` and `policy_fetches` assume that the
processor goes on with the call it is in (the polling loops count every empty
poll, and the operator answers a question put to them); nothing is assumed of
the server or the network. `uci_net` assumes that the processor runs and the
CIA's clock, which `net_init` starts, ticks: weak fairness on the adapter's
steps and none on the firmware, which may be stuck for ever. `rig_fleet` assumes
that each rig's process goes on (weak fairness on its steps, not on exceptions,
Ctrl-C or kills, which therefore never are what has to end a rig) and that a C64
in its input loop takes a key; `body_poll` that the rig's loop goes on. Nothing
is assumed of the C64, the network or the peer: every wait of a rig has a time
limit. `tls_*`, `trust_store_*`, `rig_*` and `body_*` runs do not check deadlock,
since there the bounded environment, or the rigs, really may stop.

Two limits of the liveness results: `ConnectReturns` is about a network that
sends finitely many records, since empty records and `change_cipher_spec` do not
count against the code's budget; and the server that packs several messages
into a record while sending them in any order is covered by the proof and by
`tls_faults`, not by `tls_unruly`, whose records hold one message.

## 4. Where code and comments disagree

* `trust_store_short_read`. `trust_store.s` says a slot that could not be read
  must fail the load, as it may be the newer one. `uci_dos.s` records that a
  failing READ_DATA leaves the old status line and only a short count; the size
  check turns that into FORMAT, which `ts_tolerable` takes for a torn save. The
  load then answers from the older slot.
* The host's mirror (no run of its own). The docstring of `decode` says its
  checks run in the 6502's order, so that a file wrong in two ways has the same
  code on both sides, and `select` is "the 6502's ts_scan". `decode` begins with a size floor, which
  `ts_read_slot` does not have: a file of 5 to 15 bytes whose header says another
  version is FORMAT on the host, which may sit beside a valid slot, and VERSION
  on the 6502, which may not. The host selects the other slot, the 6502 fails.
  `MirrorAgrees` states this one exception (`Misjudged`) and nothing wider.
* `rig_untold`. `_rig_lifecycle.py` says the lock is not released over a
  live socket without a bounded wait and a loud warning. Its probe takes
  CONNECTION CLOSED anywhere on the screen for the end of this fetch. In a rig
  that fetches twice in one boot the first fetch's line is still there: a rig
  interrupted in the second fetch releases the lock at once, and the next rig
  resets the C64 over a live socket.
* `rig_untold` again: the counterexample with `Assign <- Hasty` alone. The same
  rule, and the reason `rig_https_m3.py` gives for not guarding after TLS
  HANDSHAKE FAILED: a refused Open holds no socket. That is so for the uci-m3 build. The `ab` mode also runs a 6510-TLS build, which prints
  the line before it calls `net_tcp_close` (`boot.s` line 831), and that close may
  wait more than five seconds for the interface before it is sent (`net.s` line
  1083). Two seconds after the line the rig clears `fetch_in_flight`; it then
  skips the guard, disables the command interface, and releases.
  `NoSilentPoison` is what holds in spite of both: it leaves out the rigs that
  fetch more than once in a boot, and the refused handshake of `m3_ab`, by name.
* `body_early_stop`. `http_body_checks.py` says of an early stop that it changes
  when the loop ends and never what it returns. The body's counters are read
  before `net_tcp_state`. After a silence of the stall limit the last bytes can
  arrive and the peer close between the two reads; the rig stops with a FAIL,
  and the C64 completes the body from its ring. What does hold is
  `NothingMoreArrives`: after the stop nothing more is received.

Known limits of the C64 program, met while modelling; `HttpParser`,
`TrustPolicy`, `TrustStore` and `UciNet` compute them as the code does, and the
runs' inputs or the properties leave them out by name:

* `trust_store_save` compares state, slot and generation with those of the load
  (`trust_store.s` line 227), not the table: another stick that agrees in all
  three passes, and a record the load never saw is replaced. `NoBlindOverwrite`
  is checked on one medium;
* a TCP_CONNECT that outlasts the wait for its reply and for the abort
  (`net.s` line 734) completes afterwards, and the firmware holds a socket whose
  number the C64 never reads, although `boot.s` line 917 has every path close it;
* empty records and `change_cipher_spec` never count against the poll budget
  (`tls_record_io.s` line 345);
* the count of certificate entries is one byte, and 0 means the leaf
  (`tls_deframe.s` line 736): after 256 entries the next is taken for it;
* a bundle's verdict is cached by the digest of its records, without the
  signature: one first read with a bad signature stays refused, until the next
  boot, after a good one is put under the same records (`trust_bundle.s`
  `@cache`). Modelled; no property forbids it, as a refusal uses no key;
* a response with both framings is read as chunked, and judged by its
  Content-Length when the peer closes (`http_recv_close_verdict`): with a length
  equal to what has been decoded it is complete without its terminal chunk. The
  response with both framings in `http_shapes` has the length of the whole body;
* a Content-Length of 2^24 or more is taken modulo 2^24 (`check_content_length`),
  where a chunk size saturates;
* a Content-Length with two spaces before its digits is accepted with the value 0;
* the sink flag is set by an HTTPS fetch of an HTTPS_BODY_TO_REU build and never
  cleared, and `http_get_plain` does not look at the latch: a plain fetch after
  it, whose body the sink refuses, is returned as complete. The sink's part of
  `http_shapes` has the two loops that read the latch;
* `net_tcp_send` returns C=0 with SHORT_WRITE after a write of no bytes, and its
  callers look at the carry only. `SentOnce` excludes that case by name.

And of the rigs:

* `rig_http_live.py` line 407 looks for HTTP anywhere on the screen, which the
  program's own banner has (`boot.s` lines 1514 and 1546), so the check cannot
  fail; `PassMeansFetched` leaves that rig out;
* the wiki, local and live rigs write their trace first in the `finally` clause: a
  Ctrl-C there skips the guard, the disabling and the release (a `Kill` as far as
  the device is concerned, which the operator did by hand);
* the wiki rig's orphan close resets the C64 over a live socket, after a warning;
* `rig_https_refetch.py` clears `fetch_in_flight` on a terminal line that the
  C64 prints before `net_tcp_close` when the state is ERROR, and returns 2, the
  code for "nothing was tried", for a poison that did not stick even after a
  fetch;
* `decide_exit` calls a stop in the handshake with a parser state left from
  before a FAIL, where an unframed body would be inconclusive; a budget that
  expires in the handshake is a FAIL as well; and a pass is possible in the
  moment before the last block is refused by the sink, which the C64 then
  reports itself;
* `acquire_with_queue_budget` is called by nothing.

## 5. Proofs

`TrustStoreProofs`, from `StoreAssumption` (finitely many hosts, at least one
record, generations modulo an even number of at least 4, fewer foreign saves
between two loads than there are generations):

* `TypeCorrect`: `Spec => []TypeOK`. The invariant adds `SavePhase`: while a
  save is under way its image is in the buffer and the handle is the target's.
* `LoadAnswersCurrent`: without short reads, `Spec => LoadIsCurrent`. A scan
  that does not fail is the scan of the medium as it is (`ScanCurrent`), because
  a failed read is never tolerated.
* `AlwaysLoadable`: when the medium is not exchanged (other machines may save),
  `Spec => []Loadable`. Loadable is not inductive. `GenerationsFollow` is:
  whenever both slots are whole one was written right after the other, and what
  a save is about to write, or a reset left in the firmware's handle, follows
  the slot beside it; neighbours never tie, across the wrap as well.
* `RegisterImplemented`: without short reads, `Spec => ImplementsRegister`, step
  by step, on any media. Every command of a save maps to a stutter but the one
  that completes the target file, which is the register's atomic put.
* `NoLostUpdate`: on one medium and without short reads,
  `Spec => NoBlindOverwrite`. A save that has passed its scan found the state,
  slot and generation of its load, and since fewer than all generations can be
  used up between the two, the same generation is the same table.

`TrustMirrorProofs`, from `StoreAssumption`:

* `MirrorTrue`: without short reads, `Spec => []MirrorAgrees`. Two lemmas compare
  the orders of checks file by file (`SameResult`: the same code but for a stump
  of another version) and slot by slot (`SameChoice`). The remainder by which the host orders two generations is the 6502's difference with a borrow
  (`SerialDistance`), its increment the 6502's wrap (`SerialNext`), and a save
  that gets as far as its put has scanned the medium as it is (`ScanCurrent`).

`TlsHandshakeProofs`, from `Assumptions` (any keys, any policies, any number of
connections, faults, records in flight, sends and polls):

* `TypeCorrect`: `Spec => []TypeOK`, with the value of `tls_state` at each point
  of `tls_connect`.
* `HandshakeOrder`: `Spec => []HandshakeInv`, the inductive invariant. At each
  point of `tls_connect` it says which messages the transcript holds, in which
  order, which of them have been checked against what, whose secrets are in the
  buffers, and what has been sent. `NothingBeforeAuthentication` alone is not
  inductive: it says nothing until the first record leaves, and by then
  everything it needs must have been carried along.
* `AuthenticatedFirst`: `Spec => []NothingBeforeAuthentication`, from it.
* `NoncesOnce`: `Spec => []NonceOnce`. The invariant adds that the traffic
  epoch's numbers used so far are below the counter and that none has been used
  before the counter is reset.
* `SessionImplemented`: `Spec => ImplementsSession`, step by step. It needs
  `Unjudged`: the hook has not been asked before the Certificate, so the verdict
  a connection opens on is its own.
* `FirstFailureKept`: `Spec => ErrorKept`, with `Reached` (CONNECTED is in
  `tls_state` or `tls_last_state` only after the traffic keys were derived).
* `DataIntact`: `Spec => []AppDataIntact`. `DataInv` follows every record that is
  still under way, in the ring, in the reader or kept by the network: what it
  carries under the traffic keys is the server's data of that number, and what
  has been handed out is exactly what the server sent below the read counter.
* `BothAgree`: `Spec => []Agreement`. `AgreeInv` follows every fragment under way:
  a Finished is over the server's transcript up to where the server folded it,
  so the client, which accepts it over its own, has the same six messages.
* `HonestIsServed`: `Spec => []HonestServed`. `HonestInv` says that, while a
  connection lives and no fault was committed, there is a record of everything
  the server has sent (`Course`): what the client has taken is a beginning of it,
  the ring and the reader hold exactly the rest (`Lined`), the fragments of the
  flight lie end to end along a line of half messages (`Spans`), what the server
  holds back begins where its last record ended, and the client stands where the
  next record begins. Every message is the one the server folded at its place
  (`Made`). `HonestServed` speaks of the client's verdict alone; whether a
  handler agrees with the next message depends on everything sent and not yet
  read, which is why all of it is in the invariant.

`TrustPolicyProofs`, from `Assumptions` (any hosts, keys, bundles and number of fetches):

* `NeverSilent`: `Spec => []NoSilentKey`, and `OnlyOnPurpose`:
  `Spec => RecordedOnPurpose`. `PolicyInv` says at each point of a fetch what
  `tp_mode` says of the medium and the operator (`ModeInv`), whose an armed
  accept is (`ArmedInv`: the operator's, one fetch ago, for this host), and what
  the verdict in memory is about (`SessionInv`). The last is what makes it
  inductive: a redial starts with the first dial's verdict still in
  `cert_pin_status`.

`HttpReceiveProofs`, from `Widths`, `Setting` and `StatusLine` (any widths, bank
size, buffer, REU, base, pieces and number of fetches; responses that begin with
their status line):

* `Inductive`: `Spec => []ReceiveInv`. A probe that was confirmed vouches for no
  more banks than there are; the body's region lies between the floor and the
  end of the REU, and the cursor in it; and the parser's state says how far it
  can be in the stream.
* `TablesKept`: `Spec => []LowBanksIntact`, and `NothingStale`:
  `Spec => []NothingOfTheLast`, from it. The first rests on the room being
  computed before the first byte and never exceeded, the second on a status
  being read only from the first line.

`UciNetProofs`, from `Sizes` (any ring, chunk, polls, connections and resets), in
four layers, each on the one below:

* `BaseInv`: where a call is in its transaction, the registers and the firmware's
  queue are. It gives `OwnReply` (`Spec => []ReplyIsMine`) and
  `InterfaceLeftClean` (`Spec => []LeftClean`): a reply that is valid while the
  call owns the interface answers that call's command, because an abort that was
  queued clears what ran before it.
* `SocketInv` and `CloseInv`: which commands can still open a socket and which
  connection each belongs to. They give `ClosedMeansClosed`
  (`Spec => []CloseCloses`): after C=0 no command is left that could open it again.
* `SendInv`: pointer plus remainder is what was asked, and the wire is as long as
  the pointer plus what the reply under way counts. `EachByteOnce`:
  `Spec => []SentOnce`.
* `StreamInv`: the ring between tail and head, followed by a reply under way, is
  a run of the connection's bytes, and a poll never asks for more than the room.
  `InOrder`: `Spec => []StreamIntact`.

`DeviceRigProofs`, from `RigAssumption` (any number of rigs of any kinds, any
number of retries), `ScriptShape`, `FetchShape` and `TidyShape`. The scripts are data, and
what the proofs need of them is stated as those assumptions, which TLC evaluates
on them. `ScriptShape`: only checks before the lock, one lock, one release, only
judgements after it, a preparation before every load. `FetchShape`: a program is
started on a C64 just reset, with the command interface on; the finally clause of
a rig that fetches guards before it disables and releases; a rig with one fetch
per boot presses once between two starts, and resets only after a step that has
seen the fetch over. `TidyShape`: a rig with files on the device stores them in
its body, ends the body with its program loaded, removes them before it releases
and judges nothing in its finally clause; one that lets the C64 record presses G
only at a menu at rest with a screen just cleared, and looks for the end of each
fetch before it goes on, tallying an end it does not find.

* `OneAtATime`: `Spec => []Section`, a rig is between the lock and the release in
  its script exactly while it is the holder. The invariant `SectionInv` adds the
  types, every rig's place within its script, and that a listener lives only
  behind the lock.
* `HolderOnly`: `Spec => OnlyTheHolder`, an action property, from it.
* `MachineAsAsked`: `Spec => []RightMachine`. `MachineInv` adds that an image that
  is not good is not running, that the program of the C64 belongs to a rig that
  got the lock, and that between a rig's preparation and its release the
  settings are the ones it asked for, loaded program or not.
* `PoisonTold`: `Spec => []NoSilentPoison`. The reset that poisons is another
  rig's, long after the one that left the socket has ended, so `PoisonInv` says
  of every rig how far its program may be at each place of the script
  (`General` for every rig, `Solo` for the ones with one fetch per boot): before
  the press nothing is open and nothing on the screen or in `net_tcp_state` says
  otherwise (`Before`); from the press on, a program that has a socket or will
  open one belongs to a rig that has noted the fetch as in flight, has warned or
  was killed (`Announced`); and while the rig still watches, whatever would make
  it take the fetch for over is there only when the socket is closed (`Course`).
  `ShowsOver` is the heart: each of the signs the code accepts (the sentinel,
  the screen's line, CONNECT_FAIL, CLOSED after the socket was seen or TLS ran)
  implies no live socket. It needs that the screen is cleared and
  `net_tcp_state` reset by each boot, which is why the rigs that fetch again
  without one are excepted (`rig_untold`). The line of a failed handshake
  implies it only where the firmware does the TLS, so the invariant carries the
  other exception along (`Excused`: what `m3_ab` was refused on the 6510 may still
  hold its socket, and no other fetch may; `rig_untold`).
* `TidyOrNotPassed`: `Spec => []TidyOrTold`. The C64 writes trust files by itself
  at the end of a fetch, so removing them is not enough: the rig must leave a C64
  that will record nothing more. `TidyInv` adds to `PoisonInv`, of each rig
  without a failure so far: it knows that it has files, and once they are removed
  there are none while it holds the lock (`Files`); in its body a key is pending
  only between its press and the look for what came of it (`Roams`); and from
  its finally clause on its program, as long as it is loaded, is at rest
  (`Leaves`). `RigBooks` is the lemma they rest on: a rig is without a failure
  after a step only if it was before and the step found what it looked for.

`BodyPollProofs`, from `StallConfig` (any set of body lengths, any byte width,
sink and budgets; the grace shorter than the stall limit, as `stall_config_error`
insists):

* `Inductive`: `Spec => []IndInv`. A rig's memory ages: each value it compares
  was true of a C64 that has moved on since. So `IndInv` has, beside the types,
  what the C64's own steps keep (`Machine`) and what an old value still says of
  the present one (`Memory`): a parser state of 2 or a terminal chunk stays seen,
  a counter once read never exceeds the present one (a torn read is too small,
  never too large), a socket seen gone stays gone, and as long as the remembered
  counter equals the real one the rig's stall clock is not ahead of the
  truth.
* `TypeCorrect`, `PassedWhole`, `NeverCryWolf`, `ClearedClosed`, from it:
  `Spec => []TypeOK`, `[]PassIsWhole`, `[]NoCryWolf`, `[]ClearedIsClosed`. The
  stall clock's relation to `moved` is what `NeverCryWolf` needs: the verdict is
  reached a poll, or several, after the read that it rests on.
* `QuietAfterStop`: `Spec => NothingMoreArrives`, an action property.

Only model-checked:

* `StoredIsBody` and `WholeIsComplete`: what the parser makes of a whole stream
  is a matter of induction over the stream, which this prover does not do;
* `PassMeansFetched` of `DeviceRig`: it follows what each of many kinds of run has
  seen from its first step to its last, which takes an invariant per kind;
* all liveness (`ConnectReturns`, `FetchEnds`, `CallsReturn`, `EveryRigEnds`,
  `PollEnds`), which needs fairness and ENABLED;
* what a short read does to the store (`trust_store_short_read` shows that
  `LoadIsCurrent` fails there).

## 6. What the models leave out

* Text: names, headers, messages on the screen, the status line the firmware
  returns. A header line is one token, a host a model value.
* Cryptography and parsing of certificates: symbolic, accepted or refused whole.
* Bytes within a handshake message, and so the deframer's buffers; record size
  limits; the byte-by-byte reading of a header.
* The ip65 build's receive loop, the uci-m3 adapter and the hybrid exchange.
* In `UciDevice`: what the peer sends is chosen when the firmware reads it, a
  socket number is the lowest free one, the abort the cartridge raises by itself
  when the C64 is reset, and an absent interface. `net_dns_resolve` of this
  adapter only copies the name, which the firmware resolves in TCP_CONNECT.
* Building the request, which writes a fixed text.
* A C64 that has given up a close (`net_tcp_close` with C=1, in `UciNet`) and shows
  it as closed: in `DeviceRig` a close is done, or never ends, or, with the command
  interface off, reaches nothing.
* The settings with which an operator skips the preparation of the device or the
  look at its REU (C64_SKIP_DEVICE_PREP, C64_SKIP_REU_PREFLIGHT), under which
  `RightMachine` is not claimed, and the on-chip builds, for which both leave the
  REU as it is.
* How long a wait for the lock is: the helper sets the deadline again while the
  holder lives, and in `DeviceRig` any such wait may end in a time-out.
* On the host: what diagnostics contain (dumps, traces, cycle counts, memory
  policies: steps that pass or fail), the
  memory sampler of `rig_https_m3`, and the name check before a fetch beyond that
  it may stop a rig. The listeners answer one connection with a chosen fault, and
  `ip65_hw_checks`, `check_m3_client`, packaging and the test runners are
  functions of files or dumps: they keep no state another actor could disturb.

## 7. Plan

Written, in this order: the store and its register; the TLS client, its session
and the hook; the policy over both; the HTTP receive path; the UCI adapter; the
rigs that share the device; the poll loop that judges a body.

Next, the most valuable first:

1. `M3Net`: the uci-m3 adapter (`net/uci-m3/net.s`, `m3_cmd.s`) over a device
   module shared with `UciDevice`, with the same properties.
2. `Ip65Net`: the ring behind a receive callback, the zero-page swap, and the
   ip65 build's receive loop in `TlsHandshake`.
3. `Deframer`: carry buffer, chunks and the streamed Certificate at the level of
   bytes, shown to deliver the messages `TlsHandshake` takes as given; the
   one-byte count of certificate entries.
4. `HybridHello`: the X25519MLKEM768 share and the overlay that holds its code;
   `ColdBank`: which overlay is present, its check, and the calls through it.
5. `SessionScrub` and the generator's states: which secret lives how long.
6. `X509Name` and DER as operators with reference definitions; the viewer.

Abstract specifications worth stating: a byte stream with an end, implemented by
the three adapters and used by `HttpReceive` and `TlsHandshake`; a message
stream, implemented by `Deframer`.

Theorems left: for `DeviceRig` `PassMeansFetched` (kind by kind, from `Course`,
`RigBooks` and the log); for `HttpReceive` the storage part of
`StoredIsBody`: the buffer and the REU hold the bytes the parser delivered.
