# TLA+ models of L25GC+

This directory holds TLA+ specifications of the code in this repository, TLC
configurations that model-check them, and TLAPS proofs. It is written for
someone who has the repository open next to it; paths are relative to the
repository's root.

## 1. The system

L25GC+ is a 5G core whose network functions (AMF, SMF, UPF, ...) are git
submodules, empty in this tree. The programs that live here are the RAN/UE side
that drives and measures the core (`onvm_test/`), a Python user-plane shim
(`python_ue_simulator/`), and the scripts that start and stop everything.

| Component | State it keeps | Operations | Talks to |
|---|---|---|---|
| **NAS security context** `ranUe.go`, `security.go`, `packet.go` | keys, uplink and downlink NAS COUNT | derive keys, `NASEncode`, `NASDecode`, deep copy at handover | AMF, through NAS messages inside NGAP |
| **N2 procedures** `registration_test.go`, `handover_test.go`, `paging_test.go`, `decode.go` | position in straight-line code, UE contexts, one or two SCTP associations | write a message / read the next message, copy a context, assume an id | AMF (N2) |
| **Handover batch** `TestMultiN2HandoverConcurrent`, `HandoverWorker`, `LockForHandover` | counter under a mutex, WaitGroup, latency channel | inc, poll, block, dec; send a result; close | its goroutines, `FileLogger` |
| **Paging batch** `TestMultiPagingConcurrent`, `PagingWorker`, `DownlinkDataController` | signal channel, address list, latency channel | signal an idle UE, collect a batch, ping, skip foreign Pagings | its goroutines, AMF, UPF through `ping` |
| **Registration batch** `TestMultiRegistrationConcurrent`, `GenerateMobileIdentityGroup` | WaitGroup, two latency channels, generated identities | run `SingleRegistration` per identity | goroutines, `FileLogger`, AMF |
| **Latency log** `FileLogger` | a file | write until the channel is closed | the batches |
| **Subscription data** `mongodb.go` | six collections in a database that outlives the tests | insert or update, read back, delete | MongoDB; the core reads and updates the same documents |
| **Non-3GPP UE** `non3gpp_test.go` | IKE SA, half and complete child SAs, message ids, NAS counts, address and tunnel on the machine | IKE_SA_INIT, IKE_AUTH with EAP-5G, CREATE_CHILD_SA, XFRM rules, GRE tunnel | N3IWF over UDP and TCP, kernel |
| **N3IWF scripts** `start_n3iwf.sh`, `stop_n3iwf.sh`, `run_non3gpp_test.sh`, `RUN_NON3GPP_TEST.sh` | pid file, `xfrmi-default`, XFRM state | start, stop, clean up, run the test with a time-out | N3IWF, kernel |
| **NGAP builders** `ngapTestpacket/`, `packet.go` | none | build some seventy messages element by element, fit them to a procedure | the codec |
| **Packets, sockets** `rawudp.go`, `gtp.go`, `ngsetup.go`, `n3setup.go` | none | UDP/IPv4 packets with checksums, GTP-U headers; dial | UPF, AMF |
| **Identities** `decode.go`, `registration_test.go`, `ueRanEmulator/main.go` | none | SUCI from an IMSI, identities, ports and gNB ids of a batch, folded TMSI | the procedures |
| **Emulators** `ueRanEmulator/`, `xio_test/`, `udpserver/` | as the N2 procedures | registration and a session, without assertions; GTP packets; UDP echo with a goroutine per datagram | AMF, UPF |
| **GTP-U shim** `python_ue_simulator/gtpu_shim.py` | TUN device, rule, route, two sockets, sequence number | encapsulate, decapsulate, set up, clean up | kernel, UPF-U |
| **Lifecycle scripts** `scripts/run/`, `onvm_test/*.sh` | processes, pid file, configuration backups | start, verify, stop, patch, restore | everything |
| **Network functions, web console, UERANSIM, OAI** | - | external | - |

What is hard about this code:

* **Unsynchronised waiting.** The handover batch is held together by a counter
  that is polled without its lock and by sleeps; the paging batch by a
  controller that counts strings and, again, by sleeps.
* **Positional reads.** A procedure takes whatever the next `Read` returns for
  the message its comment names. A message too many, a late answer after a
  timeout, or a Paging for somebody else shifts everything behind it.
* **Two associations.** In a handover source and target are independent streams
  with identifiers of their own.
* **Counts that do not travel.** Only eight bits of a NAS COUNT are sent; the
  receiver reconstructs the rest across messages it did not decode, across
  wrap-arounds, and across deep copies that lose the count.
* **Datagrams.** The non-3GPP UE takes the next datagram for the answer, repeats
  nothing, looks at no message identifier, and mostly waits without a deadline.
* **What outlives a run.** Addresses and interfaces of the machine are removed by
  deferred functions, which a time-out of the test tool does not execute.
* **Hand-made formats.** Messages are assembled from some hundred copied blocks
  in which identifier, member and value are set separately, elements are
  overwritten by position, and packets and digits are packed octet by octet.
* **A shared database.** A test finds what earlier ones, ended or killed, have left
  in it, and what the core has made of that since.
* **Partial failure.** A failed `require` ends one goroutine, a nil dereference
  the process; nothing that others wait for is deferred.

What makes each component correct:

* handover batch: all handovers start together and none early; results are
  complete, and sent on a channel that is neither full nor closed; a lost worker stops
  the batch rather than distorting the measurement (one without a session does not);
  otherwise the test ends;
* procedures: every read gets the message it is meant for, every message names
  the right context, every response answers a request, every procedure ends;
* security context: both ends have the same count for every message, and no
  count is used twice under a key;
* non-3GPP UE: its two child SAs are neither mixed up nor lost, both ends derive the
  same key, only a registered UE passes, nothing is left on the machine;
* paging batch: batches are whole, a latency is measured only for a UE the AMF
  has brought back, foreign Pagings are never taken for answers, as far as UEs can be
  told apart by their temporary identities;
* subscription data: there while it is needed, the same for the UE and the core,
  and gone afterwards, for each way a test ends;
* messages and packets: what the other end decodes is what was meant, and the
  core sends the UE's data to the gNB that serves it;
* identities: the network reads the subscriber who was meant, and no two workers
  of a batch share an identity, an identifier or a port.

`PROJECT.json` lists the hazards at the lines where they bite, each with the
properties that cover it, or with the reason why none does yet.

## 2. Modules

| Module | Models | Composition |
|---|---|---|
| `BatchBarrier` | abstract: what the handover batch promises | - |
| `HandoverBarrier` | `TestMultiN2HandoverConcurrent`, `HandoverWorker`, `Container`, `FileLogger`, the frame of `SingleN2Handover` | refines `BatchBarrier` |
| `HandoverBarrierProofs` | TLAPS proofs about it | extends `HandoverBarrier` |
| `NasCount` | operators of the NAS COUNT, `NASEncode`, `NASDecode`, deep copies | used by `NasSecurity`, `N2Procedures` and `Non3GPP` |
| `NasSecurity` | one UE's security context against an AMF | extends `NasCount` |
| `NasSecurityProofs` | TLAPS proofs about it | extends `NasSecurity` |
| `N2Procedures` | eight procedures as scripts over two associations, with an AMF | extends `NasCount` |
| `N2ProceduresProofs` | TLAPS proofs about it | extends `N2Procedures` |
| `NgapMessages` | every builder of `ngapTestpacket/build.go`, the fittings of `packet.go`, the codec | - |
| `SessionPath` | the arguments the procedures give to the builders, and the core's view of gNBs and tunnels | extends `N2Procedures`, instantiates `NgapMessages` |
| `PacketFormats` | `rawudp.go`, `gtp.go`, checksums, the ping packet | - |
| `PacketFormatsProofs` | TLAPS proofs about it | extends `PacketFormats` |
| `Identities` | SUCI, `GenerateMobileIdentityGroup`, what workers are told apart by | - |
| `TemporaryIds` | the folded 5G-TMSI | used by `PagingBatch` and `WireFormats` |
| `UdpServer` | `udpserver/main.go` | - |
| `WireFormats` | building, sending and reading one message, packet or identity; beside it the UDP server | extends `NgapMessages`, `PacketFormats`, `Identities`, `TemporaryIds`, `UdpServer` |
| `WireFormatsProofs` | TLAPS proofs about it, `Identities` and `UdpServer` included | extends `WireFormats`, `PacketFormatsProofs` |
| `SubscriptionData` | `mongodb.go`, and which test inserts, reads and deletes what, when | - |
| `SubscriptionDataProofs` | TLAPS proofs about it | extends `SubscriptionData` |
| `PagingRounds` | abstract: what the concurrent paging test promises | - |
| `PagingBatch` | the concurrent paging test | extends `TemporaryIds`, refines `PagingRounds` |
| `PagingBatchProofs` | TLAPS proofs about it | extends `PagingBatch` |
| `Non3GPP` | `TestNon3GPPUE` against an N3IWF, several runs on one machine, with the scripts around them | extends `NasCount` |
| `Non3GPPProofs` | TLAPS proofs about it | extends `Non3GPP` |
| `MCHandoverBarrier`, `MCPagingBatch`, `MCWireFormats`, `MCSubscriptionData` | TLC instances (symmetry, sets of environments, inputs and documents) | - |

Operators marked *Variant* are defective forms of the definition that follows
them. They belong to no specification: replacing the definition by its variant
is how each property was seen to fail when the code is wrong.

### HandoverBarrier

A worker's `pc` follows the lines of `SingleN2Handover` and `HandoverWorker`:
`setup` (up to the end of the registration), `session` (the call of
`EstablishPduSession`, line 1557), `incLock/incLoad/incStore` (`Container.inc`,
with `counter++` as a load and a store), `spin` (the polling loop),
`blockLock/blockUnlock` (`Container.block`), `handover`, `cleanup`,
`decLock/decLoad/decStore` (the deferred `dec`), `send`, `wgDone`, `done`; `exited`
is a goroutine that a failed `require` has ended. The racing read of the counter
is modelled as what it may do: `SpinSeesCurrent` sees the value now, `SpinSeesStale`
any value the counter has ever had (`peak` keeps the greatest). `main` is the test
function: `Spawn` starts the workers one by one, `WaitAndClose` is `wg.Wait` and
`close`, `Return` the end of the process.

The call at line 1557 returns an error that nobody looks at (the next assignment to
`err` overwrites it), so a worker goes to the barrier with a session
(`EstablishSession`) or without one (`EstablishNothing`); only a failed `require`, which
only the registration has, stops it (`Abort`). `BatchBarrier` therefore promises that nobody
is still on the way when a handover starts, and promises no session; it keeps the
set of UEs that have one beside the stages, so that the refinement says that this set
is complete by then and decides nothing.

`env` is chosen from `Environments` at the start and never changes. `mayFail` switches
failures on; `sleepsSuffice` says that the one-second sleep before `dec` outlasts the
polling of the others and the two-second sleep at the end outlasts the logger. The
first is never needed for safety; both are needed for liveness, and both are
assumptions of the code, visible in its comments ("Let FileLogger have enough
time to write data").

### NasCount and NasSecurity

A count is a record of overflow and sequence number, with both widths as
parameters, so that wrap-arounds happen in small instances. `Estimate` is the
receiver's reconstruction (`security.go:124-128`), `TargetCopy` the copy plus the
two `Set` calls of a handover. A protected message carries its sequence number
and, as a history value that only properties read, the full count. In
`NasSecurity` the UE may read past downlink messages without decoding them
(`SkipDownlink`), as the procedures do; `SkipAssumption` bounds how many in a row,
because more than `SqnMod - 2` would make the estimate impossible (the code skips
far fewer than 254).

### N2Procedures

A procedure is a sequence of steps (`Script`): `send`, `initial`, `recv`, `copy`,
`copyBack`, `setId`. The scripts are read off the code, one step per Write, Read,
deep copy or assignment of an identifier, and a `recv` step says what the code
does with the result: nothing, decode it, require its type, give up the session,
take the target's identifier. Actions interpret the next step. `ReadUnexpected`
and `TimeOut` are the error paths. The AMF is external and answers as the reads
and comments of the procedures expect; it may be arbitrarily slow, it numbers
contexts consecutively from a first number the procedures cannot choose
(`FirstIds`; only the four procedures with numbers of their own are given a fresh
AMF), and it remembers which NGAP responses it waits for (`amf.asked`). Where the
constant `Late` allows it, the AMF may answer late or never: the reads with a
timeout (`HasTimeout`) then give up. What that means differs (`TimeOut`): the read of the
Configuration Update Command is just missed and the late command is left to the next
read, the read of the session makes `EstablishPduSession` return, and after any
other one the slice `recvMsg[:n]` with `n` = -1 panics.

### NgapMessages

A message is a record of outcome, procedure, message and its information
elements in order. An element keeps apart what the code sets in separate
statements: the identifier (`id`), the member of the value that is filled in (`as`)
and the value. `Encoder` and `Decoder` are external and transmit outcome,
procedure and identified values only, so a wrong identifier or member shows as
a message that is rejected or decoded to something else. A member that is made and never
filled in is there without a value (`Unfilled`). Session lists are sets of
items with a transfer; a transfer keeps tunnels, flows and causes.
Criticalities, timestamps, locations and the like are constants or left out.

### SessionPath

It composes the two: `N2Procedures` decides *when* a message is written, `PduOf` says
*what* it is, with the arguments of the call at that place (gNB identifiers,
session, N3 address), and `wire` carries the PDUs beside the messages. `gnb` and
`path` are the core's memory: the gNB each association has announced, the tunnel
session 10 uses, and the one a handover has prepared. `Reacts` is external: the
core takes the tunnel from the last set-up response, drops it when a context is
released, and switches to the prepared one when the UE arrives. The N3 addresses
are those the handover tests open their sockets at; those lines are commented
out at present (`handover_test.go:128`, `165`), the addresses in the messages are not.

### PacketFormats, Identities, UdpServer and WireFormats

`PacketFormats` lays packets out as sequences of octets, as the code does, with the
receiver's side (`Decapsulated`, `Verifies`) defined from the formats, not from the
code: `Deliverable` is what an IPv4 receiver asks of a packet, `HeaderOf` the header it
finds by its length field. `Identities` packs digits and generates the identities of a
batch with the width of `uint8`; `GetSUCI` is what the network reads. `TemporaryIds` folds
the four octets of a 5G-TMSI as `decode.go` does, one bit per octet, and puts the
result back into four octets as `build.go` does.
`UdpServer` is the echo server: one loop, one goroutine and one buffer per datagram,
over a network that loses and reorders. `WireFormats` takes one thing, of six kinds,
through `asked`, `made`, `sent` and `read` (or `refused`).

### SubscriptionData

`auth[u]` is the authentication document of a UE with its fields, since three parties
read it: the test code converts its structure to the core's and back (`ToCore`,
`FromCore`), and the core counts the sequence number on (`Authenticate`). Of the
other collections the number of documents per key is kept (`docs`). A test is one
worker or a batch; each worker runs the database calls of its procedure (`Script`) for
each of its UEs (`Slice`). `NextTest` starts the next test when this one has
returned, or while it registers or deletes, as a panic or the tool's time limit would. The
initial documents (`Earlier`) are of either structure.

### PagingBatch

`pc[w]` follows `SinglePaging` and `PagingWorker`; `Absorb` is one turn of either
skipping loop; `Collect` is one iteration of `DownlinkDataController`. The AMF
pages an idle UE on every connected association, which is what the two loops and
the comment "Absorb other paging message" are there for. `env` is chosen at the
start and never changes: whether things may fail, and whether the 500 ms between
two UEs of a worker outlast the Pagings that are still due, and which 5G-TMSI the AMF
assigns to which UE.

A worker does not compare UEs: `SinglePaging` compares the number that `decode.go` makes
of the TMSI in a Paging with its own (`PagingHeard`). These numbers repeat above 255, so
a worker may answer a Paging that is for another UE; and they are sent back in place
of the TMSI, so the AMF may not know the UE that answers (`AmfRejects`). `ToldApart` says that
no two UEs of the run have the same number, `Recognised` that each number is the
UE's TMSI (then the first three octets are zero). Both are assumptions the code makes
of the AMF and checks nowhere, and each property says which of them it needs.

`PagingRounds` knows neither channel nor list nor associations: all workers wait with an
idle UE, all are called at once, each UE is paged, measured and left for the next. Of
`PagingBatch` it sees `data` and `latencies` as they are, and of a worker how far its UE is
(`Stage`): waiting from the signal on, called once its identifier has been taken off the
full list, served when its latency is delivered.

### Non3GPP

`pc` is the read the test is blocked in (`saInit`, `auth`, `regReply`, `smc`, `success`,
`success2`, `final`, `nas`, `session`) or what it does between two reads (`complete`,
`iface`, `dial`, `gre`, `ping`, and `spin` for the loop of lines 762-766); `idle` is the
time between two test processes. `Accepts` says, read by read, which answers the
code goes on with; everything else is a `t.Fatal` or a panic (`Misread`). An answer
to IKE_SA_INIT is not encrypted, and neither SPI nor identifier is looked at: one of an
earlier run is taken at the first read (`ReadSaInit`) and at any read that goes on with whatever it
can decode, and leaves the UE with keys that nobody else has (`ike.keyed`). All it sends is
then dropped, and nothing that is encrypted can be read (`Readable`). `ike`
is the security association with its message identifier and child SAs, `nas` the two
counts, `kern` the part of the machine that outlives a run. `Deferred` is what the
deferred functions registered so far do to it; `Ends` executes them, `GoTestTimeout`
does not. The N3IWF and the AMF behind it are external: they answer the request
they expect next, in the way the code's reads are prepared for, refuse nobody they
have accepted and answer nobody they have refused. Over TCP the UE decodes nothing: any NAS
bytes will do (`RegisterOverTcp`). The N3IWF tells its UEs there by their
addresses (`n3.given`), and keeps that of an earlier run's UE, so it may answer a UE that
comes under an address it was never given.

What an undisturbed run does not see is a *disturbance*, of one of seven kinds
(`Disturbances`): a lost datagram, a repeated one or a liveness probe, a key exchange
value that begins with a zero, a refusal, an AMF that knows the UE already, an answer
slower than a deadline, a failing system call. `Odd` selects the kinds and `MaxOdd`
bounds their number. Time-outs strike when nothing else can move (`Stuck`), or as a
disturbance. Two findings about the code came from writing this module down and are
not runs of their own: the loop over leading zeros (line 762) never increments its
index, so that one public value in 256 keeps the test spinning until it is killed
(the state `spin`; `EveryRunEnds` holds only through the tool's timer); and any
datagram under the current keys passes for the CREATE_CHILD_SA request (line 1859), so
that a duplicate of the last answer, or a probe, lets the test pass without a PDU
session (`ike.sa` stays `"agreed"` at `ping`).

## 3. Runs

| Run | Question | Bounds |
|---|---|---|
| `handover_barrier` | safety and refinement of the handover batch with failures, workers without a session, stale reads and useless sleeps; without those, does the test end with every latency logged | 3 workers: two that have passed and one that has not is the smallest case in which a stale counter matters; the two extreme environments, which between them have the behaviours of the others |
| `nas_counts` | counts through skips, wraps, handovers, two contexts | 2-bit sequence numbers, 3 overflows, 12 messages each way: the full range of counts is passed through once; 2 messages in flight, 2 skipped (the limit of `SkipAssumption`) |
| `n2_flows` | reads, identifiers, responses and counts of all eight procedures, what their messages say and where downlink data goes; do they end, also when the AMF is late or silent | first identifiers 1 and 5, one handover round for the multi-round procedure, 2-bit sequence numbers so that procedures wrap, worker 3 of the batch; queues are bounded by the scripts |
| `wire_formats` | does the other end read what was meant | all builders, each optional argument absent and present; payloads of up to 4 octets of 0 and 255, which give even and odd lengths and every carry, some of them too long for `MaxPacket` = 31; a port that makes the checksum zero; UE addresses over the whole pool; MSINs of 9 and 10 digits; 1, 2, 16 and 64 workers; `Upper` = 26 instead of 154, whose square wraps to the same 164 in `uint8`; 3 datagrams of 2 clients |
| `subscription_data` | is the data in place, the same for both, and gone afterwards | 2 tests in a row, of 7 with different scripts, 2 workers with 2 UEs each; a third test can find no other mixture than the second, which starts from every earlier document; 2 copies tell one document from several |
| `paging_batch` | safety in every environment, liveness in the good ones | 2 workers with 2 UEs each: two rounds are needed for a stray Paging and for two rounds to mix. Four assignments of TMSIs: of one octet; with one number for two UEs of the same round; of different rounds; numbers that differ but are not the TMSIs |
| `non3gpp_runs` | do child SAs, keys, registration and machine stay in order over runs with disturbances; does every run end | 2 runs, of which the second sees what the first left in flight and on the machine, against one or two N3IWF processes; 2 disturbances, 2 addresses, 2 SPIs. Three disturbances reach the exception of `PassMeansRegistered` (below) |
| `multi_handover_counts`, `multi_handover_ids`, `paging_reads`, `handover_response`, `non3gpp_refusal` | expected violations, below | 2 of the 10 rounds; 1 run, 1 refusal; the rest as above |

The properties that deserve a reader's attention:

* `NoEarlyStart` and `ImplementsBarrier`: the data race on the counter is harmless
  for safety, because the counter is never decremented before it has been full,
  so a stale value can only be too small.
* `AllLatenciesLogged`: the same race is *not* harmless for liveness without the
  sleep: a worker whose poll comes after the first `dec` waits for ever.
* `LostWorkerStopsBatch`, `LostUeStopsBatch`: a lost goroutine, or a UE to be paged that has
  no address, never yields a measurement of a smaller batch; the price is a test that
  hangs. A handover batch is, however, measured with UEs whose session establishment has failed.
* `LatenciesDelivered`: the channel is closed after the last send and has room for
  every result, whatever has become of the logger. Its two mutants are a close that does not
  wait and a channel of one slot too few.
* `ResponsesWanted`, `IdsAgree`, `ReadsMatch`: relate what the harness sends or reads
  to what the AMF is doing at that moment, over all interleavings of two streams.
  `ConfiguredReadsMatch` and `OtherResponsesWanted` are the same statements for the
  procedures in which they hold. `IdsAgree` holds in `n2_flows` for one round of
  `TestMultiN2Handover`, and fails in the second (`multi_handover_ids`).
* `UplinkCountFresh`: no key and count pair is used twice, through copies and new
  contexts.
* `DownlinkReachesUe`: relates what half a dozen messages on two associations say of
  the session to the gNB the UE is at, at every moment and pace, and says that no
  later message loses the tunnel.
* `CountsExact`: every uplink message is taken for the count it was sent with and
  every decoded downlink message likewise, through skips, wraps and copies; in
  `n2_flows` also when answers come late and another read takes them.
* `EveryProcedureEnds`: no lock-step deadlock with an AMF that answers, and no
  dependence on it where reads time out.
* `ImplementsRounds`: the controller counts strings, yet always pings one UE of each
  worker, all in the same round, because a worker cannot signal twice without having been
  paged; and each UE is measured once, after the Paging for its own data. All that
  holds as long as UEs are told apart: a worker that answers a Paging for another UE is out of
  step with the batch.
* `MeasuredWhenServed`: whoever's Paging a worker has answered, a latency is delivered
  only for a UE that the AMF has taken back from idle. That it was the UE's own Paging
  is claimed for UEs told apart. `AllUesPaged` needs more, `Recognised`: a UE that calls
  itself by a number nobody has been assigned is rejected, and its worker waits for ever.
* `DataWhileNeeded`, `SameKeys`, `ReadsBack`: hold whatever the database held before,
  because an update sets every field that matters and the conversions handle a
  mixture of both structures.
* `RoundTrip`, `SentAsMeant`: the check that `build_test.go` does not make (it does not fail on
  a difference), for all builders, and what the fittings by position rely on. `RoundTrip` names
  the four builders that fail it: two return nothing, one has a wrong identifier, and the UE
  radio capability of an indication goes out empty (`build.go:2823`).
* `TunnelKeepsPackets`: the tunnel carries octets, so both packets come out of it as they went in.
  What an IPv4 receiver makes of them differs. The echo request is delivered. The emulator's
  packet is not: `rawudp.go:18` comments the identification out while version and length
  still speak of a header of 20 octets, so it is two octets short, a truncated packet to
  every receiver, and UDP begins where that still reads the header. The property
  says so, and that its UDP checksum is right over the octets as they lie.
* `PassMeansRegistered`: the UE checks neither message identifiers nor exchange types nor SPIs,
  and takes an IKE_SA_INIT answer of an earlier run for its own; still no repetition or
  delay makes the test pass for a UE that the network has not registered, because a grant is only ever
  in flight to a run that was granted. With one exception, which takes three disturbances: run 1 is
  killed after its child SA is set up, so the N3IWF keeps its UE under its address; run 2
  is refused with a notification, makes up a child SA with the default address, is taken
  over TCP for the UE of run 1, and a repeated datagram or a probe passes for CREATE_CHILD_SA.
  The property excludes exactly this (`UnderAnothersAddress`), and the theorem says that nothing
  else is possible for any number of disturbances.
* `NothingLeftBehind`: relates the last steps of a run to what was set up several
  exchanges earlier, over every place where it can fail. `ChildSAsKept` does so for the
  child SAs: each request is completed under its own identifier, and since both are kept in a
  map indexed by SPIs, the second must not draw that of the first (`generateSPI` looks at the
  complete ones only, and by then the first is). `KeyAgreed` holds also when the AMF asks for the
  security mode twice.
* `UndisturbedRunPasses`: the messages, identifiers and waits fit together, also in a
  second run, with or without the N3IWF restarted and its interface deleted.
* `NoStrayPaging`: only the 500 ms sleep keeps a Paging for a slow worker away from
  the registration of a fast one.

### Disagreements found

1. `multi_handover_counts`: `TestMultiN2Handover` copies the target's context back
   (`handover_test.go:1247`) without setting the counts, as it does in the other
   direction (1071-1072). From the second round its NAS messages reuse counts.
2. `multi_handover_ids`: the same procedure adds the round number to an identifier that the
   copy back has advanced already (`handover_test.go:1158`): in the second round it confirms on
   the source association the release of the context that the AMF has made for the target.
3. `paging_reads`: `TestPaging` has one read after its session request (line 263)
   where two messages arrive, and is one message behind from there on.
   The emulator has the same single read (`ueRanEmulator/main.go:338`) and reports the
   session when it has read the configuration update.
4. `handover_response`: line 634 of `handover_test.go` sends another response than
   the comment above it says, and the AMF's request stays unanswered
   (`SingleN2Handover`, line 1774, does the same).
5. `non3gpp_refusal`: the answer to the last IKE_AUTH request is taken for one that
   could not be decrypted whenever it holds no SA, since the list of payload types of
   line 1530 is not IKEv2's. A UE that the N3IWF refuses with a notification makes up
   an SA and goes on.

Smaller things that writing the modules down brought up, without a run:

* `rawudp.go:18`: the header without identification, see `TunnelKeepsPackets`.
* `handover_test.go:1557`: the error of `EstablishPduSession` is never looked at, so a batch may be
  measured with UEs that have no session.
* `build.go`: two builders return an empty PDU (2439, 2773), one gives a paging
  priority the wrong identifier (4071), one leaves the UE radio capability empty (2823: the
  value is set in a variable that is stored nowhere), two report session 10 both set up and failed
  (1562, 1716; the callers' fittings avoid it), and the acknowledgement of a handover
  reports a session 11 failed that nobody asked for. Tracking areas and PLMNs differ from the announced
  ones in places (000011 and 303399).
* When `TestMultiN2Handover` hands the UE back to the first gNB, the
  acknowledgement still names the second one's address (`build.go:3448`);
  `DownlinkReachesUe` excludes that procedure from its first part.
* Nothing ever deletes session management data and policies, `SingleRegistration` deletes
  nothing, and `smData` gets a further copy with each insertion (`mongodb.go:264`).
  The serving PLMN is `208093` at `registration_test.go:647` and `20893` everywhere else.
* `encodeSuci` puts the fourth digit of the IMSI where a three-digit MNC has its third;
  `NetworkReadsIdentity` holds for two-digit ones. The TMSI is folded by one bit per octet
  and is right below 256 only (`decode.go:82`); `ToldApart` and `Recognised` say what
  depends on that.
* Ports of a handover batch repeat above 64 workers, gNB identifiers above 127; the product
  of two `uint8` (`registration_test.go:121`) leaves a copy of the first identity in
  the last place.
* `ConnectToAmf` leaves its connection open when `SetDefaultSentParam` fails (`ngsetup.go:53`);
  the goroutine of `paging_test.go:339` shares `recvMsg` with the procedure; `gretun0` stays
  when a step before its deferred deletion fails (`non3gpp_test.go:1989`); under
  `set -e` a failing test ends `run_handover_test.sh` at line 59 and a vanished process ends
  `stop_cn.sh` at line 14; `test_nrdc_local.sh` replaces four files one after the other
  (229); a `bind` that fails before the `try` leaves the shim's rule behind
  (`gtpu_shim.py:305`).

### Fairness

Goroutines are weakly fair: the Go scheduler runs every runnable goroutine, and
the polling loop can be preempted. The polling loop's load is fair only in its
current value. Taking the mutex is part of a worker's own weakly fair action;
that is enough in `handover_barrier` because each worker takes it three times only,
so nobody can be overtaken for ever. Failures are never owed. In `n2_flows` the
AMF owes an answer to what it has read, unless it is late: then it owes nothing and
only the harness, whose reads have a timeout, is fair. In `paging_batch` the AMF, the
pings and the controller are fair. `WireFormats` and `SubscriptionData` have safety
properties only and need none. In `non3gpp_runs` the UE's reads and its other
steps, and the N3IWF with the network, are fair: a datagram that is not lost is
delivered, answered or dropped. `go test -timeout` is owed only to a run that is
stuck; nobody owes a new run, a start of the N3IWF, or a disturbance.

## 4. Proofs

`HandoverBarrierProofs` proves, for every finite non-empty set of workers and any
set of environments (`WorkerAssumption`, `NoOneAssumption`, `EnvironmentAssumption`), that `Spec`
implies always `TypeOK`, `CounterIsArrivals`, `NoEarlyStart`, `LostWorkerStopsBatch` and
`LatenciesDelivered`, and that it implements `BatchBarrier`.

None of these is inductive. `NoEarlyStart` depends on a full counter meaning that
everyone has arrived; that depends on the counter being a count of workers,
which depends on no increment being lost, which depends on the mutex. `IInv`
states the chain: exactly the worker inside `inc`, `block` or `dec` holds the mutex
(`MutexHeld`); what the holder has loaded is still the value (`LoadedIsCurrent`);
the counter is the number of workers between `inc` and `dec`; a `peak` of
`ThreadAmount` has only been seen when nobody was before the barrier any more
(`PeakMeansAll`); and the WaitGroup and the channel count workers, too (`WgCounts`,
`SentCounts`, `ClosedMeansDone`). The lemmas of the first part move one worker
between two sets of locations and say what that does to cardinalities
(`CountMove`, `GotoCounts`); one lemma per group of actions preserves `IInv`; the
refinement maps `EstablishSession` to `Establish`, `IncStore` to `Arrive`, both spin actions to `Release`, `DecStore`
to `Leave` and everything else to a stutter.

`NasSecurityProofs` proves, for all widths of sequence number and overflow counter
(`WidthAssumption`: the code's 256 and 65536 are one choice), any number of contexts
and messages in flight, and as long as fewer messages in a row are skipped than there
are sequence numbers (`SkipAssumption`) and a context does not use up its counts
(`BoundAssumption`), that `Spec` implies always `TypeOK`, and `CountsExact` and
`UplinkCountFresh`. An estimate made from a bare sequence number is right because of what
is in the queue behind it, so `IInv` describes the queues: their messages are numbered one
after the other up to the sender's count (`Chain`); the UE's estimate is behind the next
downlink message by no more than the messages it has skipped and one (`DownlinkInStep`); the
AMF's is the count of the last uplink message unless a new context is about to begin
(`UplinkInStep`). That the estimate is then exact is arithmetic on `Plus(c, k)`, the count
`k` messages after `c`. Freshness needs the order of counts within a context, which wraps:
`CountsUsed` says that the counts used under the current key are below the number of
messages sent, and that the next count amounts to that number.

`N2ProceduresProofs` proves, for all widths of the NAS COUNT (`WidthAssumption`), any first
identifiers, any number of rounds of `TestMultiN2Handover` and an AMF that may be late or not
(`FlowAssumption`), that `Spec` implies always `TypeOK`; and that it implies `CountsExact` where
`TestMultiN2Handover` is not among the procedures (its second round loses the counts, see
section 3) and sequence numbers have more than 3 values. The width cannot be smaller: the
accepted session, the first downlink message that is decoded after the Security
Mode Command, has count 3.

The scripts enter in three ways. The lemmas `TestRegistrationIs` to `TestMultiN2HandoverIs` say which
step is where, the last of them for any number of rounds; `ScriptIsProper` says that every step
is one and that the read that may give up is never the last; and `ScriptsAreInOrder`
says what the counts depend on: where the security context is new, which steps protect
their message in which context on which association, what is decoded where, and that a
handover is prepared in the steps 17 to 19. `CountsAgree` is the inductive invariant, in four parts
besides the types:

* `UplinkAgrees`: there is a sequence of counts that the AMF will conclude from the messages on
  their way to it, each the count its message carries, and the last the predecessor of
  the context's (`Follows`, `Concludes`). Reading takes the first of the sequence (`FollowsTail`), writing
  adds one (`FollowsAppend`); nothing protected is on its way on the other association.
* `TaggedAreProtected`: the AMF treats as protected what the procedures protect.
* `AskedAfterAll`: behind Handover Required nothing is protected for the source, and
  when Handover Request is on its way to the target the AMF has read all that was. So
  the sequence is empty when the context is copied, and goes on with the copy, whose counts
  `CopyForTarget` has set from the source's (`TargetCopy(c) = c`).
* `DownlinkAgrees`: the UE reads past most downlink messages, so it is not in step; but until it has
  decoded the accepted session its count is zero and the AMF has protected fewer than four
  messages (`Bounded`), which follows from what is still on its way to the AMF. The overflow
  is then zero, and a sequence number tells the count.

`AmfReadsAndReplies` says for all eleven actions of the AMF what they do to both counts. A read that times
out and a read that is given up only move the procedure on (`ReadIs`, `ReadMoves`).

`PagingBatchProofs` proves, for every finite non-empty set of workers, any work load and
any set of environments, 5G-TMSIs included (`WorkerAssumption`, `EnvironmentAssumption`), that
`Spec` implies always `TypeOK`, `LostUeStopsBatch` and `MeasuredWhenServed`, that it implements
`PagingRounds` (`Refinement`; these say themselves what they claim for UEs told apart only),
and always `ToldApart => NoStrayPaging`. The invariant has two parts: `Sound`, which
holds whatever Paging a worker answers (bounds of the channels, and that a worker finds its set-up
request only when the AMF has brought its UE back), and `IInv`, which holds as long
as UEs are told apart (`Inv` joins them). `NoStrayPaging` without that condition stays with TLC: with
it the proof can count batches. The workers have no common round counter and go round at their own
speed, so `IInv` counts instead the batches that the controller has called, as each
worker can tell (`Calls`): they all agree (`Together`). Around that number it says that channel
and list hold only UEs that wait for their Paging, each once, and no more than there are such
workers (`Listed`): a full list therefore is the whole batch; that a worker's queue
holds only Pagings of the two latest batches and none of its own twice (`ReadAt`); where
each request may be open and that its answer is alone in the queue (`AnsweredAt`); and that
the latencies delivered are those of the batches called, less those still due (`Measured`).
`Collect` is the step where a count of workers turns into all of them; it is proved by cardinality,
and gives `PingsWholeBatch` as well. Under the refinement mapping the signal of a worker is
`Wait`, the `Collect` that fills the list is `Call`, `AmfPages` is `Page`, delivering the latency
is `Measure`, and everything else stutters, the other turns of the controller
included (`CollectRefines`).

`Non3GPPProofs` proves, for any number of runs and of disturbances, any set of
addresses and any finite set of at least two SPIs (`RunAssumption`), that `Spec` implies
always `ChildSAsKept` and `NothingLeftBehind`, and that it implies
`PassMeansRegistered`. The bound on disturbances of the runs is thereby lifted for
these three. Its `IInv` adds, besides the fields of the records: no datagram is from a
run that has not begun (`NoFuture`), so that a new run starts with none of its own; a
grant in flight to the current run means that the N3IWF has registered that run
(`GrantsTrue`), which every repetition preserves; a child SA that the UE has not made up was
granted (`SaTrue`); the N3IWF has given an address to registered UEs only, and answers over TCP
only who comes under one of them (`GivenTrue`, `ConnectedTrue`), from which a pass of an
unregistered UE is left with the exception alone; and how many child SAs there are at
which step (`NoChildYet`, `Childless`, `OneChild`). A step of the UE sends requests only
(`UeKeepsGrants`); a step of the N3IWF never takes a registration back
(`AnswersKeepGrants`); a step outside the UE leaves the rest alone (`OutsideKeeps`).

The second part of that module proves always `TypeOK` and `KeyAgreed` with `TypeInv`, a
second invariant over the first: where the program is fixes the last message identifier
(`LastRequest`), and every datagram that carries a count carries the first of a context
(`Sound`), because each Security Mode Complete opens a security context of its own. The
UE subtracts one from a count of one, the N3IWF is given a count of zero, and a repeated,
late or stray datagram says the same.

`SubscriptionDataProofs` proves, for any numbers of workers, UEs per worker and tests
in a row, any subset of the nine tests (`SizeAssumption`, `TestsAssumption`) and any
earlier authentication documents, that `Spec` implies always `SameKeys`, `ReadsBack` and
`DataWhileNeeded`. Every test's script consists of insertions and reads, one
registration, and deletions (`Shape`, `ShapeOfTest`); two workers never have the same
UE (`UesApart`, from the slices' bounds), and documents of different UEs or collections
have different keys (`KeysApart`). `IInv` then says, for each worker, what its UE's
documents are at its place in the script (`Placed`): those of the insertions behind it are
there, the authentication document with the test set's values in the core's structure,
those of the deletions behind it are not, and a read returned what was inserted. That an
insertion makes it so over any earlier document, and that a read returns it, is
`InsertedInCore` and `FromCoreReadsBack`. One lemma per action preserves `IInv`; a test that
is killed anywhere is harmless because each script begins with the insertions.

`WireFormatsProofs` proves that the `Spec` of `WireFormats` implies always `TunnelKeepsPackets` and
`NetworkReadsIdentity`, for payloads of octets of any length up to any `MaxPacket` below
65536 (`PacketAssumption`), all 16-bit ports (`PortAssumption`), all UE addresses of the
pool, subscriber numbers of any length, and TMSIs that fit in one octet (`WireAssumption`; above
that the folding of `decode.go:82` is wrong, see section 3). The inductive invariant, `Paths`, says what was made from
which parameters, what was sent and what was read; the rest is about the functions,
and that is long. `PacketFormatsProofs` has it:

* The one's complement sum of a buffer is characterised by its running sums
  (`WordSumIsSum`), and that folding it yields the residue modulo 65535 that is zero for no
  sum but zero (`FoldedIsResidue`), by course-of-values induction. A buffer whose checksum
  field holds what `checksum` computed of it with a zero field therefore sums up to
  a multiple of 65535 (`ChecksumVerifies`), for odd lengths, too, and the field is never zero.
  `SegmentVerifies` says this of the segment behind its pseudo header.
* `CalculateIpv4HeaderChecksum` folds once. `FoldedOnce` says that this is enough for sums
  up to 131070, and `PingHeaderVerifies` that the sum of the header stays below, for every
  address of the pool.
* `DecapsulatedIs` and `TunnelCarries` follow the lengths through the tunnel header octet by
  octet; `OptionsAreSkipped` does so for the header with an extension, written by hand.

The induction is over sets of numbers (`Induction`, from the well-foundedness of `<`): the
library's induction theorems take an operator.
A SUCI is read back because filler and parity agree (`LastHalf`), and each octet's halves
are the two digits (`NibblesAre`, `DigitsAre`).

The last part of that module is about the UDP server: for all datagrams and buffer sizes
(`ServerAssumption`), `ServerSpec` implies always `EchoesItsOwn`. A goroutine that has not sent
yet refers to a buffer that holds what its address has sent (`HoldsItsOwn`), and reading
a datagram extends the buffers without touching one that a goroutine refers to.

Only model-checked: liveness everywhere (fairness is outside the prover's
reach); `ConfiguredReadsMatch`, `IdsAgree` and `OtherResponsesWanted` of `N2Procedures` and the invariants of
`SessionPath`, which depend on where each procedure and the AMF are rather than on data: the scripts are
constant, and the runs take them through every order the queues allow, which leaves open the
number of repetitions and first identifiers other than those of the run; and `RoundTrip`, `SentAsMeant` and `WorkersApart`, which
speak of constant messages and of one generated table, which TLC evaluates
whole. Conversely `PingsWholeBatch` is proved and not run.

## 5. What is left out, and why

* Logging and latency values: no property depends on them. Of the documents in the
  database only those of authentication have fields in the model: nothing in this tree
  reads the others.
* The library calls `ConnectToAmf` and `ConnectToUpf` consist of, reading the emulator's
  configuration file, and its endless repetition of one packet.
* The batch of registrations: WaitGroup, channels and logger have the shape of
  the handover batch's, which has a module; its slices and data are in `SubscriptionData`.
* Lifecycle scripts, NR-DC test and GTP-U shim: shell and Python programs beside the Go
  code, planned below.
* MAC and ciphering: `NASDecode` prints a mismatch and continues
  (`security.go:135-137`), so a wrong MAC changes no state.
* Of message contents: criticalities, locations, timestamps, security and radio
  containers, and the ASN.1 encoding itself (`Encoder`, `Decoder` are external).
* SCTP loss and reordering: the associations are reliable and ordered.
* Keys, MACs and payloads of IKE messages: a datagram of another run cannot be decrypted,
  and one of this run can. `applyXFRMRule` and XFRM states have no consequence the
  test looks at; the scripts' flush of them, their pid file, port checks and reports
  are left out. The ping's result is logged and decides nothing.
* The AMF's paging retransmission and its own failures: not visible from this
  tree.
* NFs, web console, UERANSIM and OAI: empty submodules.

## 6. Plan

Done: sections 2 to 4. Next, in this order:

1. `SinglePaging` as a further script of `N2Procedures`: it answers with the
   identifier of the released context (line 809).
2. Lifecycle scripts: `run_cp_nfs.sh`, `stop_cn.sh` and `run_handover_test.sh` under
   `set -e`; configuration backup, patch and restore of `test_nrdc_local.sh`
   with kills between the steps; the N3IWF pid file. GTP-U shim: set-up and
   clean-up.
