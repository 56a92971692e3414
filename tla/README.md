# SiteSim in TLA+

SiteSim puts a P25 Phase 1 control channel on the air with a transmit-capable SDR and listens on a second
receiver for the radios that answer it. This directory holds a verification project for it: TLA+ modules
translated from the C++ sources, TLC configurations that check them on small instances, and TLAPS proofs
of the safety properties for every value of the constants. Paths below are relative to the repository.

## 1. Inventory

| Component | State | Operations | Hard behaviour |
|---|---|---|---|
| `src/tx/SoapyTx` | ring of 4 MiB with `m_wpos`, `m_rpos`; `m_running`, transmit thread; device and stream | `write` (producer), `txThread`, `startTx`, `stopTx`, `open`, `close` (GUI), tuning setters | lock-free single producer, single consumer; wrap-around; full ring; underrun; device changes under a live stream |
| `src/tx/ControlChannel` | `m_running`, producer thread, `m_cfg`, `m_tsbkQueue` (at most 128), activity log | `start`, `stop`, `configure` (GUI), `queueTSBK` (engine thread), `producerThread`, `getLog` | throttle against a ring it does not own; two classes of traffic competing for slots; stop while waiting; reconfiguration |
| `src/rx/RxPipeline` | `m_running`, engine thread, stderr reader thread, pipe, `m_opts`, `m_state` | `start`, `stop`, destructor, ISP and event callbacks | three threads and a third-party engine that may end whenever it likes; a global flag both sides write |
| dsd-neo engine (`third_party/dsd-neo`) | `exitflag`, hook tables, signal handlers | `dsd_engine_run` | clears `exitflag`, installs hooks and handlers of its own, prints to stderr |
| `src/p25/TSBK`, `Frame`, `NID` | none | TSBK builders, CRC, trellis, interleaver, NID, status symbols | bit-exact arithmetic |
| `src/p25/C4FM` | filter and phase accumulators | `modulate` | floating point |
| `src/ui/App`, `CCPanel` | window, device list, panels | START, STOP, Device menu, quit | order of calls into three components; objects that outlive what they refer to |
| `src/ui/SitePanel` | edited configuration, text fields | Apply, save, load | partial parse, partial load, non-atomic save |
| `src/ui/BandSelector` | selected band and channel | selection, manual entry | frequency limits |
| `src/ui/LogPanel` | bounded receive log | `addRxEntry`, `render` | called from other threads |
| `src/uplink_test_main.cpp` | stop flag | start, wait, stop | signal handler replaced by the engine |
| `subscriber_test/` (Go) | `g_tx_buf`, `g_tx_len`, `g_tx_pos`, `g_tx_done`, samples | builders, `GenerateIQ`, `Transmit`, `tx_callback` | callback on a thread of libhackrf against a deadline; a C buffer both use |
| dsd-neo decoder (`third_party/dsd-neo`) | sync, counters of a frame | NID, TSBK and TDU readers | the other end of every format; counts symbols, reads on after damage |

How they interact. The GUI thread calls everything. START runs `startTx()`, `ControlChannel::start()`,
`RxPipeline::start()`; STOP runs `ControlChannel::stop()`, `RxPipeline::stop()`, `stopTx()`. The producer
thread writes modulated frames into the ring, the transmit thread empties it into the device. The engine
thread calls `onIspTsbk`, which builds a response and puts it into the queue the producer takes from. What
the engine prints to stderr is captured by a pipe and logged by a reader thread. `subscriber_test` is a radio: what it
transmits is what the engine decodes, and the messages of the control channel are for radios like it.

What makes each component correct: the stream to the device is unbroken and in order; nothing waits forever;
a thread object is never replaced while joinable; the device is not closed under its stream; responses are
aired once each in order and the five system messages keep coming round; a burst belongs to one
configuration; the engine's state outlives the engine; stderr capture is undone completely; what one side builds the
other side reads, field by field, symbol by symbol and through the faults the codes are made for.

## 2. Modules

| Module | Models | Correspondence |
|---|---|---|
| `SampleStream` | what the ring promises | abstract: a bounded FIFO of samples, `Put` a block, `Take` up to a chunk; implemented by `SoapyTx` |
| `Receiver` | what `start()`, `stop()` and the destructor of the receiver are to a caller | abstract: an engine that may end at any time, a stop that waits for it; implemented by `RxPipeline` and by the receiver's steps in `Site` |
| `Channel` | what `start()`, `stop()`, `configure()` and Apply are to a caller | abstract: a configuration that changes only off the air; implemented by `ControlChannel` and by the channel's steps in `Site` |
| `Schedule` | what a radio hears of the scheduler | abstract: the system messages in a circle, fewer than `BurstLen` responses between two of them, each response once and in order; implemented by `ControlChannel` |
| `SoapyTx` | `SoapyTx.cpp` | `ring`, `wpos`, `rpos`, `running` are the members; `w`, `copied`, `r`, `taken`, `want`, `buf` the locals of `ringWrite`, `ringRead` and `txThread`; program counters `wpc`, `txpc`, `guipc`. A byte is its position in the stream, so any loss, repetition or tear shows. One action per load, byte copied and store |
| `ControlChannel` | `ControlChannel.cpp`, Apply of `SitePanel.cpp` | `slot` is `frameN` and `sysIdx` itself modulo `kBurstLen`, `built` the configuration in the prebuilt TSBKs, `queue` is `m_tsbkQueue`, `fill` is `ringAvailable()`. One action per step between two accesses of shared state |
| `RxPipeline` | `RxPipeline.cpp`, `dsd_engine_run` of `engine.c` | `cpc`, `epc`, `reader` are the places of the control, engine and reader threads; `capture` and `pipe` the redirected stderr, `savedFd` whether it can be restored; a thread that has ended and was not joined is `"done"`, and `"terminated"` is what assigning to or destroying its joinable thread object does to the program |
| `SitePanel` | `SitePanel.cpp`, `BandSelector.hpp`, rounding and coding of the offset | `panel` is `m_cfg`, `texts` the hexadecimal fields, `sel` the selector's `m_freqHz`, `m_bandIdx`, `m_outOfBand`, `file` is `config.json`, `applied` what the control channel was configured with. A frame of the GUI is a step; saving is two, with a crash or a failed write possible between them |
| `Site` | START and STOP of `CCPanel.cpp`, Apply of `SitePanel.cpp`, Device menu and quitting of `App.cpp` | one action per call into a component; `gui` is the place in the sequence of calls. `txFreq`, `tuned`, `ccCfg`, `built`, `rxCfg`, `rxTuned` are the copies of the configuration each component keeps |
| `Tsbk` | the builders of `TSBK.cpp` and `p25.go`, the command switch of `main.go`, `handleIspTsbk`, the readers of dsd-neo | pure operators; a machine word is the set of its 1 bits, so that masks and shifts are set operations |
| `Uplink` | `main.go`, `GenerateIQ`, `Transmit` and `tx_callback`; queue and messages of the site | `spc` is the place in `main` and `Transmit`; `txLen`, `pos`, `txDone` the C globals; `stream` whether libhackrf calls back; `airing` the requests on the air, `queue` is `m_tsbkQueue`, `read` what a radio reads last |
| `Coding` | `crcCCITT`, `encodeBCH`, `trellisEncode`, `dataInterleave`, and what dsd-neo does with their results | one action per iteration of each loop, the decoder's computation beside it; every bit is chosen when it is used, so a property of a step holds for every message |
| `Frame` | `BuildFrame`, `BuildTDUFrame`, `insertStatusSymbols`, the NID, TSBK and TDU readers of dsd-neo | one action per symbol, sent and read; `i`, `remaining` are the sender's locals, `count`, `skip`, `block` the decoder's; `hurt` marks a damaged frame |
| `*_proofs` | | theorems, each module EXTENDS its component |
| `MC*` | | the instances TLC checks |

`ControlChannel` stands on `SoapyTx`: it keeps only the fill level of the ring, which is enough because
`SoapyTx` shows that the ring loses, repeats and reorders nothing and that a `write()` with room returns.
`RxPipeline` stands on `ControlChannel` in the same way: it only counts queued responses. `Site` composes the three, and a
call is one step there, except that stopping the receiver waits for the engine, which may also end by itself at any time.
`Receiver` and `Channel` say what such a step may be. `RxPipeline` and `ControlChannel` implement them with all their threads, and
every step of `Site` is a step of both (or leaves them alone), so `Site` supposes nothing of a call but what they say. That `Site` also leaves out
nothing they allow at the place of a call is read off its actions and not checked. `Uplink` stands on `ControlChannel` (which message goes
out when is left open, because `ControlChannel` says it) and on `Coding` and `Frame` (a request on the air is heard right or not at all);
`Frame` extends `Coding`, which makes the parts a frame is put together from, and both extend `Tsbk` for its words.

Definitions whose comment begins with "Mutant" are not part of any specification. Each is the definition that
follows it with a plausible slip, and for each checked property one of them breaks it; they document
what the property guards against.

## 3. Runs

Type invariants are theorems, and so are `NoThreadReplaced` (of `SoapyTx` and `ControlChannel`) and `OneConfigPerRun`: no run
repeats them, the second because `ImplementsChannel` contains it.

| Run | Checks | Instance and why it is enough |
|---|---|---|
| `soapy_tx` | `UnreadIntact`, `ChunkInOrder`, `DeviceHeld`; `WriteCompletes`, `StopReturns`, `EverythingRead`; refinement `ImplementsStream` | ring of 4, chunk of 2, blocks of 1 and 3, 7 bytes: the positions wrap, a block fills the ring to its last usable slot, reads are both whole and partial, and the stream is longer than the ring. Device present or absent, opened and closed at any time |
| `control_channel` | `WriteNeverSpins`, `ResponsesInOrder`, `SystemRotation`; `StopReturns`, `StreamContinues`, `ResponseAired`; refinements `ImplementsChannel`, `ImplementsSchedule` | bursts of 2, queue of 2, 4 responses, more than queue and producer hold, and enough to occupy every optional slot for the two bursts in which both messages have to return, 2 configurations; ring of 9 with frames of 2, the smallest margin that `ChannelAssumption` allows, so the throttle is only just sufficient |
| `rx_pipeline` | `EngineHoldsState`, `CaptureUndone`, `NoStrayEngine`; `StopReturns`, `EngineEnds`; refinement `ImplementsReceiver` | pipe of 2 lines, so that the engine blocks on it; queue of 1, 3 requests. The number of starts and stops is not bounded |
| `panel_file` | `RoundTrip`, `OffsetNearest` | one band, one value of the other fields, a readable and an unreadable text for each hexadecimal field, offsets on both sides of a half unit and of zero and the largest that eight bits hold: every field of the file but the frequency differs from its default in some save |
| `panel_band` | `TransmitInBand`, `SelectorAgrees` | the bands and quick picks of the source; entries on both sides of each limit; an incomplete and a half-readable file |
| `site` | `OneFrequency`, `DeviceTuned`, `StoppedMeansQuiet`, `ReceiverTuned`; refinement `ImplementsComponents` (of `Receiver` and of `Channel`) | three configurations: two frequencies, and two offsets for one of them; every order of user actions |
| `frame` | `CrcExact`, `NidSeparated`, `BlockDetermined`, `BlocksFound`; the assumption `LeastWeight` | the real sizes of NID, trellis code, interleaver and frame; a block of 7 bits, which with its checksum is longer than the longest burst; all data, every place and length of a burst and every place of a fade; a NAC with some of each half of its bits against every other NAC, and for `LeastWeight` all 8191 differences of two NIDs; the control channel's order of frames and subscriber_test's, each frame damaged or not |
| `uplink` | `RequestUnderstood`, `ResponseMatches`, `SiteAnnounced`, `BufferHeld`, `TailOnlyLost`; `TransmitReturns` | six commands with numbers at both edges of their fields and one bit beyond; a site with all fields at their edges; two times of day, with a positive and a negative offset and a leap second; lengths below and above what a C int of 16 values holds, several transfers each, the last one partial; 2 runs, a queue of 2 |
| `rx_lost_stop` | violation of `EveryStopReturns` | finding 1, under fairness |
| `rx_self_exit` | violation of `NeverTerminates` | finding 2 |
| `site_log` | violation of `LogHasPanel` | finding 3 |
| `registration_refused` | violation of `RegistrationAccepted` | finding 4 |

Bounds. `MaxBytes`, `MaxResponses` and `MaxRequests` bound the environment: bytes a producer writes, responses
accepted, requests decoded. They appear as guards of `BeginWrite`, `QueueTSBK` and `Scan` and nowhere else.
When `MaxBytes` is reached the producer writes no more, which it is free to do anyway. The receive and site runs turn
the deadlock check off because the program really ends there (`"dead"`, `"ended"`, `"terminated"`); the others keep it.
`MaxRuns` bounds how often `subscriber_test` is run (guard of `Run`); `Frame`, `Chunk`, `Depth` and `IntSize` scale samples per frame,
samples per transfer, transfers in flight and the values of a C int down. `ErrorBurst` and `Fade` are the faults of the channel: 16 wrong
bits from the first to the last, the most the checksum is sure to catch (17 fails), and 24 dibits lost in a row, the most the
interleaver survives (25 fails). What reaches the radio's decoder in a damaged frame is left open in `Frame` and `Uplink` alike.
`SitePanel` and `Site` have no counters: their sets of entries, offsets, texts and configurations are the bounds.
Frequencies and offsets are multiples of 10 kHz, which all limits, quick picks and presets of the source are.

Fairness. A thread that can run does run, because the operating system schedules it: weak fairness of each
thread's own steps. The GUI thread is fair only inside a call, since nobody has to press a button; no
request, device failure or signal ever has to happen; the producer in `SoapyTx` may stop calling `write()`.
`subscriber_test` runs when it can, and its loop finds the deadline passed at last, because time passes: strong fairness of that one
step, which is enabled again and again. libhackrf and the device need not do anything.
Sleeps are steps that leave the state alone and are not modelled. The mutex of the queue protects single operations and is
never held across a wait, so each is one action.

## 4. What the runs show

* **Ring.** Publishing the write position after the copy and the read position after the read-out, and keeping one slot
  free, make the ring a FIFO stream (`UnreadIntact`, `ImplementsStream`); an underrun pads with silence and never
  with the previous chunk (`ChunkInOrder`). The device changes only while no transmit thread exists.
* **Throttle.** `write()` has a spin loop without a test of `m_running`. It is never entered: at half a ring there is
  room for a frame and a TDU (`WriteNeverSpins`), so `stop()` returns even when no transmit thread
  empties the ring (`StopReturns`).
* **Scheduling.** Responses are first in, first out across stop, start and Apply (`ResponsesInOrder`) and go on the air
  (`ResponseAired`); the mandatory slot alone carries the whole rotation (`SystemRotation`, which is tight: one less
  fails). To a radio all of this is a schedule in which no system message is skipped (`ImplementsSchedule`).
* **Panel.** What is typed and selected stays in band through every order of selections, quick picks, saves and
  restarts, because the selector's band is always the one its frequency lies in (`SelectorAgrees`); a complete
  `config.json` gives back what was saved (`RoundTrip`), although a save may fail or be interrupted. The file is overwritten in
  place, so an interrupted save loses the configuration before it too, and the next launch has the defaults.
* **Whole program.** Announced and transmitted frequency agree (`OneFrequency`) because Apply stops the channel before it retunes;
  STOP silences everything, also with an engine that ended by itself (`StoppedMeansQuiet`).
  A device whose driver refuses a frequency is elsewhere and nothing in the program knows; the next frequency it accepts, or
  reopening it, puts it right (`DeviceTuned`).
* **Receiver.** The engine's state outlives the engine, whatever ends it, and no hook outlives the state; the pipe never blocks the shutdown, because the
  reader goes on until the engine is joined. Capture is undone before anything is freed, or `stop()` does not get that far:
  `CaptureUndone` holds with `pipe()` or `dup()` failing. `StopReturns` names the one place where `stop()` may stay: the join of the reader
  after a failed `dup()`, which leaves stderr a write end of the pipe.

* **Messages.** What `subscriber_test` asks for is what the receiver logs (`RequestUnderstood`), a response names the radio and
  group that asked (`ResponseMatches`), and a radio learns the site's configuration from the system messages, with a neighbour that
  is not the site, also for site 255 (`SiteAnnounced`).
* **Codes.** The 32-bit register of the sender and the 16-bit one of the decoder give the same checksum (`CrcExact`); a NID stands at the
  head of its codeword, and NIDs of different contents are 23 bits apart (`NidSeparated`), as `NID.hpp:9` says of the code; after a fade no other message fits (`BlockDetermined`). The last-block flag of a
  damaged block is believed, so the decoder may read on for two blocks; that costs one copy of a repeated request and nothing of the
  control channel, whose TDU takes the loss (`BlocksFound`).
* **HackRF.** Every way out of `Transmit` stops the stream before the buffer is freed (`BufferHeld`); success is reported when the last sample
  was handed over, up to `Depth` transfers before it is on the air (`TailOnlyLost`); the loop ends with a device that takes nothing
  (`TransmitReturns`).

Findings, each the counterexample of a violation run:

1. `RxPipeline.cpp:126` sets `exitflag` to end the engine. `dsd_engine_run` clears it as it comes up
   (`engine.c:2568`), so a stop in that window is lost and `stop()` hangs in the join.
2. An engine that ends by itself (no RTL-SDR, Ctrl-C in `uplink_test`, which promises that Ctrl-C stops it) clears
   `m_running`; `stop()` then returns early without joining, and the next `start()` or the destructor meets a
   joinable thread and terminates the program.
3. `App.cpp:101` lets the panels live in `run()` for the sake of references; the log panel is destroyed before the
   receiver that logs to it is stopped.
4. `README.md:71` says that a U_REG_REQ can cause a U_REG_RSP, and it is built as accepted. `TSBK.cpp:179` encodes that as 1; the decoder of this
   repository calls 0 "REG_ACCEPT" and 1 "REG_FAIL" (`p25p2_vpdu.c:3322`), so every registration is refused.

Smaller disagreements met while modelling, visible in the definitions named and without a run of their own:

* `ControlChannel.cpp:101` promises all system messages in every burst. Four of five slots go to responses
  when any are queued (`PickResponse`); what holds instead is `SystemRotation`.
* `RxPipeline.hpp:48` says dsd-neo's event hook is forwarded to the log. The engine replaces the hook before it
  decodes anything (`InstallHooks`).
* `RxPipeline.cpp:251` says that closing the write end unblocks the reader. When `dup()` fails at line 253, stderr is redirected but
  not restored and stays a write end of the pipe: the reader sees no end of file and `stop()` hangs in its join (`Capture`, `Restore`).
* `RxPipeline.cpp:185` logs `-> queued` also when `queueTSBK` has dropped the response (`Respond`).
* `BandSelector.hpp:8` restricts transmission to amateur bands, but a frequency in `config.json` is not checked (`Loaded`), so
  `TransmitInBand` needs the proviso `ForeignInBand`.
* `SitePanel.cpp:182` calls the displayed offset units derived. They are derived in the control channel's copy only (`Configured`).
* `BandSelector.hpp:89` moves to the band's minimum; the code clamps, which from above is the maximum (`ClampToBand`).
* `SitePanel.cpp:219` says "Applied." also when a hexadecimal field could not be read and a mixture is applied (`Assign`).
* `SitePanel.cpp:46` says "Config saved." also when nothing could be written, because the stream throws nothing (`BeginSave`,
  `EndSave`): on a full disk the old file is gone and the next launch loads the defaults.
* `SitePanel.cpp:144` says that radios transmit where the receiver is tuned. IDEN_UP announces multiples of 250 kHz: the
  panel's own preset of 600 kHz becomes 500 kHz (`OffsetUnits`; `OffsetNearest` is what holds).
* `CCPanel.cpp:19` says "TX ACTIVE" after choosing a device has ended the transmission (`CloseDevice` of `Site`, from `App.cpp:206`).
* `CCPanel.cpp:27` shows the loaded frequency while START before the first Apply transmits on the default one (`Init` of `Site`).
* `main.go` reports "Done." when the samples were handed to libhackrf; what is still in its transfers is cut off (`StopTx` of
  `Uplink`). A `-count` beyond about 11930 makes the length negative in `C.int` (`CInt`), and nothing is sent.
* `BuildURegReq` puts the system number into bits 36 to 47, where the decoder's request reader (`p25p1_tsbk_isp.c`) looks in bits 40 to 51; the receiver
  of SiteSim does not read it.
* dsd-neo's `processTSBK` tests the last-block flag without asking whether the block was damaged (`ReadBlock`).
* `SitePanel.cpp:144` again: Apply does not retune a running receiver (`Configure` of `Site` leaves `rxTuned` alone).

## 5. Proofs

Every theorem is of the form `Spec => [](...)`, `Spec => [][...]_vars` or, for a refinement, `Spec => Abstract!Spec`, or says what a reader reads; each
is for all constants that satisfy the module's assumption:
`RingAssumption` (a block is smaller than the ring), `ChannelAssumption` (half the ring and two frames fit into the
ring; with 4 MiB and frames of 180000 bytes they do), `RxAssumption` (capacities are numbers), `PanelAssumption`
(bands are ordered and disjoint, one holds the default frequency, quick picks lie in their band), `ForeignAssumption`
and `SiteAssumption` (types of files and configurations), `UplinkAssumption` (words are sets of bit positions, lengths and
capacities numbers, times of day what `gmtime` returns, with a UTC offset of at most 15.5 hours), `CodingAssumption` and
`FrameAssumption` (sizes, and frames that are TSBKs and TDUs).

Six theorems have a hypothesis besides. `TransmitsInBand` and `SelectorIsRight` assume `ForeignInBand` (below). `BurstIsRefused` assumes
`ErrorBurst <= 16` and `FadeIsSurvived` `Fade <= 24`: they bound the fault, not the program, and TLC finds `CrcExact` and `BlockDetermined` violated by one more.
`BlocksAreFound` assumes `Spaced`: in a stream of more than one frame no TSBK follows on a TSBK. The streams the code makes are
TSBK and TDU in turn (`ControlChannel.cpp`) and one TSBK over and over (`main.go`); both are so. `NidsAreSeparated` assumes
`LeastWeight`, a statement without constants or variables about the matrix in `NID.hpp`, which TLC evaluates in `MCFrame`.

* `SoapyTx_proofs`: `TypeCorrect`, `RingIsFifo`, `ChunksInOrder`, `ThreadNeverReplaced`, `DeviceIsHeld`, `RingImplementsStream`. `UnreadIntact`
  is not inductive: between `FindRoom` and `PublishWrite` the bytes of the block already lie in the ring, and
  between `Measure` and `PublishRead` bytes have been copied out that still count as unread. The invariant adds where the
  block begins, that it fits into the free part, and that `buf` holds the bytes from `got + 1`. The arithmetic
  of positions modulo `RingSize` is in lemmas of its own. `RingImplementsStream` proves the refinement: `UnreadIntact` says
  that what is pending is a window of the stream; publishing a block makes it longer (`Put`), publishing a read moves its
  beginning (`Take`), and every other step of the three threads leaves it alone.
* `ControlChannel_proofs`: `TypeCorrect`, `WritesNeverSpin`, `ResponsesAreFifo`, `ConfigIsStable`, `ThreadNeverReplaced`,
  `RotationIsBounded`. `WritesNeverSpin` needs how much room is left at each place after the throttle. For
  `RotationIsBounded` the invariant is a potential: the age of a message, plus the frames until the next mandatory
  slot, plus a whole burst for every message that precedes it in the rotation, stays below the square of the burst length.
  `CallsAreChannel` and `TrafficIsSchedule` are the refinements. The mapping of the first says that what a producer has not built yet it
  builds from the configuration it was started with; `OneConfigPerRun` (`ConfigIsStable`) makes that true. The second gives the response in the
  producer's hand back to the queue, and reads off the place in the burst how many responses may still come first.
* `RxPipeline_proofs`: `TypeCorrect`, `StateOutlivesEngine`, `EngineNeverStray`, `CaptureIsUndone`. The invariant
  says at which places of the control thread an engine may live (idle while running, or inside `stop()` before the join)
  and that lines are left in the pipe only while the reader reads. `CallsAreReceiver`: an engine that has returned is seen as ended until it is joined, and
  the caller as waiting from `m_running = false` to the join; everything about pipe, hooks and reader is a stutter.
* `SitePanel_proofs`: `TypeCorrect`, `TransmitsInBand`, `SelectorIsRight`, `SavesRestore`, `AnnouncesNearest`. The invariant of the
  bands adds that the panel's and the saved frequency are in a band too; `TransmitsInBand` and `SelectorIsRight` assume
  `ForeignInBand`, that files of other origin are in band, because `loadConfig` checks nothing. `AnnouncesNearest` rests on lemmas
  about rounding and about the eight bits of magnitude.
* `Site_proofs`: `TypeCorrect`, `AnnouncesItsFrequency`, `DeviceFollows`, `StoppedIsQuiet`, `ReceiverFollows`. `OneFrequency` needs what
  holds inside Apply (the channel is stopped, the transmitter has the panel's frequency) and that the channel's configuration
  follows the transmitter everywhere else. `StoppedMeansQuiet` needs that `m_running` tells whether an engine lives
  except while `stop()` joins it, and silence at each place from which the panel comes back to idle. `CallsAreComponents`: each step of the composition is one of
  the abstract components' or leaves them alone, for instance because Apply configures only what it has stopped.
* `Tsbk_proofs`: `NetStatusRead`, `RfssStatusRead`, `AdjStatusRead`, `IdenUpRead`, `SyncRead`: reading after building gives the fields back, for words of
  any width. The lemmas say what a field sees of a word that was shifted into place: itself, a part, or nothing, and that a
  number below a power of two fits into its bits.
* `Uplink_proofs`: `Typing`, `Held`, `TailOnly`, `Understood`, `Matches`, `Announced`. The invariant says at which places of `Transmit` the
  stream may run and the buffer exists, that blocks on the air were asked for, that everything in the queue answers one of them,
  and that what was handed over is at most `Depth` transfers ahead of what is on the air. `Announced` puts the five readers together: it needs that each
  part of a time of day fits its field, the count of microslots up to a leap second included.
* `Frame_proofs`: `CleanIsAccepted`, `BurstIsRefused`: as long as no bit is wrong, the low 16 bits of the sender's register are the receiver's, for blocks of any
  length. After a wrong one the two differ by a remainder that a burst of 16 bits determines; every later step carries it on linearly and
  loses nothing, and the received checksum cannot hide it. `NidsAreSeparated`: a codeword is at each row the one of the data so far, in the closed form of
  `CodewordOf`, where a bit is the parity of a set; parities add up (`Parity`), so the code is linear (`Linear`), and the distance of two codewords is the weight of one.
  `FadeIsSurvived`: a pair that arrived whole names both states it leads between, so a dibit is open only when the pairs on
  both its sides were hit. The interleaver puts neighbouring pairs 12 places or more apart, so that 24 dibits hit two neighbours only
  by the second half of one and the first half of the other, and the two halves left name the state between them. `BlocksAreFound`: the sender's counters are functions of the place in the
  frame (`Pos`), and so are the decoder's in every mode; a damaged block makes the decoder read into the next frame or the one after, and the
  invariant says up to where.

Only model-checked: liveness, because it rests on fairness and ENABLED, and `LeastWeight`, a search over 8191 sums of rows that
is arithmetic rather than argument. Nothing else is assumed without proof.

## 6. Not modelled

Gain, amplifier and sample rate (a value stored and forwarded to the driver) and the limits of the fields that are only clamped;
the activity log, frame counter and everything drawn on the screen; the builders of grants and of LOC_REG_RSP, which nothing calls, and with them the
voice channel number, which is only shown; both `C4FM` modulators (floating point); what dsd-neo does with samples, how it corrects
a NID, and a synchronization found by chance; the choice of a HackRF and argument parsing of both command-line programs; `third_party` and
the build files. The memory model: `m_wpos` and `m_rpos` are stored with release and loaded with acquire order, or by the thread that
owns them, and the models take these accesses as sequentially consistent; `g_tx_done` is volatile and taken so too. `sysIdx` is kept
modulo the burst length; in the code it is an `int` that would overflow after some years on the air. Frames of the old site that wait
in the ring when Apply retunes the device are not followed across `Site`.

## 7. Plan

In this order; all but the last are done.

1. `SoapyTx` with `SampleStream`, and proofs.
2. `ControlChannel`, and proofs.
3. `RxPipeline` with the engine's life cycle, and proofs.
4. `Site`: START, STOP, Apply, Device menu and quitting across the three components, and proofs.
5. `SitePanel`: configuration, band selector and `config.json`, and proofs.
6. `Tsbk`, `Coding`, `Frame`: field layouts, checksum, codes and symbols against the decoder, and proofs.
7. `Uplink`: `subscriber_test`, its callback and deadline, and the way of a request to its response, and proofs.
8. Proofs: bursts of errors, a fade of 24, NIDs, the counting of `BlocksFound`, `SiteAnnounced`; `ControlChannel` and `RxPipeline` as
   implementations of what `Site` takes a call to be, and `ControlChannel` as one of a schedule.
9. Proofs: `Transmit()` of `subscriber_test` as an implementation of an abstract transfer; saving and loading as one of an atomic file
   as far as it goes; which of the hazards without a property can be given one.
