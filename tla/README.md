# WSPR-ease: a TLA+ model

WSPR-ease is a WSPR beacon: an ESP32-S3 running Zephyr drives an iCE40 FPGA
whose logic makes the RF. This directory holds TLA+ modules translated from the
code under `src/`, TLC configurations for small instances, and TLAPS proofs.
Paths below are relative to `src/`.

## 1. The system

| Component | State it keeps | Operations | Talks to |
|---|---|---|---|
| Register block `FPGA/SPIRegisters.sv` | shift register, bit counter, CONTROL, TUNING, synchronisers | shift, commit, capture on chip select, reset | SPI pins; the exciter |
| Exciter `FPGA/WSPRExciter.sv` | skewed accumulator, overflow prediction, ring, power comparison, gate registers | one clock | register block; the output pins |
| Frequency counter `FPGA/freqCounter.sv` | four digits and their carries, synchroniser, latch | count, latch on PPS | GNSS pulse (not connected in `top.sv`) |
| FPGA top `FPGA/top.sv` | reset synchroniser, PLL | wiring | all of the above |
| FPGA driver `sw/src/fpga.cpp` | `initialized`, `transmitting`, `currentFreq` | init, reset, loadBitstream, setFrequency, startTX, stopTX, setPowerLevel, register access | SPI bus, chip select, CRESET, reset pin |
| Shell `sw/src/shellcmds.cpp` | `sweepRunning`, `sweepContinuous`, the sweep thread | tx, tx stop, tx sweep, fpga *, gnss *, log, fs * | driver, GNSS |
| Main loop `sw/src/main.cpp` | `wasConnected` | start-up, PLL poll, WiFi watch, slot test, each second | all |
| WiFi manager `sw/src/wifiManager.cpp` | state, address, network name, three semaphores | connect, disconnect, event handler, startAP | Zephyr's network thread |
| GNSS `sw/src/gnss.cpp` | line buffer, last line, data, monitor queue | worker loop, parser, slot test | UART, main loop, shell |
| Web server `sw/src/webserver.cpp` | the one request buffer, the configuration, its NVS record, the mount flag | receive loop; GET and PUT of the configuration; GET, PUT, DELETE of files; start | sockets, NVS, LittleFS |
| Captive DNS `sw/src/captiveDNS.cpp` | `running`, `dnsRunning`, socket, thread | start, stop, receive, answer | sockets; nothing starts it yet |
| File system, log manager, band table | mount; a map of switches; constants | | |
| Web client `webui/www/app.js` | form, current and original configuration, `isDirty`, calls under way | load, edit, save, cancel, reload | web server |
| Mock server `webui/src` | configuration, files on the host | upload, delete, put, reset; load and save at start | HTTP library, host |
| HTTP library `webui/src/httplib.h` (vendored) | listener, job queue, worker threads, keep-alive counts | accept, enqueue, serve, shut down | mock server |

What is hard in it:

* **Three threads, no lock in the driver.** main() runs above the sweep thread,
  and that above the shell. Chip select is a pin that each of them writes; only
  the transfer between the two writes takes the bus lock.
* **Two clocks.** The registers change on the SPI clock and are read at 90 MHz
  after the edge of chip select has passed three flip-flops.
* **A 6-bit bit counter** that goes on past the 40 bits of a frame, and is
  cleared only by chip select.
* **A skewed carry pipeline** in the accumulator, and a ring that must stay
  one-hot for the output stage to be safe.
* **Callbacks and time-outs**: WiFi events arrive from another thread while
  connect() waits on semaphores.
* **Lost input**: the GNSS worker throws bytes away during a transmission, in
  the middle of a sentence; `strtok_r` skips the fields a receiver leaves empty.
* **One buffer, cut requests**: the web server receives a request in any number
  of pieces, may see it stop half way, and builds answers in the same buffer.
* **Restarts and failing flash**: configuration in RAM, its record in NVS and
  the acknowledgement change at different times.
* **Overlapping calls**: the form saves and loads asynchronously; the mock
  server's workers have the same file open at once; a signal stops a pool
  whose workers are held by silent connections.

What makes each component correct: the register block shows the transmitter
whole words that were written, and every one of them; the exciter loses no
phase and never opens both halves of the stage; the driver's idea of the
transmitter is the transmitter's state, every command ends and none disturbs a
load; the WiFi manager comes online and stays there; the GNSS module's time is
that of one sentence and is current when there is a fix; the web server keeps
what it acknowledged and serves everyone; the form settles on what the device
holds; the thread pool forgets no connection; the DNS server has one thread
while it is started and none after; an upload nobody overlapped is the file.

## 2. The modules

| Module | Models | State and actions |
|---|---|---|
| `SPIFrame` | the shift register of `SPIRegisters.sv`, and frames as `fpga.cpp` builds them | operators `ShiftIn`, `Released`; a byte per step, words as four bytes |
| `RegisterFile` | **abstract**: what the block promises the transmitter | two registers; Select, Write, Deselect, Publish, Clear |
| `SPIRegisters` | the block register by register | SPI master: Select, Send, Shift, Deselect; `clk_dest`: Tick; ToggleReset |
| `WSPRExciter` | the exciter register by register | Tick (all registers at once), SetInput |
| `FreqCounter` | counter, synchroniser, edge detector, latch | Tick, SetPPS, SetReset |
| `TxControl` | the FPGA driver, three threads, the scheduler, the wire, the iCE40's configuration logic | one action per step of a thread, HwShift for the SPI peripheral, one action per console command |
| `Tuning` | `setFrequency`'s word, the sweep's frequencies, `sendSymbol` | Tune, Sweep, SendSymbol |
| `WifiManager` | `connect`, `disconnect`, the event handler, main()'s retry and watch | one action per access to shared state; Handle for the network thread; the radio external |
| `GNSS` | worker, framing, flush, monitor queue, slot test, `gnss monitor` | one action per step of the worker; CheckSlot for main(); shell steps; receiver and UART external |
| `NMEA` | `parseNMEA`, `parseNMEACoord`, `computeGrid` on whole sentences | HearRMC, HearGGA, HearGSV, over a receiver that leaves fields empty |
| `ConfigStore` | **abstract**: a configuration that survives restarts | Invoke, Perform, Return, Restart |
| `WebServer` | the server thread, its buffer, the handlers, NVS, files, restarts | Accept, RecvFirst, RecvNothing, RecvMore, Dispatch, one action per handler, SaveConfig and WriteFile for the flash, Close, Boot, Restart; clients Ask and Stall |
| `WebClient` | the configuration form over `ConfigStore` | Edit, Save, Cancel, Reload; Load, Saved, Forget and Fail for the answers |
| `HttpServer` | listener, thread pool, keep-alive, stop | one action per critical section of the pool's mutex and one per notify |
| `MockServer` | uploads, deletes, put, reset, start-up and kills | open (with truncation) and write are two actions; files are inodes |
| `CaptiveDNS` | `start`, `stop`, the thread, `buildDNSResponse` | one action per call that may block or change shared state |
| `SPIRegisters_proofs`, `WSPRExciter_proofs`, `TxControl_proofs`, `WifiManager_proofs`, `WebServer_proofs`, `HttpServer_proofs` | theorems about the module of that name | |
| `Parts` | the five parts that share no state with the others: `Tuner!`, `Counter!`, `Parser!`, `DNS!`, `Mock!` | their instances, and the properties checked and proved of them |
| `Timing_proofs` | theorems about `GNSS` and, of `Parts`, the counter, the parser and the tuning word | |
| `Network_proofs` | theorems about `WebClient` and, of `Parts`, the DNS server and the mock server | |
| `MCSPIRegisters`, `MCTxControl`, `MCWebServer`, `MCParts` | constants and scenarios for TLC | |

How they are composed:

* `TxControl` EXTENDS `SPIFrame`, so that its wire is the shift register of the
  FPGA, and instantiates `RegisterFile` for what the transmitter is shown. That
  is sound because `SPIRegisters` implements `RegisterFile` (proved, section 5),
  so the two clock domains need not be carried along in it.
* `WebServer` implements `ConfigStore` (run `web_server`), and `WebClient` runs
  over `ConfigStore`'s Perform and Return in the server's place.
* `Parts` puts the five parts that share no variable with the others side by
  side, and `MCParts` gives them constants and runs them, with `WSPRExciter` as the
  sixth: its inputs are free, so that it needs none of the others. `part`, chosen at
  the start, says which of them moves. An invariant or an action property that speaks
  of one part alone holds of every interleaving if it holds while the others stand
  still, so the run loses nothing against six runs of one part each, which
  `Moving` still allows.

A thread of `TxControl` is the sequence of steps it has left. A call replaces
itself with the steps of the function's body, so each function of `fpga.cpp` is
one operator (`ResetBody`, `LoadBody`, `ModifyControl`, ...) and an early return
skips to a marker. A step is one access to shared state: between any two of them
a thread of higher priority may run.

`TxControl` and `WebServer` take a set `Scenarios`. A behaviour starts in one of
them and keeps it: which commands or requests come, which hardships the world
has, and how many of each. One run thus covers worlds that would be too large
together (three commands, a sweep and a bitstream load; every request in a calm
world, and two requests in a hard one).

Abstractions, module by module:

* `SPIFrame`: bits become bytes. Every transfer is a whole number of bytes, the
  address is in the first of them and the commit on the last bit of the fifth,
  so no event of the RTL falls inside a byte step.
* `WSPRExciter`: 8 segments of 4 bits become `Segs` segments below `Radix`.
* `FreqCounter`: four 7-bit digits become four digits below `Base`.
* `TxControl`: sleeps have no length except that one outlasts a frame; the
  hundred polls of CDONE are a first and a last; the image is `Chunks` chunks.
* `Tuning`: the scale 2^32, the limit 30 MHz and the sweep are constants, small
  in the run and arbitrary in the proof. TLC's integers have 32 bits.
* `WifiManager`: events are handled before the next is raised, and none is
  raised in the microseconds between the reset of the semaphores and the
  request; one that was raised before may be handled there, which the history
  `crossed` notes. Time-outs fire early at most `MaxFaults` times together with other
  faults, and always when no answer can come.
* `GNSS`: a field of a sentence is one symbol; the rest of a line after the
  position and the fix is left out; a minute has `SecPerMin` seconds. The worker
  is done with a byte before the next comes (9600 baud), except in its sleep of
  one second.
* `NMEA`: a field is what the parser looks at and the number `atoi` or `atof`
  finds. A coordinate stands for the double nearest to a number of half minutes
  of arc. The rounding shows in one place: `computeGrid` cuts doubles off, and a
  place on the border of two subsquares falls to the one before it when its double
  is short of the border. Whole degrees, and with them fields and squares, are
  exact, and so are eighths of a degree; which of the other borders come out short
  is the constant `Short`, of which the proofs assume nothing more. In the run it
  has the two that the code's arithmetic gives for the places of the run. HDOP and
  altitude are left out.
* `WebServer`: a request is a few units (line, Content-Length, blank line,
  fields of the configuration or pieces of a file) and TCP cuts it between any
  two; the buffer has `Room` of them and a cell for the NUL. The configuration
  has two fields, one for those that are read by name and one for the bands.
  Requests that only read and do not touch the buffer are left out. A send
  returns at once: the code sets no SO_SNDTIMEO (`webserver.cpp:99, 101, 426`), so
  that a client that stops reading is let go only when the network stack gives up
  on it, and `EveryoneServed` rests on that.
* `WebClient`: three fields, for the inputs, the band switches and the bands'
  time windows. The bands of a configuration are an object that another may
  refer to: a save writes into those of `currentConfig` in place, and only the deep
  copies (`Copy`) keep them apart from those of `originalConfig`. Calls are performed and answered in the order made
  (`InOrder`): the device has one thread and the browser queues on it.
* `HttpServer`: what a request does is in `MockServer`; a connection has a count
  of unread requests.
* `MockServer`: an `ofstream` truncates when it opens and writes when it closes;
  an open inode outlives its name.
* `CaptiveDNS`: a query is its question types and whether an OPT record follows.
  Its thread is cooperative and above its caller.

## 3. The runs

Passing runs:

| Run | Shows | Bounds |
|---|---|---|
| `spi_registers` | The block implements `RegisterFile`; registers hold the payload of one write frame; a write reaches the transmitter unless a reset or the next frame intervenes. | Up to two transfers per window (two threads in one), any reset. The firmware's power, enable and tuning frames and a read. `MinGap` 4 is the smallest for which the capture is safe, the hardware has more than 90. |
| `tx_control` | Registers hold only words the firmware was told to write; while no frame was lost, RF is on only when the driver says so, if no transmission was begun inside a sweep that was told to stop; chip select never rises while bytes are on the wire; of what is entered early, the commands that are guarded leave the bitstream alone. | Five scenarios: three of tx, stop, status, counter; three of sweep, stop, tx with all three threads, over a sweep of one frequency; `tx` while the bitstream loads, then two of reset, flash, tx, with one failing transfer, a bad image and an FPGA that comes up as SPI master; two of the four guarded commands while it loads, and one of them with a failing transfer. Three commands give every pair and a third that meets its result. |
| `tx_ends` | A stopped sweep ends; every command ends. | The first and third scenario above, and sweep and stop over two frequencies. The sweep sleeps between its steps. |
| `wifi` | A connect() that waited for an address returns 0 with one of its own link, unless an event was still to be handled when the semaphores were reset; boot comes to the main loop. | Five faults in any order: refusal, failed join, loss, late answer. |
| `gnss` | What main() takes for a slot is the time of one sentence; a monitor session starts empty; once a transmission is over the time is current again at the end of every second. | Two of: transmission begun or ended, reception changed, monitor session. |
| `web_server` | Each handler sees the beginning of its own request and nothing else; the configuration in use is the one a restart brings back; no client is held for good; in a calm world the server is a `ConfigStore`, and an upload that fits is what its file begins with. | Two clients. Calm: three requests of all five kinds, bodies cut anywhere, a restart. Hard: two requests, two failures (silence, NVS write, mount, file), heads cut anywhere, a foreign record, a restart; and an upload and a download with a file that fails. `Room` 5 takes two of the three uploads. |
| `web_client` | A quiet, clean form shows what the device holds; cancel shows the last load, whatever was typed, saved and cancelled since; a save settles. | Three calls at once, two edits, two saves, a failure, a reload. |
| `http_server` | listen() returns only after every accepted connection was served; no lost wake-up; no connection waits forever; a signal ends it. | Two workers, three connections: one more than workers, so that one is queued behind silent ones. |
| `parts` | *Tuning*: the nearest word below the limit; a sweep reaches both ends. *Exciter*: exclusive gates, phase conserved through the skew. *Counter*: exact while no middle digit is at its last value; `ppsGen` numbers every pulse that reset spares; the latch moves in time and takes the count. *NMEA*: fix, time, position are those told and the grid names the position's subsquare, or on an inexact border the one before it; date and SNR where no field is left empty. *DNS*: one thread while started, none after; plain queries get a reply that can be read. *Mock*: an upload nothing overlapped is the file. | All frequencies of a scale of 1024 over 60; all inputs of the exciter changed at any clock, between two words whose skewed digits, top bit included, all differ, over three segments of base 4, the least with a middle one, whose carry comes in and goes out; the full range of a four-digit counter; four kinds of receivers and places beside and on the edges of fields, squares and subsquares, two of them short; three starts and three queries; three requests, a full disk, a kill. |

Deadlock is checked where the system never stops. `web_server`, `web_client`,
`http_server` and `parts` have bounded clients, calls and requests, after which
nothing is left to do; their configurations switch the check off.

The type invariants of the modules other than `SPIRegisters` hold on the same
instances; they are not among the runs' properties. `INVARIANT TypeOK` in a
configuration checks them.

Runs that find a disagreement between the code and what it says:

| Run | The code | What it says |
|---|---|---|
| `tx_stop_lost` | main()'s poll raises chip select between the shell's chip-select low and its transfer; the write of txEnable = 0 is lost and RF stays on | `TX stopped`, `shellcmds.cpp:83` |
| `wifi_lost` | a connection lost between connect()'s return and main()'s first look is never made again | `Monitor WiFi connection and reconnect if needed`, `main.cpp:162` |
| `gnss_slot` | a GGA sentence makes the data valid while the time is still 00:00:00, a transmission slot | `Check if we're at the start of an even minute`, `gnss.hpp:76` |

### Known divergences kept for reference

Each of these configurations ends in a violation of its property, which states
what the code or its docs say. Where configurations differ in nothing but
the property or the part that moves, one file names one of them and the others in
a comment beside it:

| Configuration | Property | The code |
|---|---|---|
| `MCTxPowerLost` | `PowerAsTold` | CONTROL reads as 0, so startTX() writes power 0 over the level just set (`fpga.cpp:252`, `shellcmds.cpp:138`, `doc/FPGA.md:59`) |
| `MCTxSlave` | `SlaveAfterReset` | main()'s poll raises chip select during the reset pulse: the FPGA leaves reset as SPI master (`fpga.cpp:127`, `app.overlay:176`) |
| `MCTxEarly` | `BootIsAlone` | `fpga flash` entered while main() loads the bitstream resets the FPGA under it and mixes its chunks with main()'s: reset() and loadBitstream() do not look at `initialized` (`fpga.cpp:123, 143`, `doc/SYSTEM_NOTES.md:66`) |
| `MCTxTwoSweeps` | `OneSweepThread` | `tx stop`, `tx sweep` within one sweep step creates the thread object of a living thread (`shellcmds.cpp:101`) |
| the same | `RFOnIsKnownToAll` | sweep, stop, sweep: the stopTX() of the sweep that was told to stop runs inside the startTX() of the next; RF stays on and `transmitting` is false (`fpga.cpp:246-268`, `shellcmds.cpp:45`). Three of sweep, stop, tx do the same |
| `MCWifiLost` | `OnlineIsLeased` | an event that is handled after the semaphores were reset passes for the new attempt's, and `ipAddr` of a lost connection for an address: connect() returns 0 without a lease (`wifiManager.cpp:134, 173, 188`) |
| `MCWSPRExciterCode` | `CodeIsOverflows` | the two bits of the overflow code belong to different steps of the accumulator (`WSPRExciter.sv:60, 74`) |
| `MCPartsCode`, `Moving = {"counter"}` | `CountsClock` | the carry into the third digit comes a digit early (`freqCounter.sv:29`) |
| `MCTuningCode` | `TuningIsFreq` | at 30 MHz, the last step of a sweep, the quotient is 2^32 and the word 0 (`fpga.cpp:241`) |
| the same, `MaxSymbols = 2` | `ToneIsFromBase` | `sendSymbol` counts each tone from the last one (`fpga.cpp:286`); nothing calls it |
| `MCPartsCode`, `{"parser"}` | `DateIsTold` | a receiver at rest leaves the course empty and the date is not read (`gnss.cpp:220`) |
| the same | `SNRIsTold` | a satellite without an SNR moves the fields: numbers of satellites enter the average (`gnss.cpp:279`) |
| the same | `GridIsMaidenhead` | the doubles are cut off: 5 minutes north of the equator, and about half of the borders of subsquares that are no eighth of a degree, fall to the subsquare to the south or west (`gnss.cpp:196, 341-342`) |
| `MCWebAcked` | `AckedIsStored` | NVS refuses the record and the answer is ok (`webserver.cpp:351`, `doc/SYSTEM_NOTES.md:68`) |
| `MCWebPartial` | `AckedIsStored` | half a body is handled as if it were all, and answered with ok (`webserver.cpp:641`) |
| `MCWebUpload` | `UploadIsFile` | a shorter upload keeps the tail of the longer file (`webserver.cpp:440`) |
| `MCWebTooLong` | `UploadIsFile` | a request longer than the buffer is cut and answered with ok (`webserver.cpp:639`; `www/index.html` is 5806 bytes) |
| `MCWebLayout` | `OtherLayoutIsDefault` | nvs_read copies a record of another size before its size is looked at (`webserver.cpp:220-227`) |
| `MCWebClientEdit` | `TypedIsDirty` | what is typed while a load is under way is overwritten (`app.js:46, 75`) |
| `MCWebClientWindow` | `WindowIsKept` | a band's time window is dropped by the device and gone from the form after a save (`app.js:213`, `webserver.cpp:333`) |
| `MCWebClientReorder` | `QuietIsTruth` | over connections that are not answered in order the form may keep an old configuration |
| `MCHttpStop` | `StopFindsSocket` | a second signal while the pool drains fails the assertion of `httplib.h:7878` |
| `MCPartsCode`, `{"mock"}` | `ConfigPersists` | `fromJson` is a stub, so the defaults replace what is stored at each start (`config_manager.hpp:160`, `webui/README.md:177`) |
| the same | `PutIsTaken` | for the same reason every PUT is refused (`api_server.hpp:213`, `webui/README.md:43`) |
| `MCPartsCode`, `{"dns"}` | `ReplyParses` | an answer is announced for a question that gets none; the OPT record of an EDNS query stands where the answer should (`captiveDNS.cpp:71, 93`) |
| the same | `StoppedIsOver` | stop() returns after two seconds with its thread alive (`captiveDNS.cpp:250`) |

Others seen while modelling: with `tx sweep 0 continuous` the sweep never sleeps
and the shell below it never runs again (`SweepSleeps = FALSE`, `CommandsEnd`
fails). Two things make `OnlyCommandedWords` say less than one would
like. After a read of CONTROL that fails, the driver changes one field of an
uninitialised `WSPRControl` and writes all of it (`fpga.cpp:252-255`), so it
speaks of behaviours without a failed transfer. And three transfers in one
window wrap the bit counter: of a sweep, `fpga status` and main()'s poll the
third begins where the second ended inside a write, and completes it with its
own bytes (`lost.inside`, a word such as <<41, 0, 0, 0>> that nobody wrote). With `fpga
counter` entered during FPGA::init() `BootIsAlone` fails as it does with `fpga
flash` (`MCTxEarly`), and with either `FrameNeverCut` does; with `fpga reset`
the first fails: the guard on `initialized` is only in the functions that `tx`,
`tx sweep` and `fpga status` use. An
accept() that keeps failing is retried at once by a cooperative thread
(`webserver.cpp:624`), and reset() writes the mock's configuration while
toJson() may read it (`api_server.hpp:97`): neither is in a model. At 180
degrees east and at the north pole the grid's field is the letter S
(`gnss.cpp:331`), which `GridNamesPlace` excludes.

## 4. Fairness

* `WF(Tick)` in `SPIRegisters`: `clk_dest` runs freely. The master owes nothing:
  it may stop anywhere, and no property depends on it.
* `TxControl`: `WF(HwShift)` (the peripheral finishes), `WF(Wake(t))` (timers
  expire), `SF(ThreadStep(t))`: main() and a sleeping sweep use microseconds of
  every second, so a lower thread that can run again and again does run. The
  fairness is of a thread, not of a step: it forces no command and no failure,
  and a sweep that does not sleep still starves the shell under it.
* `WifiManager`: main() and the network thread go on; past its faults the radio
  joins and the DHCP client gets its address.
* `GNSS`: the worker runs when it is not asleep, its sleep ends, seconds pass
  and bytes are sent. `CatchesUp` assumes in its premise that transmissions end
  and the fix stays.
* `WebServer`: `WF(Serve)`, the one thread goes on: a recv returns or times out
  after 2 s. Clients owe nothing: they may fall silent, and `EveryoneServed`
  holds all the same because of the time-out.
* `WebClient`: `WF(Net(i))` for each call: the server performs it and the
  browser is told of its end. The user owes nothing.
* `HttpServer`: `WF(Listener)` and `WF(Work(w))`: threads are scheduled, and the
  keep-alive time-out of 5 s is part of `Work`. Connections owe nothing.
* `WSPRExciter` and the parts of `MCParts` have none: only safety is claimed.

`wifi_lost` is a temporal counterexample and is found under this fairness. The
other disagreements are violated safety properties.

## 5. What is proved

Each theorem holds for every value of the constants that meets the assumptions
named in the modules; where a theorem needs more, its own ASSUME says so and it
is named here. Two kinds of bounds stay in the actions the theorems speak of,
each a constant with no upper limit: counters of what the world may still do
(commands, faults, requests), and the lengths of queues and buffers.

### The register block and the wire

* `TypeCorrect` (`SPIRegisters_proofs`): `TypeOK` is inductive. It rests on
  lemmas on the operators of `SPIFrame` (`ShiftInType`, `ReleasedType`).
* `RefinesRegisterFile`: every behaviour of `SPIRegisters` is one of
  `RegisterFile`, for any set of frames, any number of transfers in a window,
  late starts, and any pace of the master of at least four ticks
  (`MinGapAssumption`). A Tick with a rising edge in the synchroniser loads
  `sync`, which is a stutter; the next one moves it to `out` and is Publish.
  That is right only if the registers have not changed since the capture, which
  needs the inductive invariant `Pipeline`: as a function of `gap`, the ticks
  since the master's last event, it says where the edge of chip select stands
  in the three flip-flops and, once it has passed, that `sync` or `out` is the
  present snapshot. With fewer than four ticks it fails.
* `RegistersHoldOneFrame`: `OneFrameOneWrite` for every set of frames, assuming
  at most two transfers in a window, none of which starts cut. `WindowInv`
  follows the first frame byte by byte, and of the second it says that it lies
  at bytes 5, 6, 7, 0 and 1 of a count that wraps at 8, so that the byte which
  commits is never among its own. With a third transfer the invariant, and the
  property, are false.
* `WordsAreCommanded` (`TxControl_proofs`): `OnlyCommandedWords`, for every set
  of frequencies, levels and scenarios, any number of commands and any sweep.
  `ShiftInv` relates the shift register to the rest of the transfer on the
  wire: inside a write, the bytes in the register and those to come are a
  word that was commanded, or too few bytes are left to complete the frame.
  `ShiftTakes` keeps it under each byte. That what comes next is such a
  transfer needs an invariant on the code of the threads: `CodeInv` (what every
  step that is left may hold, that the steps of a load come first and are
  followed by its return, and that a wait is always the first step) and
  `BusInv` (the bus is held by the thread that waits for its transfer, and by
  nobody else). `WireInv` adds that the copies of CONTROL the threads keep are
  such words, and that the bit counter is at 0 outside a window. The proof has
  one lemma for each kind of step.
* `FramesAreWhole` (`TxControl_proofs`): `FrameNeverCut`, for any number of
  commands, failing transfers and chunks, if every command entered during
  FPGA::init() is one of tx, tx stop, tx sweep and fpga status (see section 3 for
  the others). A thread that raises the chip select under another's transfer
  would have to be above it, and could have run when the transfer began; so the
  thread has to have been asleep, or behind its own transfer. `CutInv` says why
  neither can be: outside FPGA::init() a frame ends right behind its transfer
  (`Tight`), so that a thread asleep is not about to end one (`AsleepInv`) and no
  thread above the one that holds the bus is (`AboveInv`); inside FPGA::init(),
  where reset() sleeps with the chip select low, the other threads have no step
  that reaches the wire (`PhaseInv`). `Allowed` is what a step may do to the code
  of its thread for that, and most steps are shown to keep `CutInv` by it alone.
* `BootIsUndisturbed` (`TxControl_proofs`): `BootUndisturbed` in every scenario,
  for an image of any number of chunks and whatever fails. The property itself
  asks that what has been entered early is one of the four commands; the invariant
  holds as long as that does, since a command once entered early stays so. `Boot`
  says that what main() has left to do is FPGA::init() from some place on,
  behind at most two steps of a call, and `Place` what that place says of the
  FPGA: how much of the image it has, that nobody else is its loader, that chip
  select is low when CRESET rises, which byte of the image is on the wire.
  `PhaseInv` keeps the other threads off the wire until then, so that only
  main()'s steps and the peripheral move the place (`MainOps` has the few that
  are possible there).
* `RFIsKnown` (`TxControl_proofs`): `RFOnIsKnown`, for any number of the commands
  tx, tx stop, fpga reset, fpga flash, fpga status and fpga counter and any
  failing transfers, under the same assumption on the commands entered early, if
  no scenario has a sweep. The property speaks of rest; the invariant `RFInv` has
  to speak of every moment. It says where the shell is (`Known`): in code that
  begins no write, on the way to light the transmitter, on air, or at one of the
  eleven places of `tx stop` (`Stop0` to `Stop10`), and at each of them what the
  flag, the write on the wire (`Arriving`, `Shutting`) and the register (`Shut`,
  `Dark`) are worth. Between the cleared flag and the write that arrives, RF is
  on and the driver denies it: the places 1 to 9 are why the property has to
  wait for rest. Lost frames are excepted because main()'s poll can take the
  write away (run `tx_stop_lost`). With a sweep there are two threads that light
  and darken, and the invariant does not hold: that part stays with TLC. The
  property excepts a tx or tx sweep entered while a sweep that was told to stop
  still lives (`cmds.overlap`), after which RF may be on unknown (section 3).

### The exciter, the tuning and the counter

* `RingOneHot`, `GatesNeverShootThrough` (`WSPRExciter_proofs`): from `GateInv`,
  one-hot ring and safe gates in both rows of output registers. The ring is
  needed because gates are computed from the ring of the clock before; on a
  one-hot ring any of the enables gives safe gates (`HotIsSafe`), and each
  overflow code maps it to a one-hot ring (`AdvanceHot`), code 3 included.
* `WidthsAreKept`, `NoPhaseIsLost` (`WSPRExciter_proofs`): the type invariant, and
  `PhaseConserved`, for any number of segments and size of a digit. Each segment
  adds its digit of W a clock after the one below it, so that the accumulator as
  it stands in the registers is not the phase; the phase counts the carries
  between the segments. It is a sum over the segments, and the proof goes by
  induction on the lower n of them (`PartStep`): what they hold after a clock and
  the carry out of them are what they held before and the lower n digits of W.
  The library's theorems on induction and recursion take operators, so the module
  has its own over sets: `NatAll` (a set with 0 and every successor is Nat) and
  `Recursion` (a function is defined by a set of steps).
* `Tuned` (`Timing_proofs`): for every scale and limit, the code's 2^32 and
  30 000 000 among them, and every sweep, the word the driver has written last is,
  below the limit, the nearest one from below to the frequency it holds. The
  argument is on division:
  `DivBounds`, then `QuotientFits` (below the limit the quotient is less than
  the scale, so that cutting it to 32 bits loses nothing) and `WordIsNearest`.
  The invariant `TunerInv` needs both conjuncts because `sendSymbol` starts from the
  frequency that was stored before. The proof assumes unbounded integers for
  the product; in the code it has 64 bits and stays below 2^57.
* `SweepIsCovered`: `SweepCovers`, whether or not the steps divide the span,
  from the monotony of the quotient (`DivIsMonotonic`) and the invariant that the
  driver's frequency is that of the step (`AtStep`).
* `CountIsExactOffCarry` (`Timing_proofs`): `ExactOffCarry` for digits of any
  size. The carries are registered, so that the upper digits run ahead of the
  lower ones; `CountInv` says when each of them does (`Ahead2`, `Ahead3`), and
  that the digits without that lead spell the number of ticks.
* `EachPulseIsNumbered`: `PulsesAreNumbered`, assuming that a level of PPS lasts
  three ticks, the stages of the synchroniser with its edge detector. `pulses`
  counts the edges of PPS as reset lets them through, without a look at the latch;
  the theorem says that `ppsGen` is that number from the third tick of a pulse on.
  `PulseInv` says, by the ticks since the last edge, how far it has come; a reset
  may fall anywhere.
* `CountIsLatchedInTime`: `LatchIsTimely`, from `PulseInv` (when the latch moves)
  and `CountInv` (what it then takes), for digits of any size.

### Time, WiFi, DNS

* `SlotsAreOfOneSentence`, `MonitorsStartFresh` (`Timing_proofs`): main() reads
  minute and second while the worker may be between storing them. `SlotInv`
  says how much of the sentence is stored at each place of the worker, and that
  the worker has the lock at all of them, which `isTransmissionSlot` takes too.
  The monitor's queue is empty at a session's start because the worker puts only
  while the flag is up (`MonitorInv`), for a queue of any length.
* `FixIsHeard`, `FullSentencesAreHeard`, `GridIsOfPlace` (`Timing_proofs`):
  `FixIsTold`, `FullSentencesAreTold` and `GridNamesPlace`, for every set of times,
  dates, places and SNRs, any mix of receivers and any sequence of sentences.
  `strtok_r` skips empty fields, so which field a token is depends on which were
  left empty before it; the proof counts the filled fields of each sentence up to
  each token the parser asks for, and of a GSV sentence, up to the last of its
  satellites. The locator's part is arithmetic: at every place short of the pole
  and the antimeridian field, square and subsquare are in range, and the place is
  in the subsquare they name, or on its northern or eastern border. Which of the
  borders that no double names exactly fall short is a constant (`Short`), and the
  theorem holds for any choice: the code is a subsquare off there at most, by one,
  and nowhere else. `NMEAInv` joins the three, and adds that after a
  position the locator is that of the position.
* `AddressesAreOwn` (`WifiManager_proofs`): `AddressIsOwn` for any number of
  faults: the address connect() has waited for is a lease of the link that stands.
  `WifiInv` says for each event that waits to be handled whether it belongs to the
  attempt under way. An event raised before the semaphores are reset and handled
  after (`Window`) passes for the new attempt's; the history `crossed` notes that
  one was waiting at a reset, and the theorem speaks of the other attempts. That
  the code has no defence there is `OnlineIsLeased` (section 3).
* `OneThreadAtMost`: `OneThread` for any number of starts, stops and queries.
  `ThreadInv` speaks of all threads ever created: as long as no stop() gave up
  waiting (`late`), all but the last have ended.
* `PlainQueriesAreAnswered` (`Network_proofs`): `PlainQueryAnswered`, for queries
  with any number of questions, any room in the reply and any number of threads.
  `AnswerInv` carries the query from the inbox to the buffer of the thread that
  holds it, since each thread has a buffer of its own; in the reply to a query of
  address questions alone, the records counted in the header are those that
  follow.

### The web

* `UsedStaysStored` (`WebServer_proofs`): `UsedIsStored`, from `StoredInv`.
* `OwnRequestOnly`: `OwnBytes` for every buffer of at least five units, every
  set of clients and uploads, every cut and every failure. `BufferInv` says how
  much of the request at hand is in the buffer and how much is on the wire; it
  needs `ClientInv`, that an open connection stands in the backlog once or is the
  one being served, since otherwise a request could be read twice.
* `UploadsLead`: `FittingUploadLeads` in a calm world (one in which nothing
  fails), from `CalmInv`: a PUT has been received whole, or as much as fits.
* `ConfigIsAStore`: the safety half of `ImplementsConfigStore`: Init and every
  step of the server map to `ConfigStore`'s, under the refinement mapping of
  `WebServer`. A PUT takes effect when it is saved, a GET when it is answered;
  the abstract step needs `CalmAnswer`, that until then no answer was decided.
* `CancelBringsBack` (`Network_proofs`): `CancelRestores`. The page's band lists
  are objects that its two configurations refer to, and a save writes into the
  one it sends; `kept` is what the last load brought, by value. `BandInv` says
  that the list `originalConfig` refers to is never the one that is written, which
  the copy at each load and each cancel brings about, so that it still says
  what it said.
* `QuietFormIsTruth`: `QuietIsTruth`, assuming `InOrder`. `QueueInv`: the calls
  performed are ahead of the others; `TaskInv`: what the page still waits for;
  `TruthInv`: an answer to a load is what the device holds unless a save behind
  it has been performed. Without `InOrder` the property is false
  (`MCWebClientReorder`).
* `WakeupsArrive`, `NoneLeftBehind` (`HttpServer_proofs`): for any number of
  workers and connections. `NoLostWakeup` is inductive once it counts: while
  somebody waits, the jobs are no more than the workers that are awake and the
  notification under way. `Accounted`: a connection that was accepted is in the
  queue or in the hands of a worker, and a worker ends only when nothing can
  come in and the queue is empty.
* `QuietFileIsWhole` (`Network_proofs`): `QuietFileIsUpload` through full disks
  and kills. `InodeInv` (no two names share an inode) and `WriterInv` (an upload
  nothing overlaps has its file, truncated, to itself) make `QuietInv` inductive.

### What is only model-checked

* Liveness: `PublishedAfterDeselect`, `CommandsEnd`, `SweepEnds`, `ComesOnline`,
  `CatchesUp`, `EveryoneServed`, `SaveSettles`, `EveryJobEnds`, `StopReturns`, and
  the liveness half of `ImplementsConfigStore`. The prover has no rule for
  fairness or ENABLED.
* `RFOnIsKnown` where a sweep is among the commands: in `tx_control` for
  any three of sweep, stop and tx, over a sweep of one step.
* The type invariants, except those of `SPIRegisters`, `Tuning` and `WSPRExciter`,
  which are proved.

## 6. What is not modelled

* The HTTP library beyond its concurrency: parsing, routing, TLS, the client
  half, compression, multipart and ranges. It is vendored code, and with 13 303
  of the 17 997 lines of the repository's implementation it is most of it; the
  models cover about two fifths of the rest.
* `startAP` of the WiFi manager: no code starts the access point.
* `setLPFBand` of the driver, a stub; the power-good wait, which goes on in
  either case; unixTime, HDOP and altitude of the GNSS module.
* Status, version, listing and static pages of the web server and of the mock
  server, and the page's status poll: they read and answer. `WebServer::stop()`
  and the mock's backups: nothing calls them.
* The PLL lock gate of `top.sv`; the simulation models and test benches;
  generated register headers and flashing tools; hardware design.
* Log manager, band table, the printing commands: no state a property is about.
  File system: a mount call, external to `WebServer`.

## 7. Plan

1. *Done:* `SPIFrame`, `RegisterFile`, `SPIRegisters` and the refinement; `TxControl`;
   `WSPRExciter`; `FreqCounter`; `WifiManager`; `GNSS`; first theorems.
2. *Done:* `ConfigStore` and `WebServer` with failures and restarts; `WebClient`;
   `HttpServer`; `MockServer`; `NMEA` and `Tuning` against what they should
   compute; `CaptiveDNS`; `Tuned`.
3. *Done:* the proofs of section 5.
4. The access point, with `CaptiveDNS` started and stopped by it, when the
   firmware does so.
