# Verification of the ESP32 grblHAL driver with embroidery extensions

The repository is a driver that runs grblHAL, a CNC motion controller, on ESP32 boards, with its author's additions for
an embroidery machine: a closed-loop motor, a linear motor, custom M-codes and a board-to-board SPI link. The
grblHAL core, its networking plugins and the embroidery plugin are git submodules that are empty here; what they do is
taken from how the driver uses them, and is external to these models.

This directory holds TLA+ models of the parts where tasks, cores and interrupts share state, the TLC configurations
that check them, and TLAPS proofs of what matters most.

## The system

| Part | State it keeps | Who touches it | What makes it correct |
|---|---|---|---|
| SPI command link, `rahman/spi` | numbered packets, a pool of receive buffers, a work queue | master task on one board; receive task and consumer on the other; a wire that may move nothing | each line at most once and in order; no buffer lost or shared; a flush discards what came before it |
| UART streams, `uart_serial.c` (USB: `usb_serial.c`) | ring buffer, overflow flag, installed real-time handler | receive interrupt and grbl task, without a lock | no character lost, doubled or reordered; losses flagged; a cancel empties the buffer |
| Settings, `nvs.c` | a flash sector; the diverted real-time handler | grbl task, while the interrupt goes on | the handler comes back; real-time commands stay out of the line buffer |
| Spindle motor, `motor_control.c` | target speed, gains, observer, filter, duty, pulse counter | grbl task sets the speed; a 1 ms timer task runs the controller on the other core | a stop takes the power away for good and leaves nothing behind for the next start; gains fit the target |
| Limit inputs, `driver.c` | GPIO interrupt enables, delayed debounces | interrupt, debounce 40 ms later, grbl arming inputs for homing | no armed input is deaf; no closed switch is missed |
| Bluetooth stream, `bluetooth.c` (`bluetooth_le.c`) | session, queue of memory chunks, `tx_busy`, the suspended task | writers, `pollTX` on another core, the stack's callback | one owner per chunk; order; one write at a time; the session ends with its link; the queue drains |
| Delay timer, `driver.c` 584-623 | one software timer | grbl task, timer task | a delay re-armed by its own callback is not deleted |
| I2S output, `i2s_out.c`, and its stepper functions in `driver.c` | DMA descriptors and buffers, the status, the port and the constant that is shifted out | DMA and its interrupt, the refill task (which calls the stepper), grbl task, interrupts | pins follow the port; pulses sent once and not dropped; streaming ends; the step timer never writes into a stream |
| Spindle, coolant, settings, `driver.c` | PWM, direction pins, configuration | grbl task | sequential; few hazards |
| Linear motor, `custom/linear_motor.c` | PID state, running flag | timer task, grbl task | a stop leaves the idle voltage (compiled out in `my_machine.h`) |
| Home search, `custom/custom_mcode.c` | position, rates | grbl task | ends, and leaves the axis where it found the sensor |
| I2C, `i2c.c` | queue of expander writes | interrupt, I2C task | last write wins; none is lost |
| Timers, `timers.c` | claimed flags, timer configuration | any task | one claim per timer; a single shot fires once |
| Ring queue of lines, `rahman/buf/buf.c` | indices of signed bytes | one producer, one consumer | order; the critical sections are commented out |
| WiFi, `wifi.c` | mode, connection bits, running services, poll timeouts, two copies of the station's configuration | IDF event task, TCP/IP task, callers of `wifi_ap_connect` and `wifi_ap_scan` | services are polled as long as there are any; the copies agree |
| Ethernet, DNS, MQTT, `enet.c`, `dns_server.c`, `mqtt.c` | connection, services | IDF event task | as for WiFi |
| I/O ports, Trinamic drivers, LED strips, file systems, boards, start-up | pin tables, registers | grbl task | sequential or pure I/O |

`PROJECT.json` lists every component with its status, and every hazard of the code with the property that
covers it or the reason why none does.

## Modules

### CommandChannel
The abstract specification of the SPI link: a master reads lines from a source, some enter a bounded queue in increasing order,
a consumer takes them out, a discard removes them. It contains its own proof that deliveries are in order.

### BoundedFifo
The abstract specification of a receive buffer: a queue of `Capacity` characters and an overflow flag, with operations that are atomic. Only a full queue refuses a character. The
promise ends (`broken`) when a cancel strikes in the middle of a call. `SerialStream` implements it, with what lies between tail and head as the queue.

### ChunkLine
The abstract specification of the Bluetooth output: one line of chunks. Writers join its end, chunks leave from its front to be sent or lost, and the end of a session throws some away; none overtakes another
and none is sent twice. `BluetoothTx` implements it, with what `pollTX` has gathered, holds over and has taken, followed by the queue, as the line.

### SpiLink, SpiLinkProofs
`spi_m.c` and `spi_s.c`. An iteration of the master's loop touches only its own variables and the wire,
so it is one action at the instant of its transaction (`LineExchanged`, `LineMissed`, `LineFailed`, and the same for flushes).
The receive task has a program counter, `spc`: it prepares the reply, takes a buffer, is armed, has received, or flushes;
`FlushOne` is one turn of the flush loop, and the consumer's two calls interleave with all of it. A transaction needs an armed buffer; without one,
the master still sees `ESP_OK`. `nextLine`, `line` and `check_flush_condition` are declared
and never defined in the repository: the line is a number, and a flush may be requested at any time. `packet_done`
is left out because the master never reads it.

### SerialStream, SerialStreamProofs
`uart_serial.c` and the part of `nvs.c` that changes the real-time handler. `uart_isr` is the interrupt for one character
and is atomic for the task it interrupts; `serialRead`, `serialFlush` and `serialCancel` are split at every access to
the shared buffer, because the mutex macros are empty in the build (line 51). Characters are numbered on arrival and have
a kind: text, a control character both handlers take out, a command only the standard handler takes out, and the one that cancels.
`OverflowIsr` is a run of the interrupt that finds no character, only the overflow of a FIFO that was reset meanwhile; a flush resets the FIFO, reads the head and stores it in the tail as three steps (`FlushFifo`, `FlushHead`, `FlushBuffer`).

### MotorControl, MotorControlProofs
`set_adrc_spindle_speed` with the stores of `set_modifiers` one by one, and `adrc_spindle_ticker`
at every place where it reads the target or a gain. A speed is kept only as far as `set_modifiers` tells speeds
apart, a gain is the zone it was computed for, the measured speed a small number of levels, the duty zero or not zero. What the control law asks for may be negative or too
much, and is clamped (`Clamped`). `previous` and `recent` remember, for a property, the zones the target has been in.

`spindle_logging_ticker` runs in the same timer task, so no tick begins while it writes a line: each character waits in `serialPutC` for room in the
transmitter (`LogPut`), or is given up when the blocking callback says so (`LogGivesUp`). Only the length of the line is kept. Other writers and the
transmitter itself are external (`OthersWrite`, `RoomReturns`). That `serialPutC` tests for room and then writes, without a lock, while another core does the same
(`uart_serial.c` 553-569) is not in this model: a character is written when there is room.

### PinInputs, PinInputsProofs
`gpio_isr`, `pin_debounce` and `limitsEnable` for limit inputs. `task_add_delayed` may refuse a task, in which case the
interrupt calls the callback at once. `DebounceTest` and `DebounceEnable` are separate because a switch may move between them.

### BluetoothTx, BluetoothTxProofs
The transmit path of `bluetooth.c`. `pollTX` is split at each call that another task can get in front of;
`esp_spp_cb` handles one event at a time and is split where it lets others run. A chunk is a number with a length, a
writer and an age (the number of flushes before it). The connections, the completion of a write and congestion are the stack's, hence external.
`pollTX`'s branch for a chunk longer than its buffer is left out, since no chunk is (250 < 256); the module states this as an assumption.
`BLUETOOTH_ENABLE` is off in `my_machine.h`; the file is part of the driver for the original ESP32.

### I2sOut, I2sOutProofs
The ring of DMA buffers of `i2s_out.c` and the stepper functions of `driver.c` that use it. `next` holds the descriptors' links and `after` the descriptor
that the DMA has loaded ahead, so that cutting the chain takes effect one buffer late, as in the hardware. `i2s_out_intr_handler` is
one buffer sent and its interrupt. The refill task takes a buffer (`StartFill`, `CutChain`, `TailFound`, `ClearBuffer`: one per branch of its loop) and, while it fills one, runs the
stepper's callback, which may put pulses in it or end the motion. The grbl task starts motions, ends them, changes the mode and writes a pin in two steps; an interrupt may end a motion at any point.
A buffer is empty, or holds the port's bits, pulses, or pulses that were sent.
One pin stands for all, as nothing in the code relates pins to one another.

Time is counted in buffers. `hal.delay_ms` is a sleep, also inside the critical sections of `i2s_out.c` that call it: the
spinlock belongs to the core, and all the tasks run on one. A delay of `I2S_OUT_DELAY_MS` is one buffer more than the ring (`i2s_out.h` 66). `InTime` says what
the scheduler provides: sleepers wake up in time, and the refill task is at most `MaxBehind` buffers behind while it does not sleep.
`SetMode` happens when the callback that ended the last motion has returned, which the core ensures by waiting for the machine to be idle; without it `DirectInPassthrough` fails.
`astray` records that the DMA met the buffer being filled, or that a restarted chain still has the queue of the old one (`i2s_out.c` 619-628 does not empty it).
The variant for the ESP32-S3, `i2s_out_s3.c`, has a ring and a queue of its own over another DMA engine and is not modelled.

### WiFi, WiFiProofs
`wifi.c`. A handler is split where another task can see the middle of it: between `start_services` and its poll timer, and between
the two copies of the configuration. The driver (`esp_wifi_...`), the DNS responder and what the radio meets are external: joining
succeeds or fails, networks and clients come and go, scans end. The driver refuses a configuration while it is joining. Services that need polling are one, those that do not are the web server (with mDNS and SSDP) and DNS.

`wifi_start` (658-809) is one step, since no event arrives before the driver has started, with each place where it may return false as a disjunct: while it initialises the driver (`InitFails`), while it sets up the access point (`ApFails`; a
failure at 743 leaves the mode set and the bit of the mode with both interfaces unset), between the two copies of the station's configuration (`StaFails`), and where the driver does not start. `settings_changed` calls it
until it has returned true (`driver.c` 2807-2808), and the settings may change between two calls (`ChangeSetting`); once it has returned true, neither setting is read again. A name longer than the driver's field (`Long`) is
cut short in `wifi_sta_config` and makes `wifi_start` return false. In the mode with both interfaces the driver is in its mode by then (740), so that the next call skips the configuration (701, 752), starts the driver,
and `STA_START` joins with what the driver had: `wifi_sta_config` then names a network that nobody told the driver, and `untold` says so.
`wifi_stop` has no caller but a commented-out case of the event handler (line 499), and is taken as a call of the event task. The list of networks is known by who holds its mutex and whether a result is published;
the other settings, addresses, host names and the MQTT connection are left out. `wifi_ap_connect` is called in the modes with a station only, and with a name that fits: its only caller is in a submodule, and `ssid_t` is declared there.

Definitions named `Bug...` are plausible mistakes in the definition below them. No specification uses them; each shows that a
property would notice the mistake (`PROJECT.json`, "mutants").

## Runs

| Run | Bounds | What it shows |
|---|---|---|
| `spi_link` | queue of 1 (pool of 3), 4 lines, all faults, flushes any time | pool ownership, flushes and acknowledgements hold, and the link implements `CommandChannel`; 5.1 million states |
| `spi_live` | queue of 2, 5 lines, driver errors on both sides | a line once sent as a command is accepted in the end |
| `spi_skips` | queue of 2, 6 lines, no fault | **violated**: lines are skipped (see below) |
| `serial` | ring of 4, FIFO of 1, 4 characters | order, no silent loss, flagged overflow, handler restored, and the ring implements `BoundedFifo`; 5.6 million states |
| `serial_cancel` | the same | **violated**: a cancel in the middle of a read is undone |
| `motor` | one speed per zone and 0; 2 levels of measured speed; logged lines of 2 characters | stops, clean state, gains, also with a timer task held up by its own log; safety and liveness; 914 thousand states |
| `pins` | 2 inputs, homing with none, one or both, 2 waiting debounces each, 4 presses | no deaf input, no lost press, presses reported |
| `pins_homing` | the same | **violated**: an input taken out for homing interrupts |
| `i2s` | ring of 3, 1 buffer behind, 2 motions, 2 other calls | pins follow the port, pulses are sent once and kept, the chain runs out, the step timer never meets a stream; 209 thousand states |
| `i2s_lapped` | the same ring, 1 motion, no other call | **violated**: the DMA reaches the buffer that is being filled |
| `wifi` | 2 names, one of them too long, and none; 4 modes; 2 happenings, 2 calls; any number of failed starts | polled services, an end of polling, agreeing configurations; 5.2 million states |
| `bluetooth` | queue of 2, buffer of 3, chunks of 0 to 2, 3 chunks, 2 connections | ownership, one write at a time, session ends, queue drains, and the path implements `ChunkLine`; 1.6 million states |

Why the bounds are enough. *SPI*: what distinguishes cases is a full or free queue, and a buffer that is free, queued, held or armed; a queue
of one makes "in sequence, but full" happen. Four lines allow two deliveries, a flush and two deliveries after it.
The identifiers are unbounded and limited only by the lines: they do not wrap before 2^32 lines. The proofs remove the bound on capacity and lines. *Serial*: a ring of four holds three, so four
characters fill it, overflow the FIFO and wrap both indices. *Motor*: zones are all that the code tells apart; two levels
make the filter need more than one tick to die away, and a line of two characters can lose its room half way. *Inputs*: two inputs are needed for an interrupt that handles two
at once, of which one is refused; two debounces of one input arise by arming it again. *Bluetooth*: two chunks of length 2
do not fit a buffer of 3, one of each length do; three chunks fill the queue while one is in `pollTX`; the second connection is both the second attempt and the second session.
*I2S*: a ring of three has one buffer being sent, one loaded ahead and one with the task, the least that distinguishes them; two motions let a stream
start while the last one runs out, two calls put a reset or a pin write into it. A ring of four with a task two buffers behind was checked by hand.
*WiFi*: with a network, none, and one whose name does not fit, a request can differ from what is configured, and `wifi_start` can fail half way and be called again as often as it likes; two happenings join and lose a network, two calls request and scan or stop.

The bounds appear in the models as guards on constants whose comment says "bound": `MaxLines`, `MaxHeld`, `MaxChars`, `MaxLevel`, `LineLength`, `MaxTasks`, `MaxPresses`,
`MaxChunks`, `MaxHandles`, `MaxMoves`, `MaxCalls`, `MaxRadio`; `MaxBehind` is an assumption on the scheduler. Deadlock is not checked where a bound stops the environment.

### Fairness
* `spi_live`: the three tasks run (weak fairness). The master's loop never waits, so its transactions meet an armed buffer again and again: strong
  fairness of an exchange. Neither a fault nor a flush is ever owed. The property leaves out transactions without an armed slave: see below.
* `motor`: a call that has begun goes on, a shaft without power comes to rest, and the transmitter sends (weak). The timer task runs whichever of its two tickers is due first, so the
  logging ticker cannot shut the controller out (strong fairness of `Tick`). Others write too, but `serialPutC` tests for room again and again and finds it in the end (strong fairness of `LogPut`); without
  that the stop is not guaranteed.
* `pins`: interrupts are taken, and delayed tasks run (`task_add_delayed` is served by the grbl task's loop).
* `bluetooth`: `pollTX` and a callback that has begun go on, and the stack reports a write unless its connection closes.
* `i2s`: the DMA sends or, when it has stopped, time passes; the refill task goes on; a sleeping grbl task wakes up when the refill task lets it.
* `wifi`: lwIP's timeouts expire.

No other fairness is assumed; an environment never has to act.

## Where the code and its comments differ

* **Skipped lines** (`spi_m.c` 62-73, run `spi_skips`). With a new line in hand and no free slot reported, the master turns the packet into
  a poll and clears its data; since `fetch_new_line` stays set, the next iteration reads another line. The
  function is documented as handling "standard sequential data packets, flow control tracking, and queue discard commands" (`spi_m.c` 11).
* **Cancel** (`uart_serial.c` 604, run `serial_cancel`). `serialRead` writes back a tail computed from the value it read before the interrupt cancelled. The same operation of the USB stream is documented with
  "Flushes and adds a CAN character to the USB input buffer" (`usb_serial.c` 112).
* **Homing** (`driver.c` 3890, run `pins_homing`). `pin_debounce` enables its input whatever `limitsEnable` ("Enable/disable limit pins interrupt", `driver.c` 1799) did in the 40 ms before.
* **The ring is lapped** (`i2s_out.c` 585, run `i2s_lapped`). The task "reuses the oldest (just transferred) buffer" and "fills the buffer for later DMA" (`i2s_out.c` 472-473).
  When a motion ends, the callback inside it sleeps for longer than the ring lasts: the DMA sends the older buffers again and reaches the one in hand.

Properties that hold only with an exception name it: `AckedLinesAccepted` excludes a flush that no buffer received (`flushLost`);
`ReadInOrder` and `NoSilentLoss` exclude a cancel in the middle of a call (`raced`); `PressNotLost` excludes a switch that
closes after the debounce found it open and before the interrupt is enabled (`missed`); `QueueDrains` excludes an opening that finds `pollTX` about to
suspend itself (`overlooked`, nothing wakes it until the next opening) and a write whose report was lost with its connection (`lostWrite`, `tx_busy` is never given back). `QueueDrains` is about the queue: the one
chunk that `pollTX` may hold over is sent only with the next one.

`StepsSentOnce` and `StepsNotLost` exclude a refill task that has gone `astray`, and a reset, which drops pulses on purpose.
`TickUsesRecentZones` allows a tick the gains of every zone the target was in since the tick began, or in the call before, whose stores may still be going on: a disturbed tick does mix those.
`ConfigAgrees` excludes a change of `wifi_sta_config` that did not reach the driver (`untold`): one it refused, and one after which `wifi_start` returned false. Without the exception TLC finds the retry described above.
Three hazards are for that reason not caught by a property: the opening that `QueueDrains` excludes (`bluetooth.c` 376), the chunk a flush cannot reach, which `OnlySparedSurvive` excludes (395), and the closing of a connection that is taken for another (388), of
which `SessionEnds` sees only a session that outlives its last link.

Of `wifi.c` the model also shows what no property forbids: every start of services adds a poll timeout, so that several run at once; `ssdp_stop` leaves `services.ssdp` set, so that SSDP does not start again (532);
`STA_DISCONNECTED` tests the connection bit before it clears it, so that the DNS responder is not started when a network is lost (553, 581); a request to join is erased when the
event of having left the old network comes after it (552); a scan that ends while the list is held is dropped (589); `wifi_stop` clears the bit of the mode with both
interfaces (404); a `wifi_start` that fails at 743 never sets it; `IP_EVENT_STA_LOST_IP` has a handler that is never registered (682).

A missed transaction can also stop the SPI master for good: it clears `fetch_new_line`, reports no free slot, and the poll that follows never
sets `type` back (`spi_m.c` 70-82). `SentLinesArrive` is therefore checked without missed transactions.

## Proofs

All are checked by TLAPS from the modules' named assumptions (`LinkAssumption`, `SerialAssumption`, `MotorAssumption`, `PinAssumption`,
`BluetoothAssumption`, `I2sAssumption`, `WiFiAssumption`), which only give the constants their ranges. `BluetoothAssumption` asks for a buffer of at least one byte:
the greeting has one in the model, and the code's buffer has 250. Every invariant and every action property that a passing run checks is also a theorem; one of them has a hypothesis, `KeepsUp` below.
The three refinements are about every step of the detailed module, faults included: it is a step of the abstract one or leaves it unchanged (`BoundedFifo` promises nothing once `broken`). `DeliveredInOrder` and
`SentInOrder`, which say of the state what `ChannelSpec` and `LineSpec` say of the steps, are theorems that no run checks any more.

* **CommandChannel** `SpecInOrder`. `delivered` and `queue` are increasing, everything delivered is below everything queued,
  and both hold accepted lines; a line is accepted only above all accepted ones.
* **SpiLinkProofs**. `SpecTypeOK`; `SpecBufferOwnership`, from an invariant that ties `spc` to `current_rx_buf` and
  bounds the queues: as every buffer is in one place, `free_queue` always has room, so that no ignored result of `xQueueSend` matters.
  `SpecAlwaysABuffer` counts (`CountInv`): the pool has two buffers more than the work queue, the consumer holds at most one, so one is left for a receive task that has none.
  `SpecImplementsChannel`: every step is a step of the channel or stutters. This needs `LineInv`: whenever the slave would find a packet in sequence, its line is newer
  than every accepted one. It is inductive because a line keeps the identifier it was fetched with, and a flush, which
  makes old identifiers come back into sequence, also makes the master fetch a new line. `SpecDeliveredInOrder` is the channel's
  theorem carried over; `SpecFlushDiscards` follows from `QueueFresh`, a part of `LineInv`.
  `SpecAckedLinesAccepted` needs `AckInv`: a reply is prepared one transaction ahead, so what has to be carried along is whether that reply is still current, that the two sides' counters meet when it is, and that a packet
  which repeats the last identifier repeats the last line (`ReplyCurrent`, `IdsMeet`, `RepeatsLine`, `ArrivedLine`). All of it fails once a flush is lost, hence `flushLost`.
* **SerialStreamProofs**. `SpecTypeOK`; `SpecLossIsFlagged`, `SpecRealtimeNotBuffered`, `SpecReadInOrder` and `SpecNoSilentLoss`, for every size of ring and FIFO. The ring is treated as distances: `BUFCOUNT` is how far the head is
  from the tail, and putting a character in or taking one out moves one end by one. `RingInv`: what is in the ring is increasing, above what was read and below the FIFO, and a reader between its load and its store has the slot
  at the tail, which the interrupt cannot overwrite because a full ring keeps one slot free. `KeptInv`: each character is in one of the places `Kept` names. Both hold for as long as no cancel has struck in the middle of a call, which is what
  `raced` says. `HandlerInv` ties the installed handler to the state of `nvsWrite`; `FifoInv` relates the FIFO to its overflow.
  `SpecImplementsFifo`: the abstract queue is what lies between tail and head (`line`), and each access of the task either leaves it alone or is one whole operation: a read is the store of the tail, a flush the store of
  the tail it had found, a cancel the store of the head. The lemmas `FifoOf...` show how the line changes when one index moves; that the reader's slot is still the front when it stores the tail is `RingInv`.
  `SpecReadOnce` complements the finding about cancels: its invariant `ApartInv` keeps the characters that were read, in the ring, in the FIFO, in the hands of a cancel and thrown away by one apart, so that without a cancel
  in the middle of a call no character, the one a cancel leaves included, is read twice, and none that was cancelled is read. The case the run `serial_cancel` shows is thus the only cause.
* **MotorControlProofs**. `SpecTypeOK`; `SpecGainsFollowTarget`, from what each of the four gains is at each step of the setter; `SpecTickUsesRecentZones`, from `StaleInv`: a gain that is not the target's is the one of the call before, and only while the setter has not yet stored it;
  `SpecOffIsClean`, from what a tick has already established when it decides to release the spindle.
* **PinInputsProofs**. `SpecTypeOK`; `SpecNoDeafPin` and `SpecPressNotLost`: a disabled, armed input has a waiting debounce, and a pending interrupt or a debounce stands for each unreported press.
  `SpecQuietStays`, an action property, complements the finding about homing: an input that is disabled and has no debounce waiting or running stays so until `limitsEnable` arms it. A debounce that was already waiting is the only cause.
* **BluetoothTxProofs**. `SpecTypeOK`. `SpecSessionEnds`: while the flag of a second attempt is set, at least two connections are open, so that an ignored closing is
  never the last. `SpecOneWriteAtATime`: `tx_busy` is 0 from the take in `pollTX` to the report of the write.
  For the chunks, every step is one of a few moves: a chunk is made, queued, taken, gathered, written, set aside or flushed (`ChunksMove`), so that the three invariants below are each proved once per move and not once per action.
  `SpecChunkOwnership`, from `OwnInv`: a writer's hands, the queue and `pollTX` share no chunk, and none of them holds a freed one. `SpecSentInOrder`, from `HandInv` and `SendInv`: what was sent, what is gathered, the chunk held over and the queue are, in this order, one
  line in which each writer's chunks are increasing, and a writer's newest chunk is the one in its hands. `SpecImplementsLine` maps the same line to `ChunkLine`, move by move: taking, gathering and holding over leave it alone, a write removes its front, a flush one chunk from further back. `SpecOnlySparedSurvive`, from `SpareInv`: a chunk older than the last flush was in a task's hands when it happened.
* **I2sOutProofs**. `SpecTypeOK`: no delay is overslept, the queue never exceeds the ring. `SpecPinsFollowPort`, from `PinInv`: in PASSTHROUGH the constant is what is
  sent, and it is the port unless a write is between its two steps; every way into PASSTHROUGH starts the transmitter, which loads the constant.
  `SpecStepsNotLost` and `SpecStepsSentOnce` come from `StreamInv`: unless the refill task is `astray`, the queue is the stretch of the ring that the DMA has just left, with the task at its older end (`ArcInv`); pulses that were sent lie in
  that stretch, and pulses to be sent lie outside it, ahead of the DMA and no further than the first place where the chain is cut (`PulseInv`). That pulses are sent *once* also needs the DMA to stay out of the
  stretch: the hypothesis `KeepsUp`, `MaxBehind + 1 < N`. It is what the buffers are there for (`i2s_out.c` 71-72), five in the code, and without it TLC finds pulses that are sent again (ring of 3, task 2 behind); a task that sleeps is not bound by it. `SpecStraysOnlyAsleep`
  has the same hypothesis and complements the finding about the ring: while there is a chain, the DMA and the refill task meet in one buffer only in a step in which the task sleeps inside it, or when a chain is started over. The other theorems have no hypothesis.
  `SpecDirectInPassthrough`: `i2s_set_streaming_mode` does not test that the chain has run out, it waits for two times the length of the ring. `RunsOut` says why this is enough: at the end of the first delay every buffer is in the queue or cut, and
  as the grbl task only goes on when the queue is empty, every buffer is cut; in the second delay a cut buffer comes back. `ChainInv` adds that the DMA stops only with the end of the chain in the queue, and
  `SleepInv` that a refill task which has slept finds a full queue, which holds its own, now cut, buffer or one buffer twice (`FullQueue`); in both cases the chain ends.
* **WiFiProofs**. `SpecTypeOK`; `SpecServedIsPolled`, inductive because a timeout that finds a service sets itself again and services are only started by a handler that goes on to set one; `SpecConfigAgrees`, inductive
  because each writer of `wifi_sta_config` goes on to write the driver's copy, or returns and is `untold`. `SpecTypeOK` says more than types: a name that was cut short is in `wifi_sta_config` only, never with the driver (`CutStays`: whoever
  is about to tell the driver has written another name over it).

Only model-checked: the liveness properties `SentLinesArrive`, `StopCutsPower`, `StopReleases`, `PressReported`, `QueueDrains`, `WaitingEnds` and `PollsEnd`. They rest on fairness, and the installed provers do not
reason about `ENABLED`. The four disagreements of the section above are shown by TLC's counterexamples. The inductive invariants were checked by TLC on the runs' instances, and those of `I2sOut` also with a ring of 4 and with a task 4 buffers behind, before they were proved.

## Not modelled, and the plan

In this order:

1. **DelayTimer** (`driver.c` 584-623): the timer callback, a new delay from inside it, and its deletion.
2. **RingQueue** (`buf.c`), the linear motor with `take_sample`, and the I2C expander queue: small shared-memory components.
3. **Output of the streams**: USB's timeout, blocking on a full FIFO, partial writes; `SerialStream` composed with them.
4. **Home search** (`custom_mcode.c`) and **timers** as bounded algorithms.
5. **Ethernet** (`enet.c`) as a second user of the services of `WiFi`, and the settings of both.

Every safety property is proved, and the three components that carry data from one task to another each implement an abstract specification. What is left to prove is the safety part of the liveness properties, that
no step moves away from the goal, and the refinement of `CommandChannel` by the two boards with `packet_done`, should the master come to read it.

Left out for good: littlefs (vendored), file access of the web interface, LED strips, register access to Trinamic drivers, pin tables, board
files and the host-side helper, which have no interleaving or protocol of their own, and the numerics of the control laws, which TLC cannot enumerate.
