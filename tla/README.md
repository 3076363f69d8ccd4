# TLA+ verification of Zou lab control

`Zou_lab_control` runs neutral-atom experiments: a Python control stack (GUI,
devices, measurements, processors) and an FPGA pulse streamer in Verilog that
plays the timing programs.  This directory holds TLA+ models of the parts whose
correctness depends on the order in which threads, clients and the FPGA act, the
TLC runs that check them on small instances, and TLAPS proofs for all instances.

Paths below are relative to the repository: `axi_session.py`, `sequencer.py`,
`fpga_pulse_streamer.py`, `uart_session.py`, `base.py` are in
`Zou_lab_control/neutral_atom/devices/`, `logic.py` in `operations/` next to it,
`signals.py` in `core/`, and the Verilog in `fpga/pulse_streamer/`.

## 1. The system

A shot travels down this chain and its frames come back up:

    task console / notebook          GUI thread and node threads
      LogicNode loops  ---SignalHub---  Processor loops, displays
        triggered_frames / PulseController
          FPGAPulseStreamer  --RPyC-->  SequencerService   one thread per client
                                          AXI or UART session + refill thread
                                            Vivado process / serial bridge
                                              COMMAND/STATUS words, BRAM rows
                                                zlc_pulse_streamer_top  (loader FSM)
                                                  zlc_edge_streamer     (engine)
        CameraDevice <----------------------------- trigger edges

| Part | State | Operations | Meets others through |
|---|---|---|---|
| Engine, scan half (`zlc_edge_streamer.v`) | scan registers, two ping-pong banks with `BANK_READY` and `BANKn_CHUNK` | per frame boundary: advance, stall, wrap, finish; reset | BRAM rows and words written by the host at any time |
| Engine, playback half | resident edges, reads under way, frame time, bracket count, event queue per delayed channel; per DAC bus its value, ramp and delayed player | per clock: fire an edge, fetch the next, rewind, next point, repeat, finish, schedule a toggle; apply a segment, step a ramp, replay a segment | the table in the BRAMs, two cycles away |
| Validation (`fpga_pulse_streamer.py`) | none | accept or refuse a compiled program | promises the engine what it needs |
| Streamer top (`zlc_pulse_streamer_top.v`) | `COMMAND`, `STATUS`, loader FSM, synchronisers | SAFE, LOAD (copy of the bus image), FIRE, the refresh that shows DONE | polled words; no interrupt |
| Session (`axi_session.py`, `uart_session.py`) | `_pending`, `_io_lock`, `_program`, refill position, progress mirror, drain deadline | `prepare`, `fire`, `wait_done`, `safe_state`, refill thread | one transaction at a time; a queue of words shared by all threads |
| Links: Vivado process, UART bridge | process, its stdin and line queue; decoder, reply serializer | transaction with marker, restart, close; exchange, batch with gaps | pipes and a thread; a serial line |
| Service (`sequencer.py`) | lock, `prepared_program`, `state` | `prepare`, `fire`, `wait_done`, `abort`, `set_safe_state`, a lost connection | RPyC threads of several clients |
| Cameras (`base.py`, `qcmos.py`, `pylon.py`) | acquisition lock, pending queue, recent ring | arm, read, disarm, drain | trigger edges; a source thread delivers |
| Logic nodes (`logic.py`) | thread, stop event, queued edits and epoch, last error | start, stop, step, apply parameters | `SignalHub`; devices they own |
| `SignalHub` (`signals.py`) | per signal: ring, source-shot ids, version | publish, mint an id, latest, snapshot, remove | one lock per call, a condition to wait on |
| Task console (`task_console.py`) | running nodes, what each panel shows and its key, the edit an editor waits for | tick in two phases, start, stop, Apply | Qt thread; reads of the hub |
| Plots, editors, notebook session (`frontend/`) | widgets, timers, one worker | draw, edit, run | Qt thread |
| Pulse table and sequences (`timing/`, the compilers in `sequencer.py`) | none that outlives a call | compile to a program | the validation and the engine's table |
| Image packing, analysis | none that outlives a call | pure functions | - |

What is hard about it, and what makes each part correct:

- **Streamed scans.**  A sweep longer than two banks is refilled while the engine
  plays it.  The host sees one word, `CURSOR`, and infers from it how often the
  engine wrapped.  Correct: the engine never plays a value that is not its point's,
  the wraps counted are those that happened, a finite repeat is played in full, and
  neither side waits for the other for ever.
- **Prefetch.**  Edges may be one tick apart, a read takes three; every seam (bracket,
  scan point, repeat, end) throws away what was fetched.  Correct: every edge comes
  out in its tick, a delayed channel is its own past and plays its tail.
- **DAC.**  A ramp is stepped by whole codes, its division spread over two ticks; the
  value is carried over every seam; a delayed bus is not a delay line but a second
  stepper that is handed the segments.  Correct: the DAC shows the line of the table,
  delay ticks later, and is back at 0 V at the end.
- **Shared word queue.**  The words of a refill, of a `SAFE` and the flush before a
  read share one unlocked list.  Correct: an armed bank is complete, a `SAFE` is
  executed, nothing of the old program is written into the next one.
- **Links.**  A process that hangs or dies with answers under way; a line that loses
  bytes, and a bridge that cannot listen while it commits.  Correct: an answer
  belongs to the exchange that waits for it, and the link comes back.
- **Command mailbox.**  Two writers of `STATUS`, edge-triggered commands, reset and
  start through synchronisers.  Correct: `STATUS` never lies, a `SAFE` is obeyed
  wherever it lands, a program is released only when all of it is loaded.
- **Several clients.**  Only part of each call is under the service's lock.
  Correct: what starts is what is prepared, a shot plays its own program or none, a
  stop that is the last word leaves the device halted, every call returns.
- **Devices shared by nodes.**  Threads outlive the console's patience, a camera's
  queue holds whatever triggered it, a call may raise with its work done.  Correct:
  a point is made of its own shot's frame, nothing is left playing, a stop ends.
- **Reactive processors.**  A scan reads a value that another thread derives from a
  frame the scan published.  Correct: the reading belongs to the point.
- **One board, many signals.**  Signals of one shot arrive at different times and the
  node is edited while it runs.  Correct: the board shows one shot, settles on the
  newest that all have, and what is shown after an Apply was taken with the edit.

`PROJECT.json` lists every component, modelled or not, and the hazards at their
lines.

## 2. Modules

| Module | Models | Role |
|---|---|---|
| `ScanPlayer` | - | abstract: points in order, each as itself; may hold, may be halted |
| `ScanEngine` | scan half of `zlc_edge_streamer.v` | the engine's decisions at frame boundaries, shared by the next two |
| `CyclicScan` | `_stream_refill_loop`, `_load_chunk`, the start in `fire`, `scan_progress`'s mirror | engine and refill thread of a repeating scan; implements `ScanPlayer` |
| `FiniteScan` | `wait_done`'s own refill of a single pass, the monitor thread of `fire`, the queue of words they share (`_queue_word`, `_flush`) | implements `ScanPlayer` until a word goes astray |
| `CyclicScan_proof`, `FiniteScan_proof` | - | proofs about the two refills, with the arithmetic of the sweep |
| `PulseProgram` | `validate_pulse_streamer_program` and the schedule its capacity check uses | which programs are accepted, and when each edge is due |
| `PulseCompiler` | `compile_pulse_table_runtime_program`, `compile_pulse_table_scan_runtime_program`, `compile_runtime_program` and what they call | what a pulse table or a sequence compiles to, and what it shows |
| `ReferencePlayer` | `engine_model.reference_play` | abstract: the engine that has everything at hand |
| `EdgePlayer` | playback half of `zlc_edge_streamer.v`, the drain deadline of the session | clock by clock; implements `ReferencePlayer` |
| `BusPlayer` | the DAC bus engine of `zlc_edge_streamer.v` and its delayed player | beside the edges of `EdgePlayer`, at the same clock |
| `MCEdgePlayer` | - | the programs of the runs, which run `BusPlayer` |
| `EdgePlayer_proof` | - | proofs about the prefetch, the refinement and the schedule, without and with the DAC |
| `WordQueue` | `_queue_word`, `_flush`, `_run_tcl`/`_execute` and the UART counterpart, `safe_state`, the stop of the refill thread | queue, lock and link, one list operation per step |
| `Transport` | - | abstract: numbered exchanges, effect at most once and in turn, own answer |
| `UartLink`, `MCUartLink` | `PySerialTransport.exchange`/`write_batch`, `zlc_uart_bridge.v` | frames, faults, late replies; refines `Transport` only without faults and given-up reads |
| `AxiProcess` | `start`, `close`, `_ensure_process`, `_kill_process`, `_execute`, the reader thread | implements `Transport` |
| `AxiSession_proof` | - | proofs about the two halves of the JTAG session, `AxiProcess` and `WordQueue` |
| `StreamerLifecycle` | - | abstract: reset, loading, loaded, running, done |
| `StreamerTop` | loader FSM, mailbox and synchronisers of the top, clock by clock | implements `StreamerLifecycle` |
| `HostInterface_proof` | - | proofs about the host's way in, `UartLink` and `StreamerTop` |
| `SequencerService` | `SequencerService` over the session's `prepare`/`fire`/`wait_done`; the client sequences of `PulseController` and `triggered_frames` | drives a device of `StreamerLifecycle` |
| `SequencerService_proof` | - | proofs about the service |
| `Acquisition`, `MCAcquisition` | the console's start and stop, the panel editor's Apply to a node that does not run, `LogicNode`'s loop, `triggered_frames`, a camera's lock and queue, the sequencer's calls | nodes, devices and a user's pulses |
| `Acquisition_proof` | - | proofs about `Acquisition` |
| `PulseScan` | `PulseScanNode`, one-input `Processor`, live `CameraMeasurement`, `SignalHub` | scan, processor and camera threads |
| `LiveView`, `MCLiveView` | `CameraMeasurement`, `Processor`s, `SignalHub`, the console's tick, the panel editor's Apply | camera, processors, board and editor |
| `SignalHub_proof` | - | proofs about `PulseScan` and `LiveView` |

The abstract modules join the layers: `StreamerTop` shows that the Verilog is a
`StreamerLifecycle`, and `SequencerService` takes its device to be one; `Acquisition`
takes a call of the service to be one step.  The word sequences of `CyclicScan` reach
the FPGA in program order; `WordQueue` shows for which callers and transports that is
so, and `AxiProcess` and `UartLink` what a transaction of `WordQueue` may count on.  In
`FiniteScan` two threads share the queue in every run, so it has the queue itself.
`EdgePlayer` is the inside of a frame that `ScanEngine` takes as one step.

How state and actions correspond to the code:

- **ScanEngine.**  Variables carry the Verilog names in short (`base` is
  `scan_bank_base`, `slot` is `slot_active`, `first` is `scan_first_values`).  A point
  is its index and a bank row holds the index written there, so a stale row that is
  played shows as `slot # point`.  The edges, loops and delay lines between two frame
  boundaries are one step.
- **CyclicScan.**  `hpc` is the place in the loop; each word of `_load_chunk` (de-arm,
  rows, chunk label, re-arm) is a step, rows in bursts of any length, so the engine moves
  between any two.
- **FiniteScan.**  `place` has `wait_done` and the monitor thread, which polls CURSOR
  from FIRE on.  `_load_chunk` only queues its words; a flush takes the list (`pending`)
  and sends what it took (`held`) one word at a time, and between "take" and "reset" both
  names are the same list (`aliased`).  `due` and `astray` are history: the word that
  comes next in the order of `_load_chunk`, and that another was written in its stead.
- **PulseProgram.**  A program is a record with a row per edge; `PointFits` and
  `DelayFits` are the checks, `SweepEvents` the schedule.  One slot value per scan
  point, one delayed channel (the lowest bit of a mask), one DAC bus whose segments
  `SegmentsFit` checks.
- **PulseCompiler.**  A table is its periods (length, slope in the slot, channels that are
  on), bracket, delays and points.  `StaticProgram` and `ScanProgram` are the two
  compilers; they share nothing in the code but the delay's shift.  `TableLevels` and
  `PulseLevels` are what the author sees, a mask per tick, from the code that draws it
  (`to_sequence`, `effective_pulses`); a program carries it as `shown`, which no action
  of the player reads.  `Segments` is what the DAC is to do, `DacLevels` what the table
  draws of it (`bus_period_levels`, `_analog_bus_value_at_tick`), carried as `dac_shown`.
- **EdgePlayer.**  Registers carry the Verilog names; `arm` are the resident edges,
  `pend` the reads under way, `edge_q` and `scan_q` the BRAM's pipeline.  An edge is its
  address, so an edge taken twice, late or from another program shows.  `Clock` is one
  edge of the clock; its disjuncts are the branches of the control block, each with the
  event scheduler.  `drain_until` is the session's deadline in ticks of the run.
- **BusPlayer.**  `bus` is `bus_value_active` with the `bus_ramp` registers; a segment is
  resolved from them as they were before the clock.  `BusRestart` is the start of the
  table at FIRE and at every seam, `BusApply` and `BusStep` the two ways through
  `zlc_bus_step`.  `sfifo`, `player` and `dprev` are the delayed bus: what it was handed,
  what it plays, and the register of a delay of one.
- **ReferencePlayer.**  One step is one iteration of `reference_play`; a stalled or
  delayed engine has no step to map to.
- **WordQueue.**  `pending` is `self._pending`; `aliased` are the threads that took
  the list but have not yet put a new one in its place (`words, self._pending = ...`
  is two bytecodes); `link` is what is on its way to the FPGA, closed by the marker
  the session waits for.
- **UartLink.**  A frame is a handful of tokens of known length, each marked with its
  frame; a fault hits a token.  `decoder` is the bridge's FSM with the bytes it still
  needs, `busy` that it commits while the next byte comes; `inbox` is the host's input
  buffer.
- **AxiProcess.**  A process is a generation number with its `stdin` and its queue of
  lines; a marker is the number of its transaction (negative: the script of a start).
  The steps of `Transact` are the places where `_execute` and `_ensure_process` may be
  overtaken by the process or by `close()`.
- **StreamerTop.**  Every register of the loader and of the synchronisers is a
  variable, `Clock` is one edge.  `script` holds the words each host client has
  still to write.
- **SequencerService.**  `pc` is the place of each client's thread; `resident` is the
  session's `_program`, `finished` its `_scan_finished`, `streaming` that its thread counts
  the sweeps of a program that is to be halted after K; `image` is what the BRAM holds
  (`Torn` while it is rewritten).  History: `fate` is what became of the run a client's fire
  began, `saw` what it was when its wait read STATUS, `unclear` that a transaction failed
  after the last SAFE.
- **Acquisition.**  A thread is numbered by its start; `pc` is its place in
  `triggered_frames` and in the loop around it, `object` the node object it runs: a new
  one for every start of the console, the old one for a start by Apply (`ApplySteps`,
  `ApplyStarts`), whose threads the console does not know (`unlisted`).  Threads of one
  object share its `_stop`.  `owner`/`pending` are a camera's lock
  and queue; a frame is the fire whose trigger exposed it.  `abandoned` are the threads
  whose join gave up, `unsafe` the fires whose SAFE failed too, `disturbed` the shots in
  which others commanded the sequencer.
- **PulseScan.**  A frame is its source-shot id.  `judge` walks through `new_inputs`'
  separate reads (version, value, provenance) and the publish; `disturbed`,
  `deafUntil` and `lost` are history.
- **LiveView.**  `log` is all a signal published, its ring the end of it; a sample is
  its source shot and the edit it was taken with.  A tick is four steps, with publishes
  between them: it reads the board's shot for the keys (`disp`, `Tick`), compares the keys
  (`Keys`), reads the shot again for the snapshot (`view`, `View`), takes it (`snap`,
  `Snap`) and draws.  The first panel whose key has changed is keyed before the snapshot
  (`first`), those behind it after.  `key` is `_render_version`, `listed` is
  `running_nodes`.  `was` and `awaiting` are the editor's view of the node; `missed` is
  history: panels keyed as if they had drawn what they did not.

## 3. Runs

| Run | Shows | Bounds, and why they are enough |
|---|---|---|
| `cyclic` | never a wrong point, exact wrap count, at most one bank past the last sweep and never a sweep short, refinement, halt | 5 points in banks of 2: three chunks, odd (the banks of a chunk swap at each wrap), the last partial; 3 sweeps, the engine may make 5 |
| `finite` | refinement, never stranded, done means played and is told in the end, after any number of time-outs, however the monitor thread splits a refill, as long as no word of it goes astray (see below) | 7 points in banks of 2: four chunks, each bank refilled; the words of a refill reach the FPGA one by one, from either thread |
| `playback` | the prefetch keeps up, the outputs are the host's schedule tick by tick and show what the table or sequence asked for, the delayed channel and the DAC are their past to the end of their tails, refinement | 5569 accepted programs (221,091 states).  3000 written as edges: tables of up to 9 edges one tick apart with one longer gap, so that the prefetch of four is met empty, filling and full at every seam; brackets at every pair of ticks, 2 or 3 times; three scan points (2, 1, 4) that move the edges both ways, with tables of 4; delays from 1 to more than a sweep with an event queue of 3.  1400 compiled: three periods of two channels with every pattern of levels, a bracket of one or two periods at every place, a positive and a negative delay, a duration with slope 1 or -1 at each place; sequences of up to three pulses that touch, overlap between channels and leave a gap, with and without a period.  1100 with a DAC of 8 codes: three periods of 2, 3 and 1 ticks that hold, go to a value, or ramp by fewer and by more codes than ticks, up, down, out of range and to the slot, so that lines are flat, gentle and steep; a bracket, repeats, two points; delays of 0 to 7 ticks, more than a frame, with a segment queue of 3.  A repeated sweep is played twice; two further programs uploaded and interrupted at any tick |
| `playback_short_frame` | violation, see below | scanned frames of two ticks |
| `queue` | armed bank complete (JTAG), `SAFE` executed (UART, and `prepare` on both), nothing left, the call returns | two refills of two rows: a stop in the first or the second, before, between and after each word |
| `uart_link` | own answers after a quiet start, no answer lost on a sound line | four exchanges of three kinds (a read, two short frames, a frame that keeps the bridge busy and another), two faults: a fault in one exchange, its echo in the next, another fault, and an exchange after |
| `axi_process` | own answers, healing, one Vivado, refinement of `Transport` | five transactions, two faults, two attempts per start: a fault in a start that repairs an earlier one, and the two failures that may follow |
| `streamer_top` | a LOADED or RUNNING device holds a whole image and shows it, `SAFE` obeyed, DONE shown, refinement | two images, two bus rows; prepare, fire and the stopper's `SAFE` repeat without bound |
| `service` | what starts is what is prepared, own shot, stop means halted, wait truthful, every call returns | two clients, a finite program and a scan of K sweeps, failing link; calls repeat without bound (232,259 states).  With a program that never ends for the scan (`Forever = {p3}`, `Repeated = {}`, 651,362 states) the four safety properties hold too; that is left out of the run for its time |
| `acquisition` | own frames, program played whole, nothing left playing, one driver per device, a stop ends | two starts among a live view and two scans on two cameras and one sequencer; two shots, one join that gives up, one frame of a pulse queued, and one call that raises or one Apply to the view when it does not run: a shot after a bad one, and a thread beside the one left behind or beside the one Apply started |
| `pulse_scan` | own reading, newest frame judged, the scan ends | one live frame, three points: a late result may come from the live phase, and from a timed-out point with a point after it |
| `live_view` | one shot on the board, edits in order, epoch means applied, board settles | five scenarios (1,040,159 states): two processors that skip frames; one that lags behind a ring of 2 and is stopped or started; a node of two frames edited twice; edited nodes, finite and live, with a processor.  With two processors that are toggled, and a node of two frames with a processor, three shots and an edit (2,212,324 states) it passes too; that takes longer than a run should |

Deadlock is checked except in `pulse_scan`, where a finished scan and a stopped
processor leave nothing to do; the other modules have a named final step
(`Halted`, `Returned`, `Finished`, `AllDone`) or never stop.

Every property has a mutant in `PROJECT.json`: a plausible bug in a mapped
definition (kept next to it, marked `mutant`) under which TLC finds it violated.

Exceptions a property states are part of what it shows: each one is a way the code
can really go, listed below or with its hazard.

### Disagreements found

One run checks what the source says of itself and finds what the code does instead:

- `playback_short_frame`: a scanned frame "must be >= 2 ticks (the scan-BRAM read
  latency)" (`fpga_pulse_streamer.py:540`), and one of two ticks is accepted.
  `scan_raddr` is a register, so the value of the next point is there after three
  clocks: the next frame is played with the slot value of the one before.  With frames
  of three ticks (`playback`) it is not.

Others found while modelling, each with the definition that states the claim and how to
see it fail:

- `CyclicScan`, `StopsAfterRepeats` with `N = 4`: `prepare` says the thread "counts CURSOR
  wraps and stops the engine after K whole sweeps" (`axi_session.py:506`).  A sweep that
  fits the banks does not wait for the host: it wraps and passes the last cursor between
  two polls, and the wrap is missed.  For a streamed sweep `WrapCountExact` holds, and is
  proved.
- `EdgePlayer`, `TailNeverChopped`: `fire` notes "fire + undelayed duration + tail" so that
  a prepare "cannot chop the delayed tail" (`axi_session.py:712`), but multiplies a
  duration in seconds (`sequencer.py:573`, `:849`) by 1e-9.  Without a `wait_done` the
  deadline is one tail after the *fire*, and a prepare after DONE cuts the tail of any
  program longer than that.  `TailPlayed` shows that a `wait_done` repairs it.
- `WordQueue`, `SafeLands` with `Sessions = {"jtag"}`: `safe_state` queues its words in the
  list the dying refill thread may take and drop with its aborted transaction; the call
  returns, the engine runs.  `prepare` joins the thread first and UART sends what it took:
  `CallHalts`.
- `WordQueue`, `ArmedBankComplete` with `Reader = TRUE`: a `STATUS` read on another thread
  may flush the first words of a refill; if the rest gets the lock first, the bank is
  armed over old rows.
- `FiniteScan`, `NeverCollides` as an INVARIANT: the thread of a single pass "only MONITORS
  the cursor", "so it can never collide with wait_done's refills" (`axi_session.py:835-837`).
  `fire` starts it for every single pass (`:721`, `:903-908`), and its read of CURSOR flushes
  the queue that `wait_done` is filling (`:430-431`, `:448-452`): the same as `Reader = TRUE`
  above, here without anybody reading STATUS.  If its half of a refill is sent last, the
  bank is armed over old rows, and a late disarming word closes it for good: the scan plays
  stale rows or stalls for ever.  All that `finite` shows is stated until a word goes astray.
- `UartLink`, `ImplementsTransport` with `MaxFaults = 0`: a READ given up by the refill
  thread is answered later, and its answer taken for that of the next READ: the sequence
  number in the reply is not compared (`uart_session.py:127`).
- `AxiProcess`, `OneVivado` with `CloseAnyTime = TRUE`: a `close()` during a restart forgets
  the new process, which stays alive (`axi_session.py:280`).
- `SequencerService`, `FireStarts`: a second `fire` of a prepared program returns and starts
  nothing: the FPGA takes FIRE only while it shows LOADED.
- `SequencerService`, `SweepsDone` as an INVARIANT: of a scan of K sweeps `wait_done` is to
  return "the instant that happens" (`axi_session.py:770-772`), that the thread has halted the
  engine after its last sweep, and `on_pulse` lets a user wait for it as it "DOES finish
  after K sweeps" (`sequencer.py:1640-1649`).  But it is compiled as `repeat_forever`, so
  `wait_done` answers at the first RUNNING (`axi_session.py:790-791`); and without a time-out
  the service refuses to wait at all (`sequencer.py:1075-1076`), after the fire.
- `SequencerService`, `DoneOfOwnRun` as an INVARIANT: a wait looks at the device, not at whose
  run it plays: a client may be told done of a run that another has fired since.
  `WaitTruthful` is what does hold.
- `PulseScan`, `StaleExcluded`: "staleness is mechanically excluded" (`logic.py:2354`), but
  any publish of the y signal after the snapshot counts as this point's, also the late
  result of an earlier frame.  `ExactUnlessDisturbed` says when it cannot happen.
- `PulseCompiler`, `OutputsSchedule` without `AddedInOrder`: `validate` accepts pulses of a
  channel that touch, in any order, but `edges` writes them in the order they were added
  (`sequence.py:236-240`), and the stop of the one added later replaces the start of the
  other: a pulse `[1,3)` added before `[0,1)` is on for one tick instead of three.
- `PulseCompiler`, `OutputsSchedule` without `WholeTicks`: "a scalar evaluation of these
  coeffs at any slot point equals `period_start_steps` there" (`sequencer.py:2007`) holds
  for whole-tick slopes only: the engine takes the floor of the sum, the table rounds
  each period.
- `TableCompiles`: "a delay in ANY form works" (`sequencer.py:473`) in a bracket, which is
  written out first; but one that is played once is returned as it is
  (`pulse_table.py:1551`), and the compiler calls itself until Python gives up.
- `PulseCompiler`, `OutputLines` without `RampsApart`: a ramp that follows a ramp begins
  from the register as the last clock left it, one step short of the first one's target,
  which is never output (`zlc_edge_streamer.v:881-891`, `:776`): a ramp of 4 codes in 2
  ticks, then one back to 0, turns at 2.  The host promises "landing exactly on the target
  at stop_tick" and "what you see is what the DAC does" (`fpga_pulse_streamer.py:416-418`),
  and the "cycle-accurate mirror" of the engine (`engine_model.py:830`) starts the second
  ramp at the target.
- `PulseCompiler`, `OutputLines` without `RampsCutInTime`: "a FINITE (fire-once) program
  never wraps" (`zlc_edge_streamer.v:800`), so its delayed player is not told where a frame
  ends; but a finite scan does wrap, at every point, and a ramp that the frame cuts one
  tick before its target goes on to it in the delayed player alone.
- `PulseCompiler`, `OutputLines` without `QueueHolds`: "under repeat_forever a window longer
  than one frame sees ceil(d / frame) frames' worth of segments"
  (`fpga_pulse_streamer.py:435`), and a finite scan is counted as one frame however many
  points it has, a scanned frame as long as at slot 0, and the return to 0 V at the end not
  at all.  With a full queue that return is dropped and the DAC stays where it was.
- `Acquisition`, `ApplyExcludes` as an INVARIANT: an edit is applied "with no second
  `acquire()` ever running on it" (`logic.py:541`).  But Apply to a node that does not run
  takes a shot and starts it (`task_console.py:7008-7014`) without asking who uses its
  devices, and the console does not know of it: two threads drive one camera, with no join
  given up.  The lock of the camera keeps their shots apart (`OwnFrames`).  Where the node
  was stopped its `_stop` is still set: a qCMOS then raises unless a frame is already
  there, and is not started.
- `LiveView`, `NeverStagger` as an INVARIANT: "every panel draws ONE physical shot and they
  can never stagger" (`task_console.py:7822`).  The tick reads the board's shot twice, for
  the keys (`:8012`) and for the snapshot (`:7865`): with one panel to draw and a frame
  published in between, that panel is drawn a shot ahead of the others, until the next
  tick.  `OneShotBoard` is stated of panels whose two readings agree.
- `LiveView`, `MonitorStreams` with `Scenarios <- MCEdited`: Apply starts a stopped node "so
  the Monitor streams under the new params" (`task_console.py:7008`), but the node is not
  put back on the list the board's shot and the exclusion of devices are made from
  (`task_console.py:4604`).

The conditions of `PulseCompiler` are dropped where they are used: `AddedInOrder` and
`WholeTicks` in `MCEdgePlayer`, the three of the DAC in `DacPrograms`.

Seen while modelling:

- "bus_segments do not currently support finite inner repeat brackets"
  (`fpga_pulse_streamer.py:402`) is checked by the bracket's first row only: one that starts
  at row 0 is accepted, and plays as its table asks (`DacShowsPlan`, where the bracket is
  not written out).
- At FIRE a segment at tick 0 is resolved with the `repeat_forever_active` of the run before;
  when a frame cuts it the same segment follows at once, so it does not show.
- `unrolled_bracket` does not pass `scan_repeats` on (`pulse_table.py:1570-1597`), the
  class of mistake its own comment speaks of: a table with a bracket and a delay that
  should sweep K times is compiled to one that sweeps for ever.
- `_check_unrolled_edge_budget` counts two edges for every channel and period and refuses
  above the budget (`sequencer.py:2658`), although "we never reject a program the streamer
  could hold": a table of n periods has at most n + 2 edges.
- `axi_session.py:855` speaks of at most one extra point; `OvershootBound` (proved) is
  less than one bank.
- The session notes `_program` before the upload (`axi_session.py:503`).  A fire after
  a failed upload then skips it; as the device is not LOADED, nothing wrong starts
  (`FiresPrepared`).
- `set_safe_state` sends its `SAFE` outside the service's lock (`sequencer.py:1117`), and
  a rejected prepare leaves `state` as it was while the device is halted
  (`sequencer.py:1000`).
- On UART a stop in the middle of a refill can leave a bank armed over old rows until
  the `SAFE` that follows; `ArmedBankComplete` is stated for JTAG.
- `remove_signals` restarts a signal's version count, and a processor that saw more
  versions ignores the new publisher for as many frames (`signals.py:208`; `Deaf`).
- The three reads of `new_inputs` are under three locks: a sample derived from one frame
  may be tagged with the next (never the previous: `TagNotOlder`).
- A failed transform is not tried again and its error is cleared by the next empty pass.
- The apply epoch advances after a pass that applied an edit and got no frame
  (`logic.py:381`), and an edit queued during the shot of an earlier one is taken for
  applied when the earlier one is counted; both are exceptions of `EpochMeansApplied`.
- An edit queued as the loop ends waits for the next start and undoes a later one
  (`logic.py:547`; the exception of `EditsInOrder`).
- A panel whose first sample arrives between the tick's key and its drawing is keyed as
  drawn and waits for the next shot.  So does a panel that is keyed newer than drawn: a
  processor's first sample, between the two readings of the board's shot, takes it back to
  an older one, and if the processor has caught up by the next tick the key has not
  changed.  Both are `missed`.
- `prepare` takes a STATUS it cannot read for "not done" and goes on to SAFE
  (`axi_session.py:548-551`): the tail is then cut (`TailPlayed` is about a STATUS that is
  read).
- A camera is armed before `prepare` has stopped what plays: a user's pulse may supply the
  frame of a scan's point (`OwnFrames`), and `stop` gives up its join after 2 s
  (`logic.py:416`; `SoleDriver`).  If Apply starts the node again before that thread has
  seen its `_stop`, the stop is taken back (`logic.py:370`; `StopEnds`).
- `zlc_edge_streamer.v:1231-1243` says that FIRE clears the schedulers and `g_time`; only
  the reset before it does.

## 4. Fairness

- `CyclicScan`, `FiniteScan`: weak fairness of the engine (its clock) and of the host
  loop (its own thread, or a caller that was told "timeout" and asks again); in `FiniteScan`
  of the monitor thread too.
- `WordQueue`: weak fairness of each thread and of the link; every wait in the code is
  a poll with a time-out.  Nobody has to call.
- `StreamerTop`: weak fairness of the clock and of the copy; strong fairness of each
  client's words, because one ordered queue carries the words of both.
- `SequencerService`: strong fairness of each client's own steps, as the lock is granted
  in turn; weak fairness of the device's copy and play.  No call and no failure is
  forced, and the K sweeps need not end: a wait has its time-out.
- `Acquisition`: strong fairness of each thread's steps, as a camera's lock is granted in
  turn and every wait has a time-out or looks at the stop event; weak fairness of the end of Apply,
  which nothing else on the console's thread delays.  No trigger has to come,
  no program has to end, the console and the user need not act.
- `PulseScan`: weak fairness of each loop: they are threads, and every wait in them is a
  bounded one.  The live camera need not acquire, nobody has to press stop, and the
  processor may be stopped for good.
- `LiveView`: weak fairness of the camera's loop, of the console's thread and its timer,
  and of each processor.  No frame has to come, nobody has to edit or stop.
- `UartLink`, `AxiProcess`: weak fairness of the line, the bridge, Vivado and the caller;
  `EdgePlayer` has none.  Their properties are about safety only.

## 5. What is proved

`CyclicScan_proof`, for every number of points, bank size, number of repeats and bound
on the sweeps, from `EngineAssumption` and `CyclicAssumption` only:

- `Invariance` (`Spec => []Inv`) and from it `TypeCorrect`, `RightPoint` (the outputs
  are those of the point), `BankIntact`, `WrapsCounted`, `Overshoot`;
- `CountInvariance` and from it `MirrorBehind` (what `scan_progress` reads is never ahead
  of the engine), for resident sweeps too;
- `FinishedLate` and `StopsInTime` (action properties: not finished before the last sweep,
  not a bank past it) and `Refinement`: `CyclicScan` implements `ScanPlayer`.

The arithmetic of points, chunks and rows it rests on is at the head of the module.

`NeverWrongPoint` is not inductive: nothing in it says that the bank the engine enters
next is whole.  `Inv` numbers the chunks monotonically across sweeps.  The window always
holds position `next_mono - 1`, and `next_mono - 2` until it is overwritten, which begins
only when the engine was *seen* at `next_mono - 1`; the position seen never exceeds the
real one, so the engine is at one of the two (`PositionInv`, `KnownInv`).  It cannot take
the old chunk for a new one, since two positions two apart hold different chunks when
there are more than two (lemma `TwoApart`), and the parity the engine keeps in `base` is
that of the position.  Because the engine must stop for a bank the host has not refilled,
it cannot lap the poll, and the one wrap the host has not yet seen shows as a cursor below
the last one read.

`FiniteScan_proof`, for every number of points and bank size, from `EngineAssumption` and
`FiniteAssumption`, with the monitor thread and the shared queue:

- `Invariance`, `TypeCorrect`, and `Refinement`: until a word goes astray, a pass refilled by
  `wait_done` implements `ScanPlayer` (`PlaysInOrder`);
- `ToldInTime` (`DoneMeansPlayed`: nobody is told done before the last point, whatever goes
  astray; and, if nothing does, not before the last chunk is loaded) and `NeverPassedBy`
  (`NotStranded`: until then a stalled engine waits for the chunk whose words come next, so
  that a further call can always go on).

All is argued about the word that is due, not about the place of a thread: a chunk is loaded
by whoever sends its words.  An armed bank holds what its label says (`Labelled`), the bank
being loaded is disarmed and holds its first rows (`Filling`), and the engine plays one of the
two chunks before the one that is due, the older of which is given up only when CURSOR has
shown that the engine has left it (`Window`).  `Queued` ties the queue to this: the words in
`pending` and in either thread's hands are of chunks that may be written by now, so a word
that is due may always be sent.  The history `astray` is needed because nothing in the code
makes the next word sent the one that is due (section 3).

`EdgePlayer_proof`, for every set of programs and every clock of every run, from
`PlayerAssumption`:

- `EdgesAlwaysResident` (`PrefetchKeepsUp`): the next edge is always resident at the head
  of the engine's FIFO.

The invariant counts the reads the prefetch owns, resident or under way: it owns four, or
all that are left of the table, and they are the next edges in order.  A read is issued
whenever fewer than four are owned, so a read that has been under way for k clocks was
followed by at most k fires, which is why one owned edge at least is resident.  It rests on the
engine firing at most one edge per clock.

Every run of `BusPlayer` is one of `EdgePlayer` (`BusLeavesEdges`: each action of the bus
contains the action of the edges), hence `EdgesResidentBesideBus`, which is
`PrefetchKeepsUp` as the run checks it.

Under the hypothesis `FramesOutlastRead` (the last tick of every scanned frame is above
`SCAN_READ_LATENCY`; the host accepts a frame of exactly that many ticks, and then it is
false, section 3):

- `EnginePlaysReference` and `BusPlaysReference`: the engine, without and with its DAC,
  implements `ReferencePlayer` (`ImplementsReference`).

The invariant adds to the prefetch what a running engine holds of its frame (`FrameHeld`),
that no edge left was due at an earlier tick (`OnTime`, so that the `>=` of the engine never
does more than the `=` of the reference), and how far the address of the next point has come
through its register and the BRAM by each tick of the frame (`PreRead`).

With `AsAsked` beside it (the compiler's sweep is, tick by tick, what the author asked for):

- `EngineOutputsSchedule` and `BusOutputsSchedule`: at every tick of every run the engine
  outputs what the host's schedule, and the author, say is due (`OutputsSchedule`), for any
  number of edges, passes of the bracket, points and repeats.

The invariant `OnSchedule` says where a run is: which pass of which frame it is in, behind
which edge and how far (`Placed`), and that the tick of the sweep this amounts to
(`Position`) is the one the clock gives (`SweepTick`).  Each step of the reference moves the
position by one: the jump back of the bracket because a pass is `SliceLen` ticks long
(`RewindPlaces`), a tick between seams whether an edge fires or not (`TickPlaces`), the end of
a frame because a frame is as long as `FrameDuration` says (`FrameDone`), and the last one
because the frames make up the sweep.  The other half is about the schedule alone
(`SweepShows`): of its events, joined from rows, passes and frames, the last that is due at
that position is the edge that is out.  `Shows` and `After` say what a list of events shows at
a tick and that it is all due later; joining lists keeps both (`JoinShows`, `FlatShows`), and
edges rise within a frame, passes and frames follow one another (`FrameShows`,
`OffsetsGrow`).  `FlattenSeq` and `Offset` are recursive functions: that they obey
their recursion is proved by `Induct`, for each of them (`FlattenUnfolds`, `OffsetUnfolds`).

`AsAsked` is what is left to TLC here: the run checks `OutputsSchedule` against `shown` of
every compiled program of its instance, over a sweep and more.  For a program from
elsewhere (`shown` is empty) it asks nothing.

`AxiSession_proof` holds the proofs about `AxiProcess` and `WordQueue`, which share no state,
side by side: both argue about what is in a sequence.

About `AxiProcess`, for every number of transactions, faults and attempts, from
`AxiAssumption` and under the hypothesis `~CloseAnyTime` (close() comes between
transactions, as the run checks it; with it in the middle of one, `OneVivado` is false, see
section 3):

- `Invariance`, `NoSecondVivado` (`OneVivado`), `SessionHeals` (`HealsWithinTwo`: after the last
  fault at most two transactions fail);
- `Refinement`: `AxiProcess` implements `Transport` (`ImplementsTransport`), so every answer
  is of its own transaction, and a transaction takes effect at most once and in turn.

Only the latest generation of the process can run, so its input and its queue are all that
matters (`Processes`).  `Turns` orders them: the input is sorted and ahead of what took
effect, a line that says ok is of a transaction that did, and the end of file is in the
queue only of a process that is gone.  `HealsWithinTwo` counts failures and is not
inductive: `Budget` adds the failures still to come (`ToFail`), which the state of the
process and the place of the transaction decide: two for a reader left with a dead process,
one for a writer, one for a marker whose error is already in the queue.

About `WordQueue`, for every number of rows and chunks and either transport, from
`QueueAssumption`:

- `QueueInvariance`, `QueueTypeCorrect`, `QueueLeftEmpty` (`NothingLeftBehind`), with and without
  the thread that reads STATUS;
- `CallsHalt` (`CallHalts`) and `ArmedIsWhole` (`ArmedBankComplete`) under the hypothesis `~Reader`,
  without which `ArmedBankComplete` is false (section 3), and `CallHalts` with it: the reader
  may take the `SAFE` along.

`QueueInv` says who answers for a word: a thread has words of its own only while it queues
or flushes them, and words in `pending` have a thread that has still to flush.  The rest
follows words through lists that two threads take and replace.  `Emptied`: who puts a new
list where another has already put one, replaces an empty one, so no word is lost between
"take" and "reset".  `Landing`: once the `SAFE` is owed, it is still to be queued, queued,
taken or on the line, or the engine is halted.  `Chain`: the words of the chunk being
loaded follow one another from the line, through the list of the thread that may still
issue, through `pending`, to what is still to be queued, with nothing but commands and
markers between them; the bank they rewrite is closed from their first word to their last,
and the other one stays whole (`Loaded`).  A stop cuts the chain only at its end.

`SequencerService_proof`, for every number of clients and programs, with or without the
cache of prepared programs and failing transactions, from `ServiceAssumption`:

- `Invariance`, `TypeCorrect`;
- `StartsPrepared` (`FiresPrepared`) and `ShotIsItsOwn` (`ShotPlaysItsOwn`);
- `StopHalts` (`SafeMeansReset`) and `WaitTellsTruth` (`WaitTruthful`).

The invariant says what each place inside the lock knows (`Holder`: from `note` on the
session's program is the caller's, at `load` the image is) and what holds with nobody in
the middle of an upload (`Resident`: unless the device is halted or a transaction failed,
the image is the session's program).  A SAFE of another client lands outside the lock, but
it only halts the device, so it breaks neither.  `SafeMeansReset`
holds only at rest: in between, a prepare that began before the stop may load the device
again (`Stopping`), and it ends by saying `prepared`.  `WaitTruthful` needs what device and
session can say of the run a client's fire began (`Run`): while it plays, the engine runs, and
runs the session's program; if it was stopped, nothing plays and the latch is down
(`Latched`: the latch is up only over a halted device).  So a DONE or a latch that is seen is
never that of a run that still plays or was stopped.  `Told` carries this from the read of
STATUS to the answer, in between which the program may be replaced.

`HostInterface_proof` holds the proofs about `UartLink` and `StreamerTop`, which share no
state.

About `UartLink`, for every set of batches and every number of exchanges and faults, from
`UartAssumption`:

- `OwnAnswersAlways` (`QuietStartOwnAnswers`) and `SoundLineAlways` (`SoundLineAnswers`).

Three invariants, each resting on the one before.  `LinkInv` has the types and what the host
knows of its own exchange.  `OrderInv` adds that after a quiet start the frames on the line,
the one in the bridge's hands and those answered follow one another: the tokens of the line
are a chain of frames above all that took effect (`Chained`, `Above`), what the bridge
takes for a frame has the number of one that was sent (`FrameInHand`), and the answers out
so far are those of the frames that took effect (`Answered`).  It holds whatever the line spoils:
a damaged frame may be lost with the head of the next one, but nothing overtakes and
nothing is answered twice.  `SoundInv` adds that, as long as nothing of the exchange is
spoiled, the bridge meets the first byte of every frame at rest: in a gap, at a header or in
the body it has the bytes left that the frame still has on the line (`Sounds`), and the
padding before the next frame outlasts its commit and its reply.  What a batch puts on the line is defined by
recursion over its frames; the lemma `Induct` (a set of numbers that holds 0 and the
successor of each of its members is `Nat`) stands for the library's induction theorems, whose
operator parameter the provers cannot instantiate.

About `StreamerTop`, for every set of images and every length of the bus image, from
`TopAssumption`:

- `Invariance`, `TypeCorrect`, `LoadedIsCopied` (`LoadedMeansCopied`);
- `Refinement`: the mailbox with its loader implements `StreamerLifecycle`
  (`ImplementsLifecycle`).

`LoadedMeansCopied` rests on three things.  An image is rewritten only by a prepare whose
SAFE has been seen or is about to be (`Uploads`), so nothing shows LOADED and nothing is
on its way to the engine.  The loader sees a LOAD only in that state (`LoadPending`) and,
as it samples no command while it copies, nobody turns the copy into something else
(`Copying`).  The refresh that surfaces DONE runs only while the engine is out of reset,
where the last LOADED is about to be overwritten by the post of its own release
(`Loaded`): it never puts an old LOADED back.  A FIRE therefore finds a `LOADED` that is
true, and what the mailbox shows, its post under way included, is the phase.

`Acquisition_proof`, for every set of nodes, cameras and threads and every number of shots
and faults, from `AcquisitionAssumption`:

- `Invariance`, `PointsOwnFrames` (`OwnFrames`), `ShotsPlayedWhole` (`PlayedWhole`), `NothingStranded`
  (`NotStranded`) and `OneDriver` (`SoleDriver`).

A thread holds its camera from its arm to its disarm (`Holders`), so what is queued in
between is the holder's own, the user's pulse, or of a shot whose SAFE failed (`Queues`,
`Frames`): the lock of the camera does this, also for the threads of Apply.  What plays is a
shot under way, unless its SAFE failed (`Wires`), and is the thread's own program unless
others commanded the sequencer (`Whole`).  The console knows one thread per node, knows every
thread that it has not given up and Apply did not start, and lets no two nodes it knows share
a device (`Registered`): `SoleDriver` says what that is worth, and `ApplyExcludes` (section 3)
what it is not.

`SignalHub_proof` holds the proofs about `PulseScan` and `LiveView`, which share no state.

About `PulseScan`, for every number of live frames and points:

- `TypeCorrect`, `Tagged` (`TagNotOlder`) and `OwnReading` (`ExactUnlessDisturbed`).

`ExactUnlessDisturbed` speaks only of recorded points.  The invariant follows one point
from its snapshot to its record: before the publish the processor is quiet and the y
version is that of the snapshot; while the scan waits, the processor either has not
published yet and holds this point's frame or nothing (`Judging`), or it has published
exactly this point's result and is quiet again (`Judged`).  `Counted` bounds the ids
minted, `Ordered` makes each published frame the newest.

About `LiveView`, for every set of signals and scenarios and every depth of the ring, from
`LiveViewAssumption`:

- `LiveInvariance`, `BoardShowsOneShot` (`OneShotBoard`), `EpochTellsEdit` (`EpochMeansApplied`) and
  `NoEditUndone` (the action property `EditsInOrder`).

`OneShotBoard` speaks of panels drawn at the shot of their key, and leaves those aside whose
tick read another shot the second time (`NeverStagger`, section 3).  The invariant says why the
others agree: all keys carry one shot (`OneKey`), and panels left out of a drawing have that of
the tick in theirs (`Redraws`).  It also says what a key is worth: a panel that is keyed with
its signal shows it, drawn at no older shot than that of its key, unless it is `missed`
(`Backed`).  `EpochMeansApplied` needs to know where an edit is while the editor waits
(`Answers`): in force, or not yet taken by a pass and then not yet counted either.  A pass
that drained the queue and has not counted yet is the exception `overtook`; an edit that a
loop left behind when it ended is `leftover`, and `LateEdit` says that no other queued edit
is older than the one in force.

Only model-checked:

- `EdgePlayer`'s delayed outputs and `BusPlayer`'s DAC (`OutputLines`), and that
  `PulseCompiler` compiles what it is asked for (`AsAsked`), whose definitions are evaluated
  for the runs' programs: sorted sets, folds and sums over a program.
- All liveness properties (`CallReturns` and the others): they depend on fairness, which the
  installed backends do not cover.

## 6. Abstractions and assumptions

- One `list.append`, one rebinding and one attribute read are atomic, as under CPython's
  interpreter lock.  `self._pending.append(word)` looks the list up and appends to it in one
  step (`WordQueue`, `FiniteScan`).
- `Settled` in `StreamerTop`: a host word takes thousands of clock cycles, so it never
  lands in the few cycles of a synchroniser or of the loader's fire state; it may land
  anywhere in the copy.
- `load_timeout` is seconds and the copy well below a millisecond: `prepare`'s poll does
  not give up during a copy.
- `RESET` does what `SAFE` does; UNDERFLOW is modelled in the engine and left out of the
  mailbox.
- `MaxSweeps` bounds the wraps TLC lets the engine make; the proofs hold for each value.
- `EdgePlayer`: one slot per scan point; points are resident; the BRAMs' latency is the two
  cycles the Verilog's `RD_LAT` says; the seeds have settled when FIRE comes (the reset
  lasts thousands of clocks); programs without edges are left out; the branch that repeats
  from the bracket's start is dead, as the host never sets it; the host's calls take no
  time, so a deadline is met at the earliest moment the code allows.
- `BusPlayer`: one bus; no slot selects the start of a ramp, as no compiler emits one; the
  DAC's clock output is left out; a repeated program is followed for two sweeps and its
  tail (`Horizon`).
- `UartLink`: the CRC catches every fault; a fault hits one byte of a token; the bridge
  misses exactly the first byte of what arrives while it commits; a time-out of the host
  comes after whatever the line still holds.
- `AxiProcess`: what a script does is one effect; the process runs its input in order.
- `Acquisition`: a call of the sequencer is one step, with its work done or not if it
  raises; the program of a scan has one trigger; frames reach a camera's queue late or
  never, but not in another order.
- In `PulseScan` the processor is calibrated and has one input, the live camera is joined
  before the scan starts (its acquire polls the stop event, so the 2 s join is enough),
  and shots that raise or come back without frames are retried and change nothing here.
- `LiveView`: a processor reads a frame and its source shot at once (`PulseScan` takes them
  apart).  `_display_shot` itself looks at one signal after the other; here each of a tick's
  two readings is one step.  The throttle of a panel's redraw is left out, so a tick may come
  at any time.
- `FiniteScan`: the monitor thread polls until the scan is told done; of a row, one word
  stands for all.
- Deadlines are nondeterministic unless they are the subject (`EdgePlayer`): a wait may run
  out at any moment the condition is false.

## 7. Not modelled, and why

Drawing and widgets (one Qt thread), numerical analysis and fits, file formats, static
registries, the vendored camera driver, the virtual devices (a physics simulation), and
test code.  Image packing has no state; what it produces is the input of the refill
modules.  Of the pulse table: several buses, slots and API slots, clk channels, editing
and the cyclic preview of a delay.  Inside modelled parts: the clock outputs of the engine
(channels and DAC), a camera's recent ring and settings, several inputs of a processor, the service's
history and snapshots, tasks that report progress, and the notebook's `RunSession`.  The
reason for each is with its component in `PROJECT.json`.

## 8. Plan

Done, in this order: `ScanEngine`, `CyclicScan`, `FiniteScan` under `ScanPlayer`;
`WordQueue`; `StreamerTop` under `StreamerLifecycle`; `SequencerService`; `PulseScan`;
`UartLink` and `AxiProcess` under `Transport`; `Acquisition`; `LiveView`; `PulseProgram` and
`EdgePlayer` under `ReferencePlayer`, with the drain deadline; `PulseCompiler` as the source
of its programs; `BusPlayer` beside it.

Left:

1. Proofs.  The delayed copies of the schedule (`DelayedCopies`); that a table without scan
   points is compiled as it was asked for.
2. Several slots and buses; the bit layout of the image.
3. `RunSession`: worker, watcher and stop of the notebook's player.
