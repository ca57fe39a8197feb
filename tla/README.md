# Verification of the teleprotection IEDs

TLA+ models, TLC runs and TLAPS proofs for the two distance-protection IEDs of this
repository (ANSI 21 relays on Orange Pi boards, one at each end of a transmission line,
joined by a GOOSE direct transfer trip). Paths below are relative to the repository
root (`src/` in `PROJECT.json`).

## 1. Inventory: the system

### Components

| Component | Code | State it keeps | Operations |
|---|---|---|---|
| Relay A (IED A) | `Algoritmos/Distancia21_A.c` | `volatile int trip`, the log file, where its loop is and what is left of its sleeps | start the GOOSE thread, open the log, one protection pass (zone 1, zone 2, wait), `trip_` |
| Relay B (IED B) | `Algoritmos/Distancia21_B.c` | `trip`, `volatile int tripA`, loop position and sleep | start the listener thread, one pass with the poll of `tripA` |
| GOOSE trip publisher thread | `Algoritmos/goose_pub.c` | the data set (one MmsValue Boolean), the publisher | create, copy `*trip_ptr`, publish, sleep 1 ms |
| GOOSE trip subscriber | `Algoritmos/goose_sub.c` | `tripA_ptr`, the receiver | `set_trip_ptr`, `goose_listen_loop`, `gooseListener` |
| Zone geometry and impedances | both relays' `vectorProduct`, `isInsideQuadrilateral`, vertices, impedance loop | none | quadrilateral membership, ten-pattern fault selector |
| Sample acquisition | `Algoritmos/dataModule.c` | static file, line position, call count, sample buffer; `Dados/dados.txt` on disk | `data_read` |
| Phasor estimation | `Algoritmos/phasor.c`, `fft.c` | static phasor array | `get_phasors`, `compute_phasor`, the FFT |
| libiec61850 GOOSE publisher | `libiec61850-1.5.1/src/goose/goose_publisher.c` | `stNum`, `sqNum`, time to live | publish, `increaseStNum`, `reset` |
| libiec61850 GOOSE subscriber, receiver | `.../goose_subscriber.c`, `goose_receiver.c` | per subscriber: filters, data set, last numbers, `stateValid`, `parseError`, `invalidityTime`; per receiver: the list, `running`, `stop`, thread, socket | create, add, start, stop, destroy, tick, `parseGooseMessage`, `parseGoosePayload`, `parseAllData`, `isValid` |
| Ethernet and threads (Linux) | `.../hal/ethernet/linux`, `hal/thread` | sockets | send, receive, sleep |
| Series compensation direction | `Algoritmos/Compser.c` | `trip` | six voltage angles across the bank, fourteen direction verdicts |
| Impedance recorder | `Algoritmos/Impedancias.c` | none of its own | sixty passes of the relays' impedance loop that print |
| ATP formatters and plots | `Codigos_auxiliares/` | `dados.adf`, `dados_tmp.txt`, `Dados/dados.txt` | Python scripts run by hand before a relay; MATLAB plots after it |
| ATP circuits and records | `Arquivos_ATP/`, `Dados/` | data | none |
| rest of libiec61850 | MMS, IEC 61850 client and server, SV, ... | - | not used by the relays |

### Interactions

    export -> formatter -> dados.txt -> data_read -> get_phasors -> impedances -> zones
                                                          |                         |
                                                       Compser               fault selector
                  IED A's main thread ............. shared int trip ............... |
                  IED A's GOOSE thread: *trip_ptr -> tripValue -> frame -> socket   v
    ~~~~~~~~~~~~~~~~~~~~~~~~~~~~~~~~~~~~ Ethernet ~~~~~~~~~~~~~~~~~~~~~~~~~~~~~~~~~~~~~~~~
                  IED B's receiver thread: gooseListener -> *tripA_ptr = 1
                  IED B's main thread: at each pass, if (tripA) trip_("...barramento A - Zona 1!")

The two threads of each process share one `volatile int` each, with no lock. A trip never
clears: only a restart of the process zeroes it.

### What is hard, and what makes each part correct

- *Relays, publisher, subscriber*: four threads in two processes, a link that loses frames
  without telling, a buffer that fills, restarts at any time, sleeps that only promise "at
  least". Correct means: no invented trip, no trip without a cause, zone 2 never early
  (not even through the transfer), trips latch, a trip of A gets through while the link
  is up, and soon.
- *Zones*: typed vertices, closed comparisons, divisions by a current that may be zero.
  Correct means directional, no hole near the relay, nothing operated by NaN or infinity,
  zone 2 covering zone 1.
- *Impedances and selector*: earth compensation, six loops of which the healthy ones move too,
  ten exact patterns. Correct means: the faulted loops measure the distance, each fault is
  selected by its own arm, nothing operates beyond its reach.
- *Sample acquisition*: static state across calls, a partial last window, lines too short.
  A file that is
  rewritten in chunks while it is read. Correct means: windows contiguous and simultaneous over
  the channels, the file read to its end, nothing measured past a bad line.
- *GOOSE numbering and validity*: wrapping counters, loss, repetition, delay, restarts.
  Correct means: validity expires, repetitions are told from new messages, loss alone never
  invalidates.
- *GOOSE receiver*: one list of subscribers searched twice by different criteria, data sets
  overwritten element by element, a thread stopped at any point. Correct means: no mixture of
  two messages passes as valid, a data set keeps its shape, a lone subscriber gets only its
  own, stop returns and leaves nothing running or open.
- *Phasors and FFT*: in-place recursion, a bin chosen per channel. Correct means: the transform
  is the DFT, the result does not depend on when the window starts, nothing goes unseen.
- *Series compensation*: fourteen hand-written tests over wrapped angles. Correct means: phases
  and sides treated alike, independent of the instant, balanced voltages never taken for an
  unbalanced fault.
- *Formatters*: relative paths, two halves joined by a file. Correct means: a failed run leaves
  the recording alone, a run formats what it has read.

Every hazard is listed with its line under `hazards` in `PROJECT.json`.

## 2. The modules

| Module | What it is | Code |
|---|---|---|
| `DistanceRelay` | what both relays share: the ten fault patterns, the two waits | selector chains and `wait_ms` calls of `Distancia21_A.c`/`_B.c` |
| `GooseTripThread` | A's publishing thread | `goose_pub.c` |
| `IedA` | A's process, EXTENDS the two above | `Distancia21_A.c` |
| `IedB` | B's process: relay loop, listener thread, callback | `Distancia21_B.c`, `goose_sub.c`, receiver start-up |
| `Teleprotection` | A, B, the wire, time, restarts | all of the above |
| `TransferTrip` | abstract specification: a direct transfer trip without threads, frames or time | the promise of the pair |
| `TeleprotectionTimed` | `Teleprotection` with threads and a wire that are never late | the same |
| `Eisenstein` | exact complex numbers: integer combinations of 1 and a sixth of a turn | complex arithmetic of the relays and `Compser.c` |
| `ImpedanceZones` | vertices, vector product, membership, over doubles with Inf and NaN | geometry of both relays |
| `ZoneGeometry` | `ImpedanceZones` under an impedance that moves freely | the same |
| `FaultImpedance` | a line with bolted faults, the six units' impedances, the zones they fall in (INSTANCEs `ImpedanceZones` and `DistanceRelay`) | impedance loop and selector of `Distancia21_A.c` |
| `FourierTransform` | the transforms of a window of any power of two, exactly (operators, no variables) | `fft.c` |
| `PhasorEstimation` | EXTENDS `FourierTransform` with the choice of the phasor | `phasor.c` |
| `SeriesCompensation` | angles, verdicts and latch | `Compser.c` |
| `DataWindows` | `data_read` and what `get_phasors` does with its result | `dataModule.c`, `phasor.c` |
| `RecordingHandOver` | EXTENDS `DataWindows` with the formatter runs that write the file it reads | `formatador_dados_atp_*.py` |
| `GooseDispatch` | which subscriber a frame reaches and what it makes of it (operators, no variables) | `goose_receiver.c` |
| `GooseReceiver` | the receiver's life and thread, frames through `GooseDispatch` | `goose_receiver.c`, `thread_linux.c` |
| `GoosePublisher`, `GooseSubscriber`, `GooseLink` | numbering, validity, and a network between them | libiec61850's GOOSE |
| `Teleprotection_proofs`, `GooseLink_proofs`, `GooseReceiver_proofs`, `RecordingHandOver_proofs`, `FaultImpedance_proofs`, `ZoneGeometry_proofs`, `SeriesCompensation_proofs`, `PhasorEstimation_proofs` | the theorems about the module of the same name (the first: about `TeleprotectionTimed` too), section 4 | |
| `MCTeleprotection`, `MCTimed`, `MCAlgorithms`, `MCRecording`, `MCGoose` | small instances | |

`MCAlgorithms` and `MCGoose` run components that share no state side by side: one moves while the
others rest in their initial states, so the state spaces add instead of multiplying.

### How state and steps correspond to the code

*Relays.* `aPc`/`bPc` say where `main` is, `aSleep`/`bSleep` the milliseconds left of
`wait_ms`. A pass of `while(1)` is one action up to the sleep it ends in (`A_cycle`,
`B_cycle`); after the zone 2 sleep comes `A_zone2`/`B_zone2`, which trips unconditionally as
the code does. This is exact because a pass touches shared memory once: A writes `trip`, B
reads `tripA`. (A pass may write `trip` for zone 1 and go to the zone 2 wait: both effects
are in the action.) Setting `trip` and the first `Thread_sleep` of A's publisher interleave
freely: the copy of `*trip_ptr` (`goose_setBoolean`) and the send (`goose_publish`) are two
steps.

*Input.* A pass sees any element of `Windows`: for each zone, the set of the six units
whose impedance is inside. `FaultPatterns` are the ten arms as exact sets.

*Wire.* `net` is B's socket buffer; `Publish_lost` is every way to lose a frame, and is
always possible. Of a frame only the Boolean matters to the relays: the listener looks at
neither numbers nor validity, which is why numbering has a model of its own (`GooseLink`).

*Failures.* `pthread_create`, `fopen`, `GoosePublisher_create` and the receiver's start
may fail, each with what the code then does: a silent relay, an ended process, a listener
that returned, or a receiver that says it runs while nobody reads its socket (`"deaf"`).

*Restarts* (`RestartA`, `RestartB`) zero a process's memory and end its threads; with B's
process goes its socket buffer.

*Time.* `Tick` lets a millisecond pass. In `Teleprotection` it may pass at any moment, so
every sleep lasts at least what it asks for and a thread may be arbitrarily late. In
`TeleprotectionTimed` it passes only when no thread can run.

*History variables* (`verdicts`, `operatedA`, `sincePick`, `age`; in `GooseLink`
`lastSent`, `headSeen`, `lastSeen`, `follows`, `renumbered`; in `GooseReceiver` `called`, `frame`, `entered`; in
`DataWindows` `disturbed`) are read by properties only.

*Zone geometry.* An impedance is a pair of doubles; a double is an integer multiple of
`Resolution * 10^-5` ohm, an infinity or NaN, with IEEE rules for subtraction, product and
comparison. `Zr` walks over the whole grid and jumps to every non-finite value, which is
what division by a vanished current gives.

*Impedances.* `line` is the steady state of a line fed from the relay's end: the fault's kind
and place and the source's impedance, all in percent of the line's. Currents and voltages are
Eisenstein integers (multiples of 1 and a sixth of a turn), scaled by each fault's
denominator, so the divisions of the code are compared by cross-multiplying
(`LoopsMeasureDistance`) or rounded to 0.1 ohm for the zones. `DistancePass` is one pass of the
loop over a window of the line's next state.

*Phasors.* The transform of `FourierTransform` is over the integer polynomials in z, the root of
unity of order `BUFFER_SIZE` (z to the `BUFFER_SIZE \div 2` is -1), so it is exact for every power
of two: a sample turned by an angle is a polynomial with its coefficients moved (`Rotated`). The
recursion, the butterfly and the definition `fft_slow` are the code's. A squared magnitude is
compared for windows of 8 samples instead of 32, where it is of the form p + q*sqrt(2) and its
order is exact in integers. The range of bins and the strict comparison that keeps the first of
equal bins are the code's.

*Series compensation.* The six voltages of a window are multiples of the healthy ones by
`Deviations`; angles are thousandths of a degree, as `phase_angle_div` rounds them, and the
few directions that occur are tabulated (`InSextant`). One window follows another with one
voltage changed; `trip` latches as in the code.

*Sample acquisition.* A sample is the number of the line it came from; a file is the
sequence of its lines' field counts. `ReadBuffer` is the effect of one call's loops on the
static buffer, including the columns a failing call has already overwritten.
`data_read_past_end` is the call that finds the file shorter than what was consumed.

*Recording.* A formatter run is a program counter with the directory it was started in and the
export it has read. `tmp` (each directory's `dados_tmp.txt`) and `saida` (`dados.txt`) are copies
of an export: of which one, how many of its fields are written, and whether a run was stopped that
wrote it or what it was made from; None is a file that is not there. The relative paths are the
script's. Opening either file for writing empties it (`OpenTmp`, `OpenSaida`), then it is filled in
chunks (`WriteTmp`, `WriteDados`) that end after a number of fields in `Flushes`, inside a line too.
A run formats as much as its input holds, and so a part of an export when an earlier run was stopped
while it filled `dados_tmp.txt`. Runs may be stopped between any two steps, the relay restarted at
any time. `disturbed` records that the file changed since the relay opened it.

*GOOSE receiver.* `subs` is `subscriberList` with each structure's fields; an element of a
message is a type, a value and whether its length fits. `parseAllData` and
`parseAllDataUnknownValue` are the two parsers: the first overwrites until an element stops it
and reports nearly every cause as an underflow, the second builds a new data set. `app` and `thr`
say where the application and `gooseReceiverLoop` are; the two assignments of
`GooseReceiver_stop` are two steps, the join a third.

## 3. What is checked

All runs are in `PROJECT.json`, each with one question.

| Run | Config | What it shows |
|---|---|---|
| `teleprotection` | `Teleprotection.cfg` | safety of the pair under loss, lateness and restarts, and `ImplementsTransfer` |
| `teleprotection_live` | `TeleprotectionLive.cfg` | `TransferHappens` under `FairSpec` |
| `timed` | `Timed.cfg` | `TransferBound`: the best-case transfer time |
| `algorithms` | `Algorithms.cfg` | phasors, impedances and selector, zones, series compensation |
| `recording` | `Recording.cfg` | `data_read` on every small file, left alone or rewritten by formatter runs under it that may fail, be stopped, or format what a stopped run left; `FileConsumed` |
| `goose_link` | `MCGoose.cfg` | what `isValid` does say; what a receiver's dispatch, parsers and thread guarantee; `StopReturns` |
| `remote_report`, `phase_fault`, `stale_format`, `rollover`, `state_number`, `app_id` | - | disagreements, section 6 |

### Bounds, and why they are enough

- `Teleprotection.cfg`: cycle 2 ms, zone 2 wait 3 ms, retransmission 1 ms. Only their order
  (retransmission < cycle < zone 2) can matter, since each sleep is compared with nothing
  else; the proofs cover all lengths. `NetCap = 2` is the least in which order inside the
  buffer exists; `MaxRestarts = 2` allows each relay one restart, or one relay two. The
  windows are one of each kind the selector tells apart: a set that is no pattern (which
  moves a relay exactly as an empty one), a zone 1 fault, a zone 2 fault, and zone 1
  without zone 2.
- `TeleprotectionLive.cfg`: liveness graphs are larger, so cycle 1, zone 2 wait 2, one
  frame, one restart, and the windows "healthy" and "far".
- `Timed.cfg`: cycle 5, zone 2 wait 9, retransmission 2, so the three terms of the bound
  cannot stand in for each other. The bound is tight: one less in either branch is refuted.
- `Algorithms.cfg`, zones: 1 ohm grid from -80 to 80 ohm in both axes, which holds every
  vertex (at most 76.08 ohm) and all non-finite values. The vertices are rounded down to the
  grid, so the run speaks of the zones up to 1 ohm.
- `Algorithms.cfg`, phasors: every window of 8 samples of -1, 0, 1 (6561); the proofs cover samples of
  every size, and for the transform windows of every power of two.
- `Algorithms.cfg`, impedances: fourteen distances around both reaches (80% and 120%) and down to
  5%, six sources from 5% to three times the line, all ten faults and every spread of one into
  another. `FaultSelected` asks for a source of at least half the line for faults to
  earth and twice the line for faults between phases: below that healthy units get inside the
  zones, which `phase_fault` shows.
- `Algorithms.cfg`, series compensation: each of six voltages is nothing, healthy, a sixth of a turn
  early or late, or opposite: 5^6 windows, enough for each angle to be zero, of either sign and
  exactly half a turn.
- `Recording.cfg`: windows of 3 samples and 3 channels for 32 and 6, files of up to 7 lines
  put there by hand (two whole windows and every cut), one short line of every length at each of
  the first 4 places, two exports of 4 lines (12 fields) whose chunks may end after 5 fields, in the
  middle of a line, and after 9, at the end of one; `call_count` followed to 4. `StaleFormat.cfg`: two
  exports of 3 lines of 2 fields, chunks that end anywhere.
- `PhaseFault.cfg`: one distance and one source, both 5%: where the run's fault is.
- `MCGoose.cfg`, link: counters modulo 3 for 2^32 so that they wrap; time to live 1, delay 1,
  two messages on the way, one repetition or restart, clock up to 4. The two violation runs
  on `GooseLink` use modulo 4, time to live 2, clock up to 5.
- `MCGoose.cfg`, receiver: subscribers like IED B's, one for another APPID with the same
  reference, one with the application's data set, an observer; at most three subscribers and
  starts together (so two starts with one subscriber, or two subscribers and one start); data
  sets of two elements and messages malformed in one way each: short, long, a length that does
  not fit, the reserved tag, an unknown tag, another APPID, destination, reference, confRev or
  an old number, a frame cut short.

Deadlock is not checked in the two kinds of run whose models really stop: `GooseLink`'s and
`MCGoose`'s (bounded clock, a receiver that has been destroyed).

### Fairness

`TransferHappens`, `FileConsumed` and `StopReturns` need some. Weak fairness of each thread is the
scheduler's: every guard that waits is a sleep ending, which nobody else undoes. Weak
fairness of `Tick` says time passes. Strong fairness of `Publish_delivered` says that of
infinitely many frames sent to a live receiver with room not all are lost, which is what "the
link is not cut" means; it is an assumption about the wire. Restarts and failures are never
owed, and the property excuses every state in which the link is not up
(`LinkUp`) or A has been restarted. `FileConsumed` assumes the relay loop keeps calling
`data_read`, and promises something only if from some time on the file is well formed and left
alone, the relay is not restarted, and the file has all the lines that were consumed before it was
last rewritten (for a shorter one `data_read` fails until a restart). It covers a file rewritten
under the relay. `StopReturns` assumes that the receiver's thread and the call
of `GooseReceiver_stop` go on; `EthernetHandleSet_waitReady` returns after 100 ms, so the
thread's wait is never one for a frame.

## 4. What is proved

Each `*_proofs` module proves theorems about the module of its name, for every value of the
constants that the assumptions below admit. A run of section 3 checks the same formulas on a
small instance; the inductive invariants they come from (`SafetyInv`, `CopyInv`, ...) are in no run, but
can be added to the same configurations.

| Theorem | States | For every |
|---|---|---|
| **`Teleprotection_proofs`** | | positive waits, socket capacity, set of windows, number of restarts |
| `TypeCorrect` | `Spec => []TypeOK` | |
| `SafetyInvariant` | `Spec => []SafetyInv` | |
| `NoInvention` | `Spec => []NoInventedTransfer` | |
| `BTripHasCause` | `Spec => []TripBHasCause` | |
| `Selectivity` | `Spec => []ZoneTwoIsDelayed` | |
| `LatchesHold` | `Spec => TripsLatch` | |
| `FramesOrdered` | `Spec => []FramesFollowLatch` | |
| `TransferTripImplemented` | `Spec => ImplementsTransfer` | |
| the same, of `TeleprotectionTimed` | | waits with a cycle no longer than zone 2's |
| `TimedInvariant` | `TimedSpec => [](TypeOK /\ TimedInv)` | |
| `TransferBounded` | `TimedSpec => []TransferBound` | |
| **`GooseLink_proofs`** | | counter width of at least 3 values, time to live, delay, channel, faults |
| `LinkTypeCorrect` | `LinkSpec => []LinkTypeOK` | |
| `LinkInvariant` | `LinkSpec => []LinkInv` | |
| `Freshness` | `LinkSpec => []FreshWhenValid` | |
| `RepetitionsFlagged` | `LinkSpec => []RepetitionFlagged` | |
| `NewMessagesValid` | `LinkSpec => []NewMessageValid` | |
| **`GooseReceiver_proofs`** | | set of frames and of subscribers, number of starts |
| `ReceiverInvariant` | `ReceiverSpec => [](ThreadInv /\ SubscribersInv /\ AloneFilters)` | |
| `SubscriberAloneFilters` | `ReceiverSpec => []AloneFilters` | |
| `ServedSocketsClosed` | `ReceiverSpec => []EnteredCloses` | |
| `ValidMessagesWhole` | `ReceiverSpec => ValidIsWhole` | |
| `DataSetsKeepShape` | `ReceiverSpec => ShapeKept` | |
| **`RecordingHandOver_proofs`** | | window size, number of channels, length and number of exports, set of chunk ends |
| `RecordingTypeCorrect` | `Spec => [](TypeOK /\ UnreadInv)` | |
| `RecordingInvariant` | `Spec => [](TypeOK /\ WindowInv)` | |
| `WindowsInPlace` | `Spec => []SamplesInPlace` | |
| `WindowsCounted` | `Spec => []CountsWindows` | |
| `StopsAtShortLine` | `Spec => []NothingPastShortLine` | |
| `CopiesTracked` | `Spec => []CopyInv` | |
| `OutputWhole` | `Spec => []WholeOrUntouched` | |
| **`FaultImpedance_proofs`** | | distance and source, in whole percent of the line |
| `DistanceInvariant` | `DistanceSpec => []DistanceInv` | |
| `UnitsMeasureDistance` | `DistanceSpec => []LoopsMeasureDistance` | |
| `ReachCovered` | `DistanceSpec => []ReachSeen` | |
| `FaultsSelected` | `DistanceSpec => []FaultSelected` | |
| `ReachNotExceeded` | `DistanceSpec => []NoOverreach` | |
| **`ZoneGeometry_proofs`** | | resolution up to 10 ohm, and every finite impedance |
| `ZoneInvariant` | `ZoneSpec => []ZoneInv` | |
| `VanishedCurrentRestrains` | `ZoneSpec => []UndefinedRestrains` | |
| `ZonesDirectional` | `ZoneSpec => []Directional` | |
| `ZonesSeeCloser` | `ZoneSpec => []CloserFaultSeen` | |
| `ZonesBackUp` | `ZoneSpec => []ZoneTwoBacksUp` if `Resolution = 1` | only the code's own vertices |
| **`SeriesCompensation_proofs`** | | set of deviations in the model's directions |
| `SeriesInvariant` | `SeriesSpec => []SeriesInv` | |
| `PhasesTreatedAlike` | `SeriesSpec => []PhasesAlike` | |
| `AnyInstant` | `SeriesSpec => []InstantIndependent` | |
| `SidesAreOpposite` | `SeriesSpec => []SidesOpposite` | |
| `BalancedOnlyThreePhase` | `SeriesSpec => []BalancedIsThreePhase` | |
| **`PhasorEstimation_proofs`** | | window a power of two, samples of every size |
| `PhasorOfWindow` | `PhasorSpec => []PhasorInv` | |
| `TransformIsFourier` | `PhasorSpec => []FftIsDft` | |
| `LaterTurns` | `PhasorSpec => []LaterWindowTurns` if `BUFFER_SIZE = 8` | only windows of 8 samples |
| `NothingBelowHalfIsUnseen` | `PhasorSpec => []NothingUnseen` if `BUFFER_SIZE = 8` | only windows of 8 samples |
| `BadSampleTolerated` | `PhasorSpec => []OneBadSampleTolerated` if `BUFFER_SIZE = 8` | only windows of 8 samples |

### Assumptions

`RelayAssumption`, `PubAssumption`, `NetAssumption`: the waits and the socket's capacity are
positive, windows are sets of units. `WaitsAssumption`: a cycle (1000/60, about 16.7 ms) is no longer
than the zone 2 wait (200 ms), since the bound is the longer of the two that can stand before B's poll.
`PublisherAssumption` and `LinkAssumption`: the counters have at least the values 0, 1 and 2 (the
wrap to 1 after a zero needs them), the time to live is positive. `ReceiverAssumption`: frames
and subscribers are records of the shapes `GooseDispatch` declares, and what is counted is a natural
number. `DataAssumption`, `HandOverAssumption`: a window, a line and an export are not empty, chunks end
after natural numbers of fields.
`LineAssumption`: a fault and a source are at a positive distance. `ResolutionAssumption`: a unit
of the plane is at most 10 ohm, for a coarser one rounds a zone away. `DeviationsAssumption`:
each voltage is nothing or one of the six directions the angles are tabulated for.
`BufferAssumption`: a window has a power of two samples (said without powers: it has no odd divisor but
1), as halving it down to one sample needs; the code has 32. `MaxSampleAssumption`: samples have some
bound, and which one does not matter.

### Arguments

*Teleprotection.* `NoInventedTransfer`, `TripBHasCause` and `ZoneTwoIsDelayed` are not inductive:
they do not say that a `trip` of 1 was recorded in `operatedA`, nor what a relay in the
middle of its zone 2 wait has still to wait. `SafetyInv` adds just that: `FlowInv` (`trip`, the data
set, each queued frame and `tripA` are set only when A has operated), `WaitInv` (a relay in its
zone 2 wait has a zone 2 verdict, and the time since the first verdict plus what is left of the
sleep reaches `ZONE2_MS`; whoever has tripped without any zone 1 verdict has that wait behind it)
and `CauseInv` (A operated only after a verdict of A, B tripped only for a cause). `FlowStep` and
`WaitStep` show each preserved, action by action. The refinement maps A's main loop to `MeasureA`,
a listener call that sets `tripA` to `Tell`, B's main loop to `MeasureB` and everything else to a
stutter, using `SafetyInv` where a zone 2 trip must have its verdict and a frame its cause.

*Transfer time.* `TransferBound` speaks of the age of a trip; that age grows in three places, and
`TimedInv` says of each what is left to wait. `WaitingInv`: while the trip is still in A, its age
and what is left of the publisher's sleep are together at most one retransmission; a frame in the
socket costs no time, because the clock stands still while a thread can run; once `tripA` is set,
the age and B's own sleep together are at most the bound. `SocketInv` is needed for the second: B's
socket holds nothing but the frame just sent. `LoopInv` says which of its two sleeps B can be in, which
its verdicts decide.

*GOOSE link.* `DelayInv` bounds the age of what is on its way and ties `invalidityTime` to the last
accepted message: freshness. `SeenInv`: a message that was delivered and may be delivered again is the
one the subscriber's numbers are of: the repetition then fails the comparison of `sqNum`, at a
wrapped counter too. `OrderInv`: until the publisher starts over, the numbers accepted, those on
their way in sending order, and the publisher's next one are strictly ascending (`Earlier`, on
stNum and then sqNum): what is new is therefore valid after any loss.

*GOOSE receiver.* `ThreadInv` says where the thread can be for each place of the application and that
an open socket whose thread entered its loop is the latest one, whose thread has not closed it
yet. `SubscribersInv` gives the list its shape. `AloneFilters` is preserved with them: the header's
search and the payload's search of the list, which differ in general (section 6, `app_id`), find the same
subscriber when there is one. `ValidIsWhole` and `ShapeKept` are facts about `parseAllData`: the first element
that stops it is the least of a set of numbers (`WFMin` of the library gives it), before which each
element was written, stepped over or kept.

*Recording.* `WindowInv` is what `data_read` keeps between calls until somebody rewrites its file:
nothing was read before the file is open (`UnreadInv`); the line position is a multiple of the
window or the end of the file (`AlignInv`); column i of every channel is the newest line that
belongs there (`PlaceInv`), a partial last window included; the count of calls and the stop at a short line
are inductive with these. `WholeOrUntouched` is not inductive: it does not say what the file holds that a
run is about to format. `CopyInv` does: a `dados_tmp.txt` that no run fills and none was stopped in is
whole, a run past `OpenEntrada` has an input, and its output counts as stopped if that input does. A run
that ends has written as many fields as its input has, all of them unless the output is stopped.

*Impedances.* `FaultCurrent` and `FaultVoltage` are put into the relay's own formulas: K0 times IN is the
earth's drop (`EarthCompensated`), a loop's voltage is then the distance times its current
(`GroundUnitMeasures`, `PhaseUnitMeasures`), and the source drops out. For `ReachCovered` the quotient
is `d` at the line's angle after every rounding (`ImpedanceAt`, `ReachRounded`), and each of the four
zones, rounded to tenths of an ohm (`ZonesRounded`), holds everything at that angle below its top.
For `FaultsSelected` and `ReachNotExceeded` the units outside the loop count too. What such a unit
sees depends on the source: its voltage is a fixed linear combination of distance and source over a
fixed current (`SinglePhaseUnits`, `IsolatedUnits`, `TwoPhaseEarthUnits`), the same for the three
phases but for a turn of both (`Turned`). Its eleven quotients (`BehindOneFaulted` to
`EarthedPairAhead`) are each to the left of one side of each zone, rounded or not, which
is outside of it (`OutsideSides`); a unit without current divides by zero and is NaN, outside as
well (`NoCurrent`), as all six are on a healthy line (`NoFaultSeen`). A loop beyond the reach is above
the top (`LoopsBeyond`). What is left inside are the loop's own units, for which each arm of the
selector is tried (`Arms`).

*Zones.* A zone at any resolution is a quadrilateral of one shape (a corner at the origin, a
horizontal top, the left corner left of it, the last corner below the axis and right of the top's, each
side's slope in its order); the shape survives rounding down, and a polygon of that shape with the
origin as a corner holds with a point its half and of two opposite points one. NaN and infinity
lose a comparison on some side. That zone 2 contains zone 1 is a comparison of the vertices, proved for the code's
own (a coarser grid may round one zone's side over the other's).

*Series compensation.* An angle is a value per sextant; turning all voltages by a sixth of a turn adds
a constant to two angles that wrap alike, renaming the phases permutes the six angles, exchanging
the sides negates those across the bank; the fourteen tests are shown to go along with each of these
maps, test by test.

*Phasors.* `fft_radix2` and `fft_slow` are recursive functions; each is shown to satisfy its equation
(`StepsExist`, `SlowIsSum`), and only that equation is used. Where induction is over numbers it is
over a set of them (`SetInduction`, from the library's `WFMin`), which needs no operator parameter.
The sum that `fft_slow` writes down splits into its even and its odd places (`SumSplit`), the odd ones turned by one
place more (`SumRotated`), and the second half of the outputs differs from the first by half a turn
(`ButterflyTurns`): so a step of length 2M is right if those of length M are (`DoubledStep`), and the least
length at which some step were wrong cannot exist (`EveryStep`).

For 8 samples the transform is four bins of four coefficients each (`Spectrum`). That `max_index` is
some bin, and only one, needs the order of the magnitudes to be one: p + q*sqrt(2) > 0 is kept by sums
(`AboveSum`), by comparing squares of naturals, nine cases of signs. A window one sample later turns
bin k by k columns (`LaterSpectrum`), which leaves each magnitude as it was (`TurningKeepsMagnitude`).
Bins 1 and 3 have magnitudes that differ in the sign of q only, so if neither exceeds zero both vanish
(`WeakIsNothing`), and the samples of a window of which bins 0 to 3 vanish alternate. A disturbed cycle of the fundamental
is compared bin by bin where the window starts with it (`DisturbedFundamental`), and one sample later at a time
elsewhere (`DisturbedDelayed`, by `LaterPhasor`).

Two definitions were rewritten for these proofs without a change of meaning: `FaultCurrent` and the
product of doubles were a CASE with overlapping guards, which TLC reads in order and the logic does
not; both are an IF in front of it now, as the code decides.

### What is only model-checked

- Liveness (`TransferHappens`, `FileConsumed`, `StopReturns`): fairness and ENABLED are outside the
  prover's reach.
- `ZoneTwoBacksUp` at resolutions other than the code's own.

## 5. What is not modelled, and why

- Rounding of floating point: `PhasorEstimation`, `FaultImpedance` and `SeriesCompensation` are exact.
  Ties of two bins, an angle of exactly half a turn, and impedances within 0.1 ohm of a side are
  where a double may fall to either side.
- Magnitudes of windows of 32 samples (8 are modelled; the transform itself is proved for every power of
  two), windows that span a change of the line, load current,
  fault resistance, a source of another angle or zero-sequence ratio.
- `phasor.h` calls the phase degrees while `compute_phasor` returns radians; every user converts
  or uses it as radians, so the models carry angles as such.
- `time_since_start` and the interval log's contents: output only. The log's open failure
  is modelled. So are the recorder's printed impedances and `Compser.c`'s log of angles.
- A last line of `dados.txt` that is cut inside its last number is taken for a whole one by
  `strtok` and `atof`: the model counts fields, so a cut number is a field or is not there, in `dados_tmp.txt` too.
  glibc may serve lines from its own buffer after `rewind` when the file was rewritten; the
  model reads the file as it is.
- The interpolation of the formatters to the sampling grid: data, abstracted to which export
  a line is of. One formatter runs at a time and no export is saved meanwhile, as both are the user's
  doing by hand; a write that fails (a full disk) counts as a run that was stopped. The plot's export of
  `dados.adf` is taken to be whole when a script reads it.
- BER bytes, elements inside arrays and structures, VLAN tags, time stamps and the
  simulation and ndsCom flags of GOOSE messages; `GoosePublisher`'s encoding;
  `GooseReceiver_removeSubscriber` and the calls without a thread; a `pthread_create` that fails inside
  `Thread_start` (`IedB` has it, as a receiver nobody runs; joining such a thread is undefined).
- `volatile` without atomics: an aligned `int` is read and written whole on the target, so the
  two shared flags are modelled as atomic words.
- Plots (MATLAB, Python), ATP circuits and recorded data: output and input only.
- The rest of libiec61850 (MMS, client, server, sampled values, bindings, examples): a vendored
  library, nearly all of the repository's lines, of which the relays link only the GOOSE and
  hardware abstraction parts. Its behaviour is not this system's.

## 6. Where documents and code disagree

- `remote_report`: B prints "Falta detectada pelo relé no barramento A - Zona 1!"
  (`Distancia21_B.c:237`) for any transferred trip, also for one of A's zone 2
  (`Distancia21_A.c:275`): the frame carries one bit.
- `phase_fault`: a fault between phases inside "Região de atuação do relé para faltas fase-fase -
  Zona 1" (`Distancia21_A.c:175`) does not trip when other units are inside as well: at 5% of the
  line behind a source of 5%, AB has AT, AB and CA inside both zones, and no arm of the selector
  (`Distancia21_A.c:249`) accepts that set.
- `stale_format`: a formatter run from the root writes `./dados_tmp.txt` and then formats
  `Codigos_auxiliares/dados_tmp.txt` (`formatador_dados_atp_distancia.py:59`, `:71`), which a run in that
  directory left there and which is of another export than the one just read, and says "gerado com
  sucesso". In the run no formatter was ever stopped. (When one was, while it filled that file, the run
  from the root says "gerado com sucesso" of a part of an export; that is why
  `WholeOrUntouched` asks that no run was stopped.)
- `app_id`: "If APPID is set the subscriber will ignore all messages with other APPID values"
  (`goose_subscriber.h:123`); with two subscribers the header is filtered for either and the
  payload handed out by reference alone (`goose_receiver.c:925`, `:660`).
- `rollover`: `goose_subscriber.h:134` calls a subscriber valid if messages come with correct
  sequence ID; when the last message accepted had the greatest `sqNum` and the next one sent arrives,
  with the 1 the publisher wraps to, it is called invalid (`goose_receiver.c:824`), although none was lost
  between the two or repeated and nobody restarted.
- `state_number`: `goose_publisher.h:190` asks for a new state number when a member of the data
  set changes; `goose_pub.c` never raises it.

## 7. Plan

Done, in this order: `DistanceRelay`, `GooseTripThread`, `IedA`, `IedB`, `Teleprotection`,
`TransferTrip`, the timed composition, `ZoneGeometry`, `DataWindows`, the GOOSE link, the
theorems about `Teleprotection`; `SeriesCompensation`, `FaultImpedance`, `PhasorEstimation`,
`RecordingHandOver`, `GooseDispatch` and `GooseReceiver`; the theorems of the other modules
of section 4.

Next: magnitudes in the ring of a window of 32 samples, where the order of the bins is one of
numbers of degree 8; the BER coder over bounded frames (encode, then parse, gives back the message),
and elements inside structures.
