# Incubator daemon: TLA+ models and proofs

`jincubator` is the control daemon of an egg incubator.  One C++ program
(`src/src/jincubator.cpp`) reads sensors, drives heaters, humidifier, air
damper, cooling valves, fan and egg turner, and shares every value with a
touch-panel program through one array of 16-bit words in shared memory
(`shm_out`; `shm_old` is a second array with values seen before).  This
directory specifies the daemon's control logic, checks it on small instances
with TLC and proves the central safety properties with TLAPS.

All line numbers below are lines of `src/src/jincubator.cpp` unless another file
is named.

## 1. The system

The program has no locks.  A word is read and written by any thread with a plain
load or store, so every interleaving of two words' accesses is possible, and
that is where most of the difficulty of this code lies.

| Part | Code | State it keeps | Who else touches it |
|---|---|---|---|
| Main loop `thread_main_func` | 10004-10663 | mode words `SYSTEM_INIT+0..13`, preheat window, calibration backup `BACKUP_*`, `R_RUN_SECOND_STATUS` | panel writes commands and times, timer counts |
| Mode words `get_run_mode`, `set_run_mode` | 7001-7071 | the 14 words as one bit set | every block of the main loop |
| `run_sys_time` | 3781-3990 | incubation time, maximum day, settings taken over | panel |
| 100 ms timer `timer_callback_func` (SIGALRM) | 7382-7755 | all countdowns; the damper's estimate every 100 ms, the others once a second | interrupts any thread |
| Damper `control_damper`, `damper_control_func` | 493-568, 4575-4915 | two relays, `R_AI_AD`, calibration words | timer, test mode |
| Test mode `test_control_mode` | 4002-4572 | 12 buttons, `TEST_CONTROL_MODE`, `TEST_BTN_TIME` | panel, timer |
| Alarm thread `thread_alarm_func` | 9138-9980 | alarm words, delays, lamp and bell | collectors, motor thread, timer |
| Alarm silence | 10444-10481 | `R_CLOSE_ALA_SEND/RECV`, `ALARM_SUPPRESSION_TIME` | panel, timer, alarm thread |
| Backup thread `sysn_thread_func`, `syn_shm_to_ini` | 7769-8002, 3101-3186 | files `sync_1..10.dat/.md5` | everything writes the memory it copies |
| Start-up `init_para`, `syn_ini_to_shm` | 1935-3096, 3191-3240 | restores the memory, clears word ranges, chooses the mode | - |
| Synchronous motor thread | 8440-9005 | command, status, frequency words; failure count | main loop writes the command |
| Egg turner `flip_egg_func`, `control_egg` | 9011-9135, 626-660 | direction, execution, count | timer, test mode |
| Reflux water duty cycles | 5399-6998 | 4 channels x work time, stop time, cycle count | timer |
| Temperature and humidity logic, PID | 4920-5394, `job_tc.cpp` | PID pulse counts | timer |
| Schedules `update_set_para`, `preheat_set_para` | 3338-3776 | set values of the day | panel |
| Sensor collectors | 8007-8435 | measured values, ABNORMAL words | alarm thread |

How the parts meet:

* The **panel** switches a `*_SEND` word ON.  The main loop notices it in the block
  for that command and writes the matching `*_RECV` word with `set_run_mode`,
  which writes every mode word but `R_CHECK_SEND`.  A command that arrives between
  a block's read and that write is overwritten.
* The **timer** is the only thing that counts: a delay is started by one thread,
  counted by the timer, and tested by another thread.
* **Modes decide** who drives the outputs: START and PREHEAT run the control
  functions, STOP and CALIBRATION switch them off, and the mode of the motor's
  command word and the damper follow.
* The **alarm thread** looks at words that all others write, and the bell is
  its answer, one second late.
* A **restart** throws the whole memory away for the first valid backup file (1954-2234),
  which is up to one writing cycle old (ten files and 5 s, 7968-8000), and then clears the
  ranges that `init_para` clears.  A component must live with words of its own from an
  earlier moment, among them a command or an edit that is undone, next to words that were
  cleared and relays that are off.

Hard behaviours: unsynchronised interleavings (all parts), two-step reads and
writes of one decision (calibration, default mode, frequency), stops between file
operations, lost, late and reordered answers on the serial line, delays restarted
by events, and the sequences of commands nobody tries on a bench.
`PROJECT.json` lists the hazards line by line with the properties that cover them.

What makes each part correct, in a sentence:

* modes: one mode at a time, stop is cold, calibration and preheat end and give
  back what they took, an incubation at its limit is reset;
* damper: never both relays, a possible estimate, every test and calibration ends,
  the damper rests outside the run modes;
* alarms: what stays wrong rings, what is well does not, a silence ends and is shown;
* backup: a restart finds an image, whole and of values that were really there;
* motor: a motor that must stop stops, one that must run runs, a dead line is shown;
* reflux water: cold and hot cycles of a channel never run together, a valve that is
  needed ends up open, one that is not ends up closed;
* test mode: a test ends, gives its output back to the automatic control, and in a mode
  that drives nothing only a test drives;
* eggs: driven one way at a time, every turn ends, counts at most once and is followed by
  another one;
* schedules: a set value is that of the latest entry whose day has come.

## 2. Modules

| Module | Models | Extends |
|---|---|---|
| `ModeSwitch` | what the main loop promises of the modes (abstract) | - |
| `RunMode` | main loop blocks, mode words, preheat, calibration, end of incubation, restart; refines `ModeSwitch` | - |
| `Damper` | damper relays, control, test buttons, timer part, calibration | - |
| `Alarm` | alarm thread, silence blocks, timer part, restart | - |
| `BackupStore` | what the backup promises (abstract) | - |
| `BackupFiles` | files, MD5, copying, stops, restore; refines `BackupStore` | - |
| `MotorDrive` | what the motor thread promises of its commands (abstract) | - |
| `Motor` | motor thread, command words, line, drive; refines `MotorDrive` | - |
| `Reflux` | reflux water: four channels, valves, duty cycles, tests, modes, restart | - |
| `TestMode` | test buttons of plain outputs, the gates of `control_*`, the timer's part, restart | - |
| `EggTurn` | egg thread, `control_egg`, egg button, the timer's part, restart | - |
| `Schedule` | `update_set_para`, `preheat_set_para`, the day word | - |
| `MC*` | values of the constants for TLC | the module |
| `*Proofs` | theorems and proofs (`EggScheduleProofs`: of `EggTurn` and, as an instance, `Schedule`) | the module, TLAPS |

`PROJECT.json` "map" names, for each definition, the lines it stands for.
The operators whose comment begins "Faulty variant" are never used by `Next`: each
is the plausible mistake in the definition that follows it, kept to show that the
properties notice it.

### RunMode

`mode` is the set of mode words that are ON, so `set_run_mode(m)` is
`SetRunMode(m)`: everything but `CHECK_SEND` is replaced.  `pc` walks through the
blocks of one pass in the code's order (`sys`, `start`, `run`, `stop`, `halt`,
`preheat`, `init`, `calib`, `timed`, `click`, `default`, `idle`); the panel and the
timer act between any two.  Where a block reads and later writes, there are two
steps: `CalibrationBackup`/`CalibrationEnter` and `DefaultRead`/`DefaultStop`.
`outputs` says who drove heating and humidity last.  Both calls of
`set_run_mode` at the maximum day are in one block and leave what the second one
writes.  `image` is what the backup files hold of the mode words, the window and the
incubation clock: `Save` takes it between two blocks, `Restart` (1954-2234, 2985-3096)
brings it back, whatever was commanded or edited since.  START or PREHEAT of the image is
resumed, anything else becomes the stop command; words 400-499 (with `BACKUP_*`) are gone,
and the time since the copy is added to the incubation.  So a restart soon after a stop
command resumes the incubation, as the code does.

`ModeSwitch` says the same without words and blocks: the machine does one thing
(`doing`), has a window, an incubation that has lasted so long, and what calibration will
give back (`held`); `Keep` takes a copy (`kept`) of these.  A mode changes by a start or stop command, at the limit of the
incubation, when a window begins, is over or is empty, by calibration, by its release, or
by a restart (`PowerCut`) that resumes the incubation or the preheat of the copy, or nothing,
with the window of the copy, and by nothing else; preheat begins only inside a proper window; the incubation is thrown away only by the reset command or by
the end of a preheat.  The refinement mapping lets calibration begin with its first step, the
saving (`Calibrating`): then what is given back is what there was at that
moment, and a window written before the second step is lost (it is hidden by the mapping as
the second step overwrites it).

Abstractions: seconds and days are small numbers; a pass contains at most one second
(it waits 250 ms); the timer's second is one step, so the two words of
`R_RUN_SECOND` change together; `PRE_SEND` is not among the panel's commands, since no
code reads it.  An image is taken at one moment, between two blocks (torn copies are the
subject of `BackupFiles`), the clock in it is `R_SYSTEM_TIME`, written once a pass (3854), and
a start without any valid file is left out.  Taken over from the panel at the start of a pass: clock and
calibration time (`Settings`).

### Damper

A control call writes two relays one after the other; `calls` is what the running
block has still to call, `MakeCall` is the part of a call before its last write and
`SetRelay` that write, so the timer and the motor come between.  `Decisions` are the
calls a pass of `damper_control_func` can make, given what the sensors may say;
which one it makes is a choice, since no property depends on the temperature.  `pos`
is where the damper is, `ad` where the software believes it is.  `Tick` is the
damper part of the timer handler, run every 100 ms, open half before close half, with
its transfer of the remaining time at a reversal (modulo 2^16 in the code, `WordMod`
here).  `CallWithoutFan` is the refusal while the drive reports a standing motor.
Of the twelve test buttons the two of the damper are here; they are pressed, pressed
again and run out of time at any step, and a calibration has to survive that.
A restart finds both relays off and the estimate and the settings of an earlier moment,
so the estimate may be wrong until the damper reaches an end.

### Alarm

One pass of the thread is `Find` (compare, latch, start delays) and `Ring` (lamp and
bell); the collectors, the panel and the timer may act between them.  A measured value
is a level relative to its alarm point and hysteresis band, so the latch (`Latched`)
is the code's two tests.  `lit` are the alarms that are ON; `time` the
countdowns.  `scenario` is a bound: which inputs vary, how often, and whether the fan
has a synchronous motor.  The silence command is three actions, as the code has
three blocks.  `TickRead` exists for the one word that the timer decrements and
another thread clears (`ALARM_SUPPRESSION_TIME`, 7571-7573 against 10477).  The lamp of a
sensor fault is that of 9764, which masks the third channel's fault with `0x03`.  `Cause` is what each
delay waits for, as the thread has last seen it: the words and the set of channels it compares
with to know whether a cause is new.

Abstractions: alarm delays are fixed (editing one starts that delay again, 3870-3990, so
`HumidWaited` and `DelaysRun` speak of the time between two edits);
the other countdowns tick in one step; the deviation alarm's points are part of the
levels; a pass is two steps; a restart brings the silence words of any earlier moment.

### BackupFiles and BackupStore

A file is the sequence of words written so far; a checksum file is the content it
stands for (so equal MD5 means equal content), or `NoSum` while it is being written.
`OpenFile`, one `CopyWord` per word, `CloseFile`, `OpenSum`, `WriteSum` are the steps of
`syn_shm_to_ini`; any thread may write the memory between them.  There are two ways to
stop, and both may come anywhere.  `Stop` is the end of the daemon alone: memory and files
stay.  `PowerCut` loses the memory and leaves of each file what the disk holds (`ddat`,
`dsum`): nothing is ever flushed (3114-3184), so the kernel brings data and checksum to the
disk separately and when it likes (`FlushData`, `FlushSum`).  One power cut may therefore
take every file that is not yet written back; as all ten are rewritten within some
seconds, that may be all of them, and no property promises otherwise.  `hits` counts the files that
were at risk: the one being written at each stop, and at a power cut every file not on the
disk too.  `SurvivesStops` promises an image only while that count stays below the number of
files.  `TakeFile`, `RejectFile`,
`StartAnyway` are the chain in `init_para`.  The last word is the running
time: an image in which it is 0 is rejected but stays in the memory, as in the code.
`seen` is a history variable: the values each word had since the file was opened.

`BackupStore` is the promise: a set of images, each made of values the memory held, and a
start that continues from one of them when there is one.  `found` are the images a power cut
may bring back: of each step but a power cut at most one image is lost (`Change`,
`Flush`), and a power cut (`PowerCut`) keeps some of `found`, or none.  The refinement maps
the memory to "nothing" while the program is not running, `kept` to the images
whose checksum agrees and `found` to what old or new data may be with an old or a new
checksum.

### Motor

The main loop gives a command only when the last one is done (`Give`); the
motor thread sends start, stop, reads the status, sends the frequency if it changed,
reads the current.  An exchange is one step with the outcomes of `Exchanges`:
answered, lost (request or answer), delayed, overtaken by an answer that was late, or
shifted: overtaken, and its own answer late in turn, which may go on from exchange to
exchange; an answer is accepted by its function code, as in the code.  `fails` is
`i_alarm_status`.  The drive may trip, and a restart clears the daemon's words (the mode is
start or stop mode of an earlier moment) while the drive keeps turning.

`MotorDrive` is the promise: a command that was given stays `wanted` until the drive
has taken it, and the drive turns only because a start was wanted.  The exception are answers
that come after their request was given up: each of them may make the daemon believe in one
command that the drive never got.  `Motor` refines it with the command word as `wanted` and,
as `strays`, the delays the line may still cause and one more while a late answer is on the
line, so late answers and wrongly cleared commands are counted one for one.

Abstractions: the mode is synchronous throughout (`R_SYNC_MOTOR_MODE` is not switched);
`R_SYNC_MOTOR_CONTROL_FAULT` is never read from the drive, so its test never blocks a
command; a pass of the main loop is one step; the current frequency is only a display
value.

### Reflux

The eight functions for channels 1-4 in normal and preheat mode differ in the channel's
words and in how they choose between cold and hot water, so one `Call(c)` stands for all;
`map` points each of its cases at another one of the eight.  A pass of the main loop is a
`Block` and then one `Call` per channel; the timer, the sensors and the panel act between any
two.  `temp` is the order of the measured and the set value.  `Close` and `Open` are the
gates: a test or a faulty sensor leaves the valve alone, a standing motor closes it (but
opens channel 4's, whose gate has no `return`).  `Pulsed` is the valve the
working part of a cycle opens: valve 1 for channel 4 in cold water, as 6049 and 6850 say.
A channel is `Waiting` after the beginning of a
mode and in the pause of a cycle, except channel 1 where its valve is `Lent` to the cold
cycles of channel 4 (those cycles open valve 1 again while channel 1 rests or is off, for as
long as channel 4 works; so `ValvesSettle` promises that valve 1 comes to rest only
outside them).
The pause is the difference of two words the panel edits separately, modulo 2^16
(`WordMod`).  Abstractions: a call is one step; the timer's second is one step; the mode
changes between two passes (calibration gives the saved mode back, or a command or a
window ends it; a mode that `RunMode` leaves for one pass without any word is not a mode here),
and a test is only its begin and its end.

### TestMode

A pass of the main loop is three steps: `Control` (the automatic writes of a mode),
`Read` (the buttons that are ON) and `Act` on what was read; the panel, the timer, the
sensors and the fan motor may act in between.  `After(o, status)` is what a call of the
gate of `o` leaves: a gate leaves an output alone that a test holds or whose sensor is
faulty, and closes a water valve while the motor stands.  `control_spray` compares the
*number* of the alarm word (608), so the automatic control never sprays, and `Word` maps
valve 3 and valve 4 to one test word, as `define.h` does (549).  One button that is read
alone starts a test when none runs; anything else that is read while a test runs ends that
test, switches every output off and clears all buttons, one pressed meanwhile with them.
Abstractions: the control calls of a pass are one step (each output has a word of its
own); lamp, bell and fan, which have no gate, are not among the outputs.

### EggTurn

The thread's pass is the start of a turn (`Look`, `Start`), the two relays one after the
other (`Drive`, `Driven`), the end of the turn (`TimeOver` reads the clock, `End` writes the
word) and the count (`Count`, `Add`); the panel, the timer, the detector and test mode act
between any two.  `clock` is the time since the thread saw the turn, `Unset` before
that.  `trigger` and `armed` are the words that let a turn be counted, and `fresh` is a
history variable: a turn was started since the last count.  A broken-off test of another
output is `Abort` (4466-4526), the egg button `TestStart` and `TestEnd`.  A restart
brings direction, execution, time and trigger of an earlier moment.  The number of turns is
left out.

### Schedule

Eight tables of day words and values.  `First` writes the first values of all kinds,
`Follow(k)` is one of the eight loops; the panel may write one word of a table between any
two.  `Matches` is the test of the loop, with the table the code looks the entry before up
in (`HeadOf`); `InForce` is the reference it is compared with: the latest entry whose day
has come.  `HeadHasCome` says that the day the code looks up before the entry in force has come too; it
is what a schedule needs to be followed.  `calm` is a history variable: the panel wrote nothing since `First`.  `DayWord`
is `timer()` of `jlib.cpp`, days and hours in one decimal word.

## 3. What is checked

Every passing run explores its whole bounded state space.

| Run | Asks | Bounds that matter |
|---|---|---|
| `mode_words` | one mode; refinement of `ModeSwitch` (each change of the mode has its cause, calibration gives back what it took, a restart brings mode, window and incubation of the last copy); stop and calibration are cold; start counts; preheat keeps its window and ends; calibration ends on click; overdue incubation reset; no orphan heat | 3 panel actions of any kind and no restart, or 1 restart and 2 panel actions: start and stop, start and calibration, two window words, or one clock setting; windows proper, empty, half written and reversed, clock 0-4 and set anew, an incubation that ends and one that does not |
| `mode_timer` | *violated*: the timed release of calibration lasts | one calibration command |
| `damper_moves` | a reversal breaks before it makes, never both relays; estimate and words in range; one countdown; the damper rests outside the run modes; calibrations end | 2 panel actions, 1 calibration, 1 mode change or restart, 3 positions, a fan that runs for good and one that may stand |
| `alarm_bell` | delays are waited for, not started again and not cut short; silence shown and ended; what stays wrong rings (overheating, fan, egg signal, reflux); the bell stops | six scenarios of 2-3 changes, 0-2 presses, 0-1 restarts |
| `alarm_stopped_fan` | *violated*: a fan that stops in stop mode rings after its delay | the two switches |
| `backup_stops` | an image survives; only whole images are valid; refinement of `BackupStore`, with stops of the daemon and with a power cut that finds any files not yet on the disk | 3 files, 2 words; 3 stops of the daemon and 2 writes, or 1 power cut and 1 write |
| `backup_disk` | *violated*: only whole images are valid, on a full disk | 2 files |
| `motor_line` | refinement of `MotorDrive` (a command is given up only against a late answer or a restart); fault bits and loss shown truthfully; the motor obeys for good | 2 changes, 2 late answers, 1 restart, 2 frequencies, count wrapping at 3 |
| `reflux_valves` | one kind of water at a time; only a test opens the valve of a channel that waits; every valve settles | channels 1 and 4, 2 events of any kind (input, edit, command, test, restart), 2 cycles, pause of 1 and wrapped pause of 3 |
| `test_buttons` | a test word is ON exactly while its test runs; in stop and calibration only a test drives; tests end; an untested output comes to rest | heating, blower, valves 3 and 4, 3 presses, 2 mode changes or restarts, 1 fault, tests of length 0 and 1 |
| `egg_turns` | a turn counts once; one direction at a time; turns end and go on | interval 1, periods 1 and 3, 2 tests, 1 broken-off test, 1 edit, 3 detector edges, 1 restart |
| `schedule_own` | *violated*: the humidity follows its own table | 3 entries, 2 columns of days, 1 edit, 2 hours |

Why these bounds.  Each counter bounds the surroundings, never the program: the
loop, threads and timer go on for ever in all runs.  The hazards need one to three
outside events (a command in a block's gap, a second one against it, a restart on
top), and the constants let delays, windows and countdowns expire within a run:
every delay is 1 or 2 ticks (2 where a property must notice a delay that is started
again at each pass), the incubation reaches its maximum, the clock passes every window,
the damper reaches both ends, the count of failures wraps.  The thresholds only
matter by their order, which the small values keep.  3 files and 3 stops include the
case where one file less than there are can be damaged; 2 words are the least
that can be torn.  One power cut meets every combination of old and new data and checksums
of the three files, none lost to all lost.  `CopyAt` are the moments at which the
modes' image may be taken: the end of a pass and between the two steps of an
entry into calibration, where the words are those of a mode about to be taken away; in the proofs it is any
block.  `Budgets` says how
many outside events, of which kinds, come together: more of them without a restart, and fewer with
one, as the image multiplies the states.  Two are enough to undo one: a mode is begun, copied,
and left again (a stop, a calibration) or the window edited before the restart brings it
back.

The six alarm scenarios: `Heat` (temperature and auxiliary detector with silence
presses and a restart, timer racing with the silence command), `Humidity` (the same
without the race, so that `QuietIsShown` speaks), `Fan` and `SyncFan` (all six fan
switches without and with a drive), `Reflux` (two channels, switching channels off,
sensor faults) and `Egg` (egg signal, its bell switch, CO2).

Fairness.  `WF(Main)` (or of the thread's actions) because the loops are `while (1)` with
a fixed wait and no blocking call on the modelled path; `WF(Tick)` because `setitimer`
repeats; `WF(Move)` because a damper motor under power moves; in `EggTurn`
`WF(TestEnd)` because `TestMode`, where a test is taken through its button, its
time and the other buttons, shows that a test ends (`TestEnds`).  The operator, the power,
the line, the sensors and the drive owe nothing.  The only strength used is weak
fairness.

### Disagreements between code and its comments

1. **Timed release of calibration** (`mode_timer`, 10607): `R_CHECK_SEND` stays ON, so the
   next pass enters calibration again.
2. **Fan stopped in stop mode** (`alarm_stopped_fan`, 9685): the delay is loaded again at
   every pass and never ends.
3. **Full disk** (`backup_disk`, 3162): `fwrite` is not checked and the short file gets a
   matching MD5 and the log line that says it was saved.
4. **Schedules of humidity, CO2, damper, reflux 1 and 2** (`schedule_own`, 3425): the entry
   before is looked up in the table of the temperature, so an entry whose day has come is
   passed over and the first value is used instead, or that of an empty entry behind the last
   one.

Met while modelling, kept in the models as they are and without a run of their own: the
third reflux sensor masked with `0x03` (9764); a frequency that is remembered as sent before it
was (8744); the test of an alarm word's number in `control_spray` (608); the shared test
word of valves 3 and 4 (`define.h` 549).

## 4. What is proved

For all values of the constants, under the `ASSUME`s of the module (natural numbers,
non-empty sets, `Alarmed < Wrap`; each is evaluated by TLC for the runs):

| Theorem | States |
|---|---|
| `RunModeProofs`: `TypeCorrect`, `ModesExclusive`, `BackupSound`, `StopSafe`, `StartCounts` | `[]TypeOK`, `[]OneMode`, `[]BackupIsNotCalibration`, `[]StoppedIsOff`, `[]StartedCounts` |
| `RunModeProofs`: `RunModeImplementsSwitch` | the refinement `ModesSpec` |
| `RunModeProofs`: `PreheatKeepsWindow`, `CalibrationCold` (if the panel writes no window word of 0) | `[]PreheatHasWindow`, `[]CalibrationIsCold` |
| `DamperProofs`: `DamperTypeCorrect`, `RelaysExclude`, `CountdownExclusive`, `StoppedRests` | `[]TypeOK` (with the range of the estimate), `[]NeverBoth`, `[]OneCountdown`, `[]StoppedIsStill` |
| `DamperProofs`: `ReversalBreaks` | `BreakBeforeMake`, of every step |
| `AlarmProofs`: `AlarmTypeCorrect`, `HumidAlarmWaits`, `SilenceIsShown` | `[]TypeOK`, `[]HumidWaited`, `[]QuietIsShown` |
| `AlarmProofs`: `DelaysRunOn` | `DelaysRun`, of every step |
| `BackupProofs`: `BackupTypeCorrect`, `OnlyWholeImages`, `ImageSurvives`, `FilesImplementStore` | the invariants (disk not full) and the refinement `StoreSpec` |
| `RefluxProofs`: `RefluxTypeCorrect`, `WatersExclude` | `[]TypeOK`, `[]OneWater` |
| `RefluxProofs`: `WaitingStaysShut` | `WaitsShut`, of every step |
| `MotorProofs`: `MotorTypeCorrect`, `FaultBitsPending`, `LossAfterFails` | `[]TypeOK`, `[]FaultIsPending`, `[]LostAfterFails` |
| `MotorProofs`: `MotorImplementsDrive` | the refinement `DriveSpec` |
| `TestModeProofs`: `TestTypeCorrect`, `TestHoldsItsWord`, `OnlyTestsDrive` | `[]TypeOK`, `[]OneTest`, `[]UntestedRests` |
| `EggScheduleProofs`: `EggTypeCorrect`, `TurnsCountOnce`, `TrayOneWay` | `[]TypeOK`, `[]CountsTurns`, `[]DrivenOneWay` of `EggTurn` |
| `EggScheduleProofs`: `SchedulesTyped`, `LookedUpTablesFollow`, `OwnTablesFollow`, `SharedDaysFollow` (if the columns are tables of numbers) | `[]TypeOK`, `[]LookedUpFollows`, `[]OwnTableFollows`, `[]SameDaysFollow` of `Schedule` |

The arguments:

* **Modes.** `OneMode` alone is not inductive: calibration restores what it saved, so the
  invariant `IInv` also says that the saved set has one mode (`OneSavedMode`).  For
  stop mode to be cold at the end of a pass it must be known that from the stop block on the
  outputs are off *and* that a preheat window would begin with its initialisation,
  which changes the mode before it drives anything (`StopHolds` with `preInit`), and the
  same of a saved stop mode while calibration holds it (`SavedStopHolds`).
  `StartHolds`/`SavedStartHolds` do this for the incubation clock.  `PreheatHasWindow` and
  `CalibrationIsCold` need the same of the window calibration keeps (`WindowHolds`).  A restart
writes back an older image, so what it needs is also kept of the image: it has one mode
(`OneKeptMode`), its window is good (`KeptWindow`), its incubation has a clock (`KeptRun`);
each holds because an image is a copy of the words at some moment (`ImageOnly`).
* **Damper.** A relay is only switched ON by `SetRelay`, and by then the call has switched
  the other one OFF and nothing but another such call switches one ON: the
  invariant ties the step of the loop to the relays.  The countdown that is handed over at a
  reversal is cleared in the same tick.  `StoppedIsStill` needs what a stopping pass has left
  to do at each of its steps (`CallShape`, `Swept`): the relay the first call may leave ON
  is the one the second switches OFF, and a test or a calibration in between keeps that.
* **Alarm.** The latch, the delay status and the time are related at both halves of a pass;
  the silence word and its time are related at the three blocks.
* **Backup.** A file is damaged only while it is written, when a stop breaks off its writing, or
  when a power cut finds it not on the disk; `hits` counts the last two, so the damaged files
  but the one being written are at most `hits` (`FewDamaged`).  For the refinement, every word
  copied is in `seen`, so a closed file is an image the abstract `Save` allows, and what the
  disk holds was in a file once; each step but a power cut changes one file, so it takes at
  most one image from `kept` and one from `found` (`OneFileChanges`).
* **Motor.** A fault bit is set in the step that leaves its command and cleared in the step that
  clears it; while a command waits nothing else writes the word.

* **Reflux.** `OneWater` is inductive together with the types: each case of a call either sets
  the other water's phase to 0 or touches no phase (`SetPhaseSound`).
* **Test mode.** `OneTest` ties the test words to `TEST_CONTROL_MODE` and is inductive with
  the types.  In calibration the outputs are switched off once, on entering, so `RestInv`
  carries "ON only by a test" through the passes after it; in stop mode it holds between the
  calls and the buttons.
* **Eggs.** `CountsTurns` needs that whatever sets the trigger starts a turn: while it is ON
  there is one that was not counted (`FreshBeforeCount`).  One direction at a time
  needs that between the two writes of a pass the first relay has the direction that was read,
  and that otherwise at most one is ON (`RelaysApart`), tests included.
* **Schedules.** The loop takes the first entry that matches.  With the first day past and
  the entries in order, the entry in force matches if the day looked up before it has come
  (`ForceMatches`) and no earlier one does (`EarlierDoNot`); from its step to the end of the
  pass only the panel, which ends `calm`, could change the value or the table.  All eight kinds
  follow under that condition, and for temperature, reflux 3 and 4, which look into their own
  table, it always holds: what `schedule_own` refutes is exactly the rest.
* **The modes' promise.** Each block maps to one step of `ModeSwitch` or to none.  What the types
  and `IInv` do not give: between the two steps of calibration the acknowledgements saved are
  still those that are ON (`EnteringHolds`), and between the two of the default mode none
  comes ON (`DefaultHolds`); a restart maps to `PowerCut` because the modes of the image
  exclude each other (`OneKeptMode`), which leaves START or PREHEAT alone in it.
* **The motor's promise.** An exchange that ends with an accepted answer was either taken by the drive
  (`Obey`), or the answer was late and is used up (`Mislead`): `StraysPay` counts them.  A
  shifted exchange uses one late answer and makes another.  The
  other steps only empty the line (`Flush`), trip or forget.
* **What a step may never do.** `BreakBeforeMake` follows from what a call has switched OFF before its
  second write (`HalfWay`).  `DelaysRun` holds of each half of a pass and of the timer: a delay is
  loaded where its cause becomes new and nowhere else.  `WaitsShut` needs that the delays of
  all channels are written and counted together (`SameDelays`) and that a pausing channel has no
  working time left (`PauseRested`).

Only model-checked: the liveness properties (TLAPS here has no rule for `ENABLED` and
fairness).  Every safety property of a passing run is also a theorem.  Only proved: the type
invariants of all modules but `Damper` (TLC has checked them too, outside the runs kept
here), `BackupIsNotCalibration` and `NeverBoth`, which the refinement and `BreakBeforeMake`
contain, and the properties of `Schedule`, which say of every schedule what a run could say of a
few.

## 5. What is not modelled

See "components" in `PROJECT.json`.  Left out for good: floating-point control
(`job_tc.cpp`, the temperature and humidity logic and its PID counts), sensor arithmetic, the
serial, shared-memory and logging wrappers, the updater.  Of the repository's
implementation lines by far the most are third-party headers and libraries
(`include/sqlite`, `include/openssl`, `include/mysql`, `zlog/`, `src/xini_file.h`), which the
daemon uses but does not define; the modules cover the control logic of
`jincubator.cpp`, and a larger share of the tree would mean modelling other people's code.

Known gaps inside modelled parts: the modes after a start that finds no valid file
or a torn one (the modes take an image of one moment, `BackupFiles` shows that a file may mix
moments); the damper, the alarms, the eggs and the motor take any earlier words of their own at a
restart, not those of one common image; the CO2 and PID counts of the timer (7583-7725); the
settings that restart an alarm delay (3870-3990); an eleventh backup file; switching the kind of
the motor.  Known behaviours the properties leave out on purpose: a preheat window
edited to an improper one while preheat runs (the mode stays, 10397), a second damper
calibration command before the first one is cleared up, the silence word lost between the
timer's read and write, the two-word incubation clock written by the timer and the INIT block
at once (7498), the reflux valve that stays open while its sensor is faulty, in stop mode
too (8183), and valve 1 opened by the cold cycles of channel 4 (6049, 6850).

## 6. Plan

Order of the modules, most important first: `RunMode` with `ModeSwitch`, `Damper`, `Alarm`,
`BackupFiles` with `BackupStore`, `Motor` with `MotorDrive`, `Reflux`, `TestMode`, `EggTurn`,
`Schedule`.  All exist.  What is worth adding next, in this order:

1. `RunClock` (7498, 10485-10519, 3245-3280): the two-word incubation clock against the timer's
   read-modify-write, and its monotonicity outside the race.
2. `Control`: `RunMode` composed with `Motor` and `Damper` (the modes they take
   as inputs become `RunMode`'s), from `ModeSwitch` as what they may assume.
3. Edited alarm delays in `Alarm`; the switch of the motor's kind.
