# A verification development for tx2-power-measurement

`power_measurement` runs a Caffe network on an NVIDIA Jetson TX2, samples the
board's power sensors while it runs, optionally governs the GPU's frequency
itself, and turns samples and Caffe's log into one statistics file. This
directory holds TLA+ modules of its logic, TLC configurations that check them on
small instances, and theorems that TLAPS checks for every value of the constants.

Everything below is about the build the `Makefile` makes: `-DNDEBUG`, with
`TRACE_CPU`, `TRACE_MEM`, `TRACE_POWER`, `TRACE_TEMP` and `TRACE_CAFFE_TIMESTAMP`.

    tlc -config measure.cfg MCMeasureRawdata.tla     # any run of the table below
    tlapm MeasureRawdataProofs.tla                   # any *Proofs module

## 1. Inventory

### The parts and how they interact

`main()` (power_measurement.c:724) is a straight line. `prepare_measurement()`
parses options, takes over the GPU governor (`-g`), checks the program and
registers what to sample; `fork()`; the child redirects its output into the
Caffe log, sleeps 5 s and calls `execvp()`; the parent samples in
`measure_rawdata()` until the child has been gone for the cooldown period;
`calculate_2ndstat()` merges samples and log into the statistics;
`finish_measurement()` restores the governor and removes the samples. Parent and
child share no memory after the fork, but they share open files (with their
offsets), the sysfs governor and the names of the files.

| part | source | state | operations | what makes it hard |
|---|---|---|---|---|
| sampling loop | rawdata.c:428-508 | `flag_childexit`, `prev_time`, `curr_time`, `cooldown_remain` | poll child, read clock, charge cooldown, govern, collect, sleep | wall clock as stop watch, uninitialised first time, failing clock, child gone before the loop begins, a sleep that is interrupted or refused |
| log parser | caffelog.c | `caffelog_parser`: batch number and count, time of day to absolute time; the offset of the next line and a buffer | `parse_caffelog()` per line | repeated and interleaved log lines, noise, midnight; a search for the newline that does not know how much was read |
| merge | power_measurement.c:464-698 | two cursors, two flags, three summaries | parse all, then compare/write with `goto` | ties, exhausted inputs, flags raised when an event is *read* |
| summaries | summary.c | five-digit energies, sums, extremes, times for Caffe, CNN, batch | `init_summary`, `update_summary` | carries in integer arithmetic, reuse for the next batch |
| session | power_measurement.c, governor.c:25-213, privilege.c, stat.c:270-288 | sysfs governor, `orig_gpugov_name`, effective ids, rawdata file | prepare, fork, exec, finish | kills, usage errors, failing `execvp()`, board state left for the next run |
| frequency table | governor.c:37-60 | file offset, buffer, `freq_list` | read a chunk, scan it, rewind, `atoi()` | a rewind per separator, relative to the one before |
| frequency policies | governor/*.c (25 policies) | userspace/set_freq, counters, flags | `get_target_freq()` once per iteration | thresholds, feedback through the board, boundaries of the frequency table |
| rawdata records | rawdata.c:17-420, powerlog.c | a file of fixed-width fields without separators | `collect_*()`, `*_to_powerlog()` | a field that is not written, or one blank too long, shifts the rest; a text that fills its field is parsed beyond it |
| statistics layout | stat.c, log_to_stat.c | offsets: reserved space, table; registered rows and columns | `print_expinfo()`, `register_*()`, `*_to_stat()`, `print_*()` | space reserved before the rows are known; a column's width is everybody's business, and nobody cuts a text to it |
| registry, constants | measurement_info.c, default_values.h | arrays filled before the fork | `register_*()` | fixed, sequential |
| shell helpers | enhanced_shcmd.c | file system | `mkdir_p` | plain I/O |
| scripts, plots, networks | script/, Caffe_* | - | - | around the program |

### What makes each part correct

* *Sampling loop.* The countdown is exact in spite of its two signed fields; the
  samples reach past the end of the program by the cooldown and not much more;
  the loop ends whatever the clock does, if its interval can be slept.
* *Parser.* Each batch ends once, in order; the inference ends with its last batch.
  Reading by the buffer is reading line by line, wherever a line lies in it.
* *Frequency table.* Every number of the file is stored, whole, once and in order.
* *Rawdata records.* What is read back is what was sampled, record by record and
  field by field, until a sensor fails; nothing is left over at the end of the file.
* *Statistics layout.* Lines of samples and of events have the same columns, and only
  a text longer than its column moves what follows it; the
  summary, written last, ends before the table that was written first.
* *Merge.* One timeline in order of time, no sample lost or repeated; the
  batches partition the inference; each batch holds its own samples.
* *Summaries.* No energy is lost in divisions and carries; each digit fits its
  column; extremes and times belong to the summary that prints them.
* *Session.* The board gets back the governor it had; root's ids are effective
  only where they are needed; statistics are made from samples; every run ends.
* *Policies.* What is written is a frequency of the table; a steady load leads to
  a steady frequency; alternating policies alternate evenly; a busy GPU is sped up.

The hazards, each at its line and with the properties that cover it or the
reason why none does, are in `PROJECT.json`.

## 2. Modules

| module | models | on top of |
|---|---|---|
| `MeasureRawdata` | `measure_rawdata()`, child, wall clock, `nanosleep()` | |
| `CaffelogParser` | `parse_caffelog()` and all it calls, by lines | |
| `CaffelogReader` | how `parse_caffelog()` finds its lines in the file | implements `CaffelogParser` |
| `Timeline` | what the statistics file promises (abstract) | |
| `StatMerge` | `calculate_2ndstat()` | extends `CaffelogParser`, implements `Timeline` |
| `Summary` | `summary.c` as called by `calculate_2ndstat()` | |
| `Session` | `main()` from first to last statement over successive runs | |
| `GpuGovernor` | all policies of `governor/`, selection, scaling helpers | |
| `FrequencyTable` | `init_gpugovernor()` reading available_frequencies | |
| `RawdataRecords` | `collect_*()` writing rawdata.bin, `*_to_powerlog()` reading it | |
| `StatFile` | `print_expinfo()`, the reservation, `register_*()`, the table, rows and summaries | |
| `ResultFiles` | these three in the order in which one run comes to them | extends the three |
| `MC*` | values for TLC | the module of that name |
| `*Proofs` | theorems | the module of that name |

**MeasureRawdata.** `pc` follows one iteration: `poll` (`waitpid`), `read`
(`clock_gettime`, which may fail and restart the iteration), `charge`
(rawdata.c:455-460, by way of two ints: `ToInt`), `carry` (one turn of either `while`,
or the decision to stop), `sample`, `sleep` (the first `nanosleep()` of rawdata.c:497),
`rest` (the second, for the remainder, after which `Rest` asks for the whole interval
again). `Interrupt` is a signal; a negative `interval`, as `-i` may set it, is refused at
once, and the loop then alternates between `nanosleep()` of what it took and of what
`sleep_remain` happens to hold. `now` is the time that passes, `now + offset` what
CLOCK_REALTIME shows; `SetClock` changes `offset`. `ChildExit` needs
`CaffeSleep` ticks; when `fork()` fails, `waitpid()` answers -1 at once, which is
the child state `none`. `prev_time` and `curr_time` begin as garbage, as in the C.
The history variables `base` (the reading the cooldown is charged from), `exitAt`,
`measured`, `begun` (the iteration's begin) and `wide` (a difference did not fit its int)
are read by properties and proofs only.

**CaffelogParser.** A line is its time of day, its kind (`running` n: the header of
the inference; `batch` n; `other` with a timestamp; `noise` without one) and its
number: the four regular expressions of caffelog.c:39-64 distinguish nothing
else. `NextParser` is the parser's state after a line, `ToCaffelog` the event.
The date is that of the start, so that times wrap at midnight (`Day`).

**CaffelogReader.** A file is the places of its newlines, its size and the log that
its complete lines say. `ReadALine` is one turn of `read_a_line` (caffelog.c:233-270):
`pread()` from `new_offset`, the search for the first newline of the buffer, the line
it ends passed over or returned. `Newlines(stale)` is the buffer after `pread()`: what
was read, and behind it what was there before. In the first turn of a call that is
whatever the stack held (`Stale`), in a later one what the last turn left. A newline
that was not read makes a line of a torn one, which may be taken for any of
`TornLines`; no newline at all is `Overrun`, which the model does not follow.
`Lines` is `CaffelogParser` seen through this: its offset is the number of newlines
passed, its parser and records are the ones before the torn line (`complete`).

**FrequencyTable.** The file is a sequence of digits and separators, a number the
place of its first and last digit. `ReadChunk` is `read()`, `Scan` one turn of the loop
over the chunk with its `lseek()`, `Store` the `atoi()` and the test of the outer loop;
`ReadFails` is `read()` without a descriptor. `Readable` says which texts the loop is
made for, those with at most `ListSize` numbers among it, 100 in the code; the board's is
one, and the proofs need nothing else.

**RawdataRecords.** A byte is a blank or the i-th character of what the k-th collect
function read, a parsed number the stretch of characters it was made of, so that a
number mixed from two readings is no reading. `Collect` is one `collect_*()` with a
text as long as sysfs shows it: cut to the field, or padded to it. `CollectFails` is
its early return. When `read()` answers 0, rawdata.c:55 looks at the byte before the
buffer: either the field is padded as it should be (`Collect` with an empty text) or with
one blank more (`CollectSpills`). `ToPowerlog` is one `*_to_powerlog()`, whose `read()` may be short;
`Parsed` is its conversion: `Timestamp` (the bytes as they are), `Decimal` (`atoi()` on
a buffer nobody terminated, which also searches on behind blanks), `Megahertz` (a NUL six places before the last digit).
`RawdataEof` is the `goto`, also from the middle of a record. `collected` and `due`
remember the calls and where their bytes would lie had none failed.

**StatFile.** Only lengths and offsets: `Reserve` writes the head and reserves,
`RegisterRow` comes after it as in the code; `WriteHeader`, `WriteColumn` and `NewLine` are the
table; `Rewind`, `PrintRow`, `PrintSummary` and `CloseStat` fill the reserved space. A
value takes its column's width or more (`%*s` cuts nothing), and the columns are all
24 of power_measurement.c:355-426 with the lengths their functions give them;
`ValueLengths` includes psum_GPU-util, whose function pads to one character more.

**ResultFiles** puts the three in turn: table of frequencies, reservation and
registration, measuring, then a record read and its line written, alternately, with the
events' lines between them, then the summary. `StatFile` waits for `RawdataRecords`
through `LineDue`.

**StatMerge.** `Parse` reads the log to its end before the first comparison;
`ReadRawdata`, `WritePowerlog` and `WriteCaffelog` are the two nested loops with
their `goto`; `EndOfRawdata` drops what is left of the log. A sample or an event
is its timestamp, a summary the set of samples that went into it.

**Timeline** is the abstract file: samples in their order, events in theirs, the
earlier head first, the event on a tie, no event without a later sample.
`StatMerge!ImplementsTimeline` is `Timeline!Spec` under the mapping at the end of
`StatMerge`; the sample that was read but not yet written does not exist there.

**Summary.** An energy has the fields J, mJ, uJ, pJ, fJ; `CarryFj` to `CarryMj`
are the four carries, with the truncating division of C. The radices are
constants: `ONE_PER_NANO = MILLI_PER_MICRO * MICRO_PER_PICO`, as 10^9 = 10^3 * 10^6.
`exact` and `window` are what the summaries should add up to.

**Session.** Each of parent and child has a `pc` over the statements that change
board, ids or file; after a failing `execvp()` the child goes on at the parent's
`measure`. `cred` is changed by `RestoreRoot` and `DropRoot`, statement by
statement and with the kernel's rules for `seteuid()`/`setegid()`. `Kill` may hit
any active process; `AdminSets` changes the governor between runs (as
script/run/*.sh do), and `wanted`, `found` and `spoiled` remember what a run could know.

**GpuGovernor.** One call of `get_target_freq()` is one action. The 13 policies
without state share `GovernAtOnce`, with one operator per policy of the source's
name; those that decide at every n-th call share `GovernSampled` and
`GovernDynamic`; those that only count have `GovernAlternating` and
`GovernPingpong`; `ondemand8050` has its own action because of its table.
`LoadChanges` is the board. Frequencies are the board's table by level, in MHz;
the thresholds are the code's.

## 3. Runs

| run | question | result |
|---|---|---|
| `measure` | is the cooldown counted right, covered and not overrun, and does the loop end; what does a negative interval do? | holds |
| `caffelog_batches` | does every well-formed log, read by the buffer, give each batch's end once, in order? | holds |
| `merge` | is the file the timeline, and do summaries get the samples they should? | holds |
| `cnn_summary` | does the inference's summary hold exactly the inference's samples? | **violated** |
| `session` | what is left of governor, ids and samples after any three runs? | holds |
| `session_rawdata` | is rawdata.bin removed only after the statistics? | **violated** |
| `summary` | are energies, sums, digits, extremes and times right? | holds |
| `summary_empty_batch` | is a new batch's summary new? | **violated** |
| `files` | are frequencies, samples and columns where they should be, and does the summary fit? | holds |
| `governor` | do policies write table entries, settle, alternate evenly, follow a busy GPU? | holds |
| `ondemand8050` | does it decide on a frequency? | **violated** |
| `emc_conservative` | is there no scaling up above the threshold for scaling down? | **violated** |

The five violations are disagreements between the code and its own words; the
quotes are in `PROJECT.json` under `findings`:

1. The summary "for CNN inference" begins an event early: `flag_cnnstart` is raised
   when the starting event becomes the next one (power_measurement.c:641), before the
   samples older than it are written; the trace counts a sample at time 1 for an
   inference that starts at 2. It ends an event early for the same reason (:643).
   `CnnSummaryWithinOneEvent`, which holds, says how far off it can be.
2. A failing `execvp()` returns into the parent's code in a second process, which
   writes statistics and removes the parent's samples.
3. A batch without a sample prints its predecessor's runtime.
4. `ondemand8050` writes a level where a frequency in Hz is meant.
5. `emc_conservative` truncates the EMC utilization to 16 bits, so that it scales
   up under any load.

### Bounds, and why they are enough

* *measure*: 4 ticks to a second (so that a carry is taken in some iterations and
  not in others), ints of three bits (`IntSpan`), cooldown of one second, intervals of 0 and 2
  ticks and one that is refused, one signal that interrupts a sleep (so that an iteration
  takes up to 7 ticks), a program of 2 to 4 ticks, one setting of the clock by -3, 5
  or 17 ticks (less and more than a second, and more seconds than an int holds), one
  failing clock reading, three contents of the uninitialised times (`MCGarbage`: past,
  farther ahead than an int, no time at all). The countdown runs through several
  iterations, and both `while` loops turn more than once. A loop that never sleeps is
  followed up to `MaxRun`. 1.2 million states.
* *merge*: four shapes of log (two batches, one batch of two blobs, one cut short,
  one that starts the inference with its first line) with every nondecreasing
  assignment of times in 1..4 where 4 is past midnight, and every sequence of up
  to three samples with at most one step back: all orders and ties of a sample
  with two events around it occur.
* *caffelog_batches*: every well-formed log of up to six lines, one or two batches,
  in three shapes: lines of half a buffer; lines that fill the buffer of 4 bytes or end
  at each place of it, with a torn end; a line and a torn end that are longer than it. The
  stack's contents are every place of a first newline, or none. A buffer of 4 has a
  first, a last and inner places, which is all the search tells apart.
* *files*: the board's 13 frequencies, and all texts of up to three numbers of one or
  nine digits, with and without a separator at the end, at the code's 11 bytes; a list of 13
  places, which the board's table fills. Two samples
  of three fields, one of each conversion, with texts that are empty, leave room, fill their
  field and exceed it, and every set of collect functions that fail or spill a blank. The
  24 columns of the code, with the lengths of their names and the shortest and longest
  values; a name (psum_GPU-freq's), a value (psum_GPU-util's) and long events exceed their
  columns. An energy is taken to stay below 100 kJ, whose print would be a character longer.
  665,161 states, the largest share of them table texts and failures. The reservation and the rows are the
  code's: 567 + 500 bytes against 458 of rows with their longest numbers and at most 559
  of summaries, which leaves 50 for the two units nobody wrote; these are 0, 11 or 39
  bytes, so that the space is used to the last byte. `FewerRuns` lets only one table
  and only samples without failures go on to the lines of events and the phases that do not depend on them.
  DEADLOCK is off there since the run ends with the closed file.
* *session*: three runs (one that spoils the board, one that suffers from it, one
  more), three governors, logins by root, by set-uid and plain; every usage error.
* *summary*: radices 2, 3, 2, 2, so that each carry happens within four samples;
  two readings with odd and even sums of powers; steps of 1, 14 (more than one
  second) and -3 ticks; two batches. DEADLOCK is off there since the input ends.
* *governor*: all 25 policies on the table the code's threshold arrays name, 24
  loads (a value on each side of, and between, the thresholds), three pairs of
  limits, and a counter that begins anew at 200 in place of 10^6: both are
  multiples of the periods 10 and 100, the reason why no phase is longer.
  Loads may change before every call, so every reachable pair of level, counter
  and load occurs. `BusyReachesCeiling` asks that 9 % of max_freq span every gap
  of the table; with the third pair of limits they do not, and policies stay
  where they are.

### Fairness

* *measure*: `WF(Loop)`, `WF(ChildExit)`, `WF(Tick)`: the parent is scheduled, the
  measured program ends, time passes. Setting the clock, failing readings and signals are
  not fair: they may never happen and are bounded. `Terminates` presupposes an interval
  that is not negative; `InvalidIntervalHangs` says what becomes of the others.
* *session*: weak fairness of every process's next statement and of the measured
  program's exit, not of kills, the administrator or new runs.
* *files*: `WF(ReadTable)`: the program runs on. `ReadingEnds` presupposes that
  available_frequencies could be opened; if it could not, the loop never ends.
* *governor*: `WF(GetTargetFreq)`: the sampling loop calls the policy in each
  iteration (rawdata.c:476); loads need not change.

All are weak: each step stays enabled until it is taken.

## 4. Proofs

No theorem bounds its constants beyond the ASSUMEs of the component's module, and
every ASSUME is evaluated by TLC for the constants of the runs. Some are about numbers
that the authors chose and nothing in the program checks, and few theorems need them:
`StepAssumption` (the board's frequencies, for `Hysteresis`), `WidthAssumption` of `Summary`
(readings and columns, for `ExtremesAreOwn`), `SpaceAssumption` (the texts of the summary,
for `ReservationHoldsAlways`, and with it `FilesAreCorrect`), and `IntAssumption` (an int
holds the nanoseconds of a second, and the seconds of one iteration: what makes an
undisturbed charge exact in `CooldownIsAccounted`). Of columns nothing is assumed: names
and values may exceed them.

* **MeasureRawdataProofs**: `TypeCorrect`, `CooldownIsAccounted`,
  `CooldownIsCovered`, `LoopEndsPromptly`, `OpenInTime`, `WhileLoopsEndSoon`. The accounting is inductive with `ChargesAfterExit` (the
  phases `charge` and `carry` are reached only with the exit noticed): charging
  and each turn of a carry keep the value in ticks (lemmas `ChargeTicks`,
  `CarryTicks`), a charge as long as its two differences fit an int (`ToIntKeeps`); those of
  two readings an iteration apart do (`ReadingsFit`), for which the invariant bounds how
  long an iteration takes, interrupted sleeps included (`Pace`). That the cooldown is covered also needs how old a reading can be:
  `Steady` (without disturbance clock
  and time agree), `Freshness` (the last reading is at most an iteration old) and
  `Overdrawn` (the files are closed only with a negative countdown). The bound from the
  other side needs that time was left before the last charge (`TimeWasLeft`), that the
  reading the cooldown counts from is not much later than the exit (`SeenRunning`,
  `NoticedSoon`), and that the reading charged from is an iteration old at most
  (`Freshness`). From the same invariant, `OpenInTime`: the bound holds of every state after
  the program's exit, and not of the end of the loop only. `WhileLoopsEndSoon`: every round
  of the two `while` loops brings the nanoseconds closer to a second (`Excess`), also when
  the charge was from a local nobody set; charged from two readings, one round of one of
  them is all (`ReadingsOnly`: their difference leaves less than a second over). Together
  they are what `Terminates` rests on besides fairness.
* **TimelineProofs**: `TypeCorrect`, `OrderCorrect`. "Sorted" is not inductive:
  `NothingEarlierLeft` says that no row is later than a sample or event still to come.
* **StatMergeProofs**: `TypeCorrect`; `Implements`: the merge implements `Timeline`,
  every step mapping to a step of it or to a stutter, with `Fresh` (nothing is
  written while the log is being parsed); `RowsInOrder` by composing that with
  `OrderCorrect`; `BatchesPartition` with the bound that summaries hold only
  samples already counted; `SummaryWithinOneEvent`, for which the flags must stand for
  the events up to the next one (`FlagsKnow`), what is written be no later than the
  latest sample (`WrittenArePast`) and a first record never finish the CNN
  (`FinishNotFirst`). `EverythingIsWritten` says of the rows at any time which samples
  and events they are (`WrittenInv`), with what keeps an event back until a later sample
  has been read. `BatchWindowAlways` needs that the n-th end written is that of the n-th
  batch (`EndsBeforeNext`), that no sample counted is later than an event still to
  be written, and that none of the current batch is earlier than an end that was
  (`WindowInv`). Of the parser alone, `ParserTypeCorrect`, `CnnEndsAlways` and
  `BatchesEndAlways`: the induction is over the lines read, with what the parser knows of
  them (`KnowsLines`), what its records tell of the end (`RecordsEnd`), and that it has
  recorded as many ends as the last batch it saw reported has before it (`KnowsBatches`).
* **CaffelogReaderProofs**: `ReaderTypeCorrect`, `ReaderImplementsParser`, for every
  file, size of the buffer and content of the stack. What a line is to the search is
  the first newline in the buffer; where that newline was read it is the next one of the
  file, so that the step is one line of the parser's or a stutter, and where it was not,
  the offset is behind the file's last byte and the parser stays as it was before
  (`ReaderInv`). `ReadBatchesEndAlways` and `ReadCnnEndsAlways` are the parser's
  theorems (`Merge`, an instance of `StatMergeProofs` for the reader's lines) carried over
  by that refinement.
* **SummaryProofs**: `TypeCorrect`, `EnergyExact`, `PsumExact`, `EveryDigitFits`,
  `ExtremesAreOwn`, `BatchesShareCnn`: each carry keeps
  the value of the five digits for any radix, an update adds exactly one
  trapezoid (`UpdateEnergyAdds`), and summaries in use end at the clock's last value
  (`EndsAtClock`). The even `MILLI_PER_MICRO` is what makes half a mW a whole
  number of uW. Forward in time no digit is negative before its carry, which then
  leaves it below the radix (`UpdateEnergyFits`). The extremes assume that a reading
  fits its column (`WidthAssumption`); the batches' share of the inference's time is
  inductive with `BatchesDisjoint`: a batch starts when those before it are paid for.
* **SessionProofs**: `TypeCorrect`, `GovernorRestored`, `BoardLeftAsFound`,
  `CrashesExplained`, `PrivilegesConfined`, `StatisticsMadeFromSamples`, `RunsMoveOn`,
  `NobodyEverStuck`, for any number of runs and logins.
  The invariant ties together who may exist when (`ChildAfterFork`), that the name
  remembered is the one found (`NameIsFound`), which states have the board switched
  (`GovernorKnown`, `Restored`, `WantedKept`), when a run counts as cut short
  (`CutShort`), when the policy pointer is set (`PointerSet`), and
  that the samples of a run outlast its measurement (`SamplesKept`).
  `RunsMoveOn` counts what a run still has to do (`Remaining`: for each process the steps
  to its end, for a parent before `fork()` those of its child too): every step of the
  program and every signal makes it less, it is 21 at most, and 0 when nobody is active.
  `NobodyEverStuck`: until then one of the two processes stands where it need not wait,
  since the parent waits for the child and the child for nobody. That the step is then taken
  is the fairness of `RunsEnd`.
* **GpuGovernorProofs**: `TypeCorrect`, `OnlyAvailable`: for every ascending table of
  13 positive frequencies the scaling helpers never answer -1 for a frequency of
  the table (it qualifies itself: `ScaleDownAvailable`, `ScaleUpAvailable`), hence each
  policy but `ondemand8050` keeps the board on the table, hence no threshold array is
  read outside its bounds. The two facts are one invariant, since a helper's answer
  is bounded only for a frequency of the table.
  `PhasesEqual`: the calls since the last move and the epoch count keep the same phase
  (`PhaseInv`), also where the count begins anew, because the periods divide
  `EPOCH_WRAP` (`GovernorAssumption`; 10^6 in the code). A limit that 9 % do not leave
  makes the two frequencies one, and then nothing moves.
  `Hysteresis`: no policy with thresholds turns around. For each policy, the branch that
  led upwards leads upwards again from where it led to, or stays (`AtOnceStraight`,
  `SampledStraight`, `DynamicStraight`); hence whatever a policy may choose next for the
  load at hand lies on the side to which it moved last (`GoesOn`). The counters of the
  policies that decide at every n-th call can take any value in this. Only
  `cnngov_dyn_th2_th3` needs more of the table than its order: its thresholds differ from
  level to level. A load that leads up at one level does not lead down at the next
  (`Dyn2Thresholds`), but may at the one after (46.5 % of the EMC: up at level 7, down at
  9), so that 9 % must not span two steps of the table (`StepAssumption`; true of the
  board's, whose frequencies the source lists).
  `BusyNeverLeftBehind`, for every load above the thresholds for the GPU and below those for
  the EMC and every maximum of which 9 % span each step of the table (`Steppable`): each
  decision of a policy that can climb raises the frequency or leaves it at or above the
  policy's ceiling (`AtOnceClimbs`, `SampledClimbs`, `DynamicClimbs`), and each call that
  is no decision changes nothing and leaves fewer calls until one is
  (`CallsToDecision`). On a finite table that leaves to fairness only that the policy is
  called, which is `BusyReachesCeiling`.
* **ResultFilesProofs**: `TableTypeCorrect`, `FrequenciesReadAlways`, for every
  `Readable` text and buffer length. What is inductive is what the scan's rewinds amount
  to: before a chunk's first separator the file stands behind the chunk, behind it
  right after that separator, and a second one, which `Readable` leaves only to the last
  byte, rewinds by nothing. So every chunk begins at a `Boundary` with a number, and the
  numbers stored are those before it; each ends at a place of its own, so that they are no
  more than the text has (`RoomInTheList`). `ReadingAlwaysGoesOn`: each step of the loop makes
  `StillToCome` less, since a chunk's rewinds leave the offset a byte further at least
  (`ScannedNumber`); `ReadingEnds` adds that the step is taken. `RecordsTypeCorrect`, `ReadingsAreSamplesAlways` and
  `EverySampleIsReadAlways`, for any number of fields, widths, texts and samples. The
  invariant says that calls go round the fields (`CallsInTurn`), that without a failure
  before it each call's bytes lie where they are due (`WrittenWhereDue`), and that the
  reader is at the same place of its round (`ReaderInStep`), also when the writer has
  failed later; `CellsAreReadings` then follows from what each conversion makes of a field
  (`FieldGivesReading`). `FilesImplementTable` and `FilesImplementRecords` show that
  the composed run is a run of each part, so that `FilesAreCorrect` holds of it.
  `ColumnsAlignedAlways` holds of it too, for any columns, names and values and any sequence of
  lines: unless it is too long a text takes its column's width, be it printed or padded, so
  that from one overlong text to the next every column ends where the widths say (an
  induction along the line), and a line is not left before it has all columns (`CellsInv`).
  `ReservationHoldsAlways` compares what the rows and summaries of any run come to with what
  was reserved, two sums over sequences. That the recursive function `Sums` exists and has
  its equations for every sequence of numbers (`SumsExist`, `SumsAreThem`), and that it
  grows (`SumsGrow`), follows from a least counterexample (`LeastOne`, by the library's
  theorem that the order of the naturals is well-founded). The invariant says
  that the rows and parts printed so far take no more than the longest they may become
  and, for every unit that nobody wrote, less by what that unit is short of the longest
  (`Within`). What is then left is arithmetic on the texts in the source
  (`SpaceAssumption`): with its lengths the two sides are equal, so a longer row or a
  smaller guard band breaks it.
  `StatTypeCorrect` is what all this is typed by.

Model-checked only: the five liveness properties `Terminates`, `InvalidIntervalHangs`,
`RunsEnd`, `BusyReachesCeiling` and `ReadingEnds`, since the prover handles neither fairness
nor ENABLED. What four of them rest on besides fairness is proved: `OpenInTime` and
`WhileLoopsEndSoon`, `RunsMoveOn` and `NobodyEverStuck`, `BusyNeverLeftBehind`,
`ReadingAlwaysGoesOn`.

## 5. Observed, but not a finding

* The cooldown is charged from the last reading *before* the exit was noticed
  (rawdata.c:451), so the measured tail is shorter than 6 s by up to an iteration.
  `CoversCooldown` states the bound.
* After a clock set back, a digit of an energy may equal its radix (summary.c:170
  borrows even if the division was exact): the value stays exact, its print does not.
* `cnngov_dyn_th` oscillates between 1032 and 1134 MHz for an EMC utilization
  between 41.0 and 42.1 %: its TH2 lies above the TH3 of the upper level.
  `NoOscillation` leaves it out. Its guard `TH2 < TH3` stops it at level 10.
* A program that is killed or exits early leaves the board in `userspace`, and a
  later run without `-g` then crashes in `print_expinfo()` (`CrashNeedsUserspace`).
* An unknown governor name is reported and then dereferenced (governor.c:169).
* The unit of a row without data is whatever `main()`'s stack held (stat.c:77, printed at
  stat.c:181) up to the first NUL, perhaps in a later row. 50 bytes of the reservation are
  left for two such units: 11 and 39 just fit, twice 39 overwrite the table.
  `ReservationHolds` therefore leaves out the runs in which all are as long as can be.
* An EMC utilization of 100 % has seven digits in a field of seven
  (tx2_sysfs_power.h:36), a power of 10 W five in five (h:18): `atoi()` then reads on.
* The header of psum_GPU-freq is one character wider than its column
  (power_measurement.c:391), so that header and lines disagree from there on.
* psum_GPU-util is printed with 19 characters (log_to_stat.c:448 pads the digits before the
  point to colwidth - 10 and adds eleven) in a column of 18 (power_measurement.c:397), so
  that lines of samples are one character longer from there on than lines of events,
  which are padded to 18. `ColumnsAligned` says that nothing but such texts moves a column.
  An energy of 100 kJ and more has 20 characters in 19.
* A negative `-i` is accepted (power_measurement.c:121-124), `nanosleep()` refuses it, and
  the loop stays in rawdata.c:497-498 for good (`InvalidIntervalHangs`).
* The differences of two readings pass through ints (rawdata.c:430, 456-457): a clock set by
  more than 68 years, or an uninitialised `curr_time`, changes the countdown by something
  else than the difference.
* A sensor file that reads empty is padded with a blank too many if the byte before the
  buffer looks like white space (rawdata.c:55-61), which shifts all that follows.
* A time before the start is printed as the floor of its seconds and a positive
  fraction: -0.25 s as -1.75 (log_to_stat.c:22-30).
* An event of more than 127 characters is written with what lies behind the buffer
  (log_to_stat.c:624), one of more than 255 is copied beyond `event` (caffelog.c:313).
* If available_frequencies cannot be opened, `read()`'s -1 keeps the loop of
  governor.c:41-56 going for ever.
* With a max_freq lowered by a script policies still request the table's upper
  levels, and policies that step by 9 % of it cannot cross gaps wider than that.

## 6. Not modelled

* What the cells of the statistics say beyond what `Summary` computes: averages, units,
  the formatting of numbers and times, the file names. Of a text `StatFile` keeps the length.
* That readings are kept in 16 or 32 bits. Where a width matters it is modelled:
  `emc_conservative` (16 bits), and the sampling loop's two differences (`ToInt`).
* What an overrun of the log reader comes to on the stack; the models stop there.
* The other sensors: what is sampled is a power or a rate without further meaning.
* What the kernel does with a frequency outside min/max, or with a number that is
  no frequency; `GpuGovernor` keeps what was written, as `set_freq` shows it.
* Failure of `write`, and of `open` other than of the program, the table and a governor.
* Scripts, plots, networks, `mkdir_p`, the vendored list.h, Caffe itself.

## 7. Plan

Done, in this order: `MeasureRawdata`, `CaffelogParser`/`StatMerge` over
`Timeline`, `Session`, `Summary`, `GpuGovernor`; then `FrequencyTable`,
`RawdataRecords` and `StatFile` composed in `ResultFiles`, and `CaffelogReader` under
`CaffelogParser`; with their proofs. Next:

1. Composition of `Session` with the sampling loop: samples as the loop's
   iterations, two processes that share a file offset.
2. Two sessions at once on one board.
3. Proofs of what these will state. Of the present properties all are proved but the
   five that need fairness.
