# A verification project for the ANIOT practices

The repository holds six ESP32 programs (ESP-IDF, FreeRTOS), one per practice of
a course.  Each is a single `main.c` whose core is a few tasks, timers and
interrupts that talk through queues.  These modules model those programs, TLC
checks them on small instances, and TLAPS proves the central properties for
every value of the constants.

    tlc -config MCPipeline.cfg MCPipeline      # one run
    tlapm PipelineProofs.tla                   # one module of proofs

## The system

| Program | State | Operations | What is hard | What makes it correct |
|---|---|---|---|---|
| `p2` filter | per sensor a ring of the last 5 samples, its index and fill level | `insertValue`, `getWeightedMean`, the fill-level test of `filterTask` | wrap-around; the test lies between insertion and counting | each mean weighs the last samples, newest first |
| `p2` pipeline | per sensor two queues and two tasks; a queue set; the controller | boot loop of `app_main`; sample, send or drop; receive, filter, send or drop; select, time out, receive | three tasks and the kernel change the set and its queues; tasks run while `app_main` boots; allocations fail; queues fill up | set and queues agree; means are shown in order, once; nothing waits for ever |
| `p2/src/main_2.c` | a first draft of the same | - | does not compile | - |
| `p3` | pad flag, two esp_timers, one queue, the handler's `isTimerActive` and `countTimer` | ISR and touch task, timer callbacks, handler, boot | callbacks in flight when their timer is stopped; a full queue; the handler runs before its timer exists | it is a stopwatch; an active one keeps counting |
| `p3-cont` | as p3 | the infrared callback in place of the Hall one | a conversion from raw value to distance | a near object resets |
| `p4` | two uninitialised bytes, a mutex nobody else takes | boot; ask, read, convert, print, wait | transfers fail half-way; unsigned delay; what acknowledges a byte; what is printed before it is read | a temperature that is reported was measured in this turn; the turns go on, none much later than was set |
| `p5` | `read_count`, `sleep_mode_active` in RAM, `sleep_enter_time` in RTC memory | timer callback, deep sleep, wake-up, boot | what a boot keeps; a boot that aborts | the cycle goes on; the reported sleep is the last sleep |
| `p6` | a log file in flash, two timers, one queue, `is_first_time` | redirected logging, reading back, mount | two tasks in one file without a lock; restart between steps; opens fail; a full queue | values in order; without failures lines of this run only, each late by just the events behind its own; a reading ends the run |

Within a program components interact through FreeRTOS queues (p2, p3, p6), the
queue set (p2), callbacks of the `esp_timer` task and a flag set by an ISR (p3),
and globals (p5, p6).  The programs do not interact with one another.

## Modules

| Module | Models | Kind |
|---|---|---|
| `Weighting` | the accumulation loop, weights in hundredths | operators |
| `SlidingWindow` | what the filter promises | abstract |
| `CircularVector` | `CircularVector_t` and its operations | operators |
| `FilterStage` | the computation of `filterTask` alone | detailed |
| `QueueSet` | counting handles in a queue set | operators |
| `PublishedFeed` | one FIFO of means for all sensors | abstract |
| `Pipeline` | the whole of `p2/src/main.c` (extends `CircularVector`, `QueueSet`) | detailed |
| `PipelineEndless` | the pipeline with sensors that sample for ever and one marked sample (extends `Pipeline`) | detailed |
| `Stopwatch` | the chronometer of the user | abstract |
| `Chronometer` | `p3/src/main.c` | detailed |
| `ChronometerInfrared` | `p3-cont/src/main.c` with the infrared option (extends `Chronometer`) | detailed |
| `SleepReader` | `p5/src/main.c` | detailed |
| `FlashLogger` | `p6/src/main.c` (extends `QueueSet` for counting events) | detailed |
| `TempSensor` | `p4/src/main.c` | detailed |
| `MCFilterStage`, `MCPipeline` | coefficients for the runs; the other runs need no module of their own | model checking |
| `CircularVectorProofs`, `FilterStageProofs`, `QueueSetProofs`, `PipelineProofs`, `ChronometerProofs`, `TempSensorProofs`, `SleepReaderProofs`, `FlashLoggerProofs` | lemmas and theorems | proofs |

A definition whose comment begins with *Fault* is a plausible mistake in the
definition after it.  No specification uses it; put in place of the sound
definition it makes a property fail, which shows that the property depends on
that line.  `PROJECT.json` pairs them.

### Pipeline

Variables carry the names of the code: `sensorQueues` and `filterQueues` are the
handles (`NULL` if not created), `sensorItems` and `filterItems` the contents,
`controllerQueues` the queue set, `filterCount` the ring of each sensor.  `boot`
is the next call of `app_main`, `sensorPc`, `filterPc` and `controllerPc` where
the tasks are.  A sample is its number in the sensor's sequence; it stands for
the value and the time stamp, which travel together.

A blocking call is one action for each outcome: `SensorSend`/`SensorDrop`,
`FilterSend`/`FilterDrop`, `ControllerSelect`/`ControllerTimeout`.  A send posts
the message and the notification together, as the kernel does in one critical
section (`Notify`, the kernel's `prvNotifyQueueSetContainer`).  `AddToSet`
panics on a `NULL` filter queue, because `xQueueAddToSet` comes before the test
for `NULL`; the panic is `Restart`, and the boot starts again.

`lastShown` is a history variable.

`PipelineEndless` puts an endless source in the place of `SensorSample`, since a
bounded one falls silent and lets any order of service drain the queues.  No step
of the pipeline looks at a sample, only at how many there are, so numbers can be
left out but for one sample: one of one sensor, at any time, is `Marked`, those
before it are `Earlier`, those after it `Later`.  What holds of the marked sample
holds of each.  With `ControllerSelect_newest` in the controller one chain
starves the other, and `PublishedIsShown` fails.

### Chronometer

`CheckPad` and `ClearPad` are the two halves of the turn of
`touchpad_read_task`, separated by its delay; `PadInterrupt` is the ISR, which
fires as long as the pad is touched.  The `esp_timer` task takes a timer
(`ChronoExpires`, `SensorExpires`) and calls back in a later step, so a timer
may be stopped in between.  `HandleStartStop` starts the timer only if it
exists.  The default case of the switch cannot be reached with three events and
is left out.

`ChronometerInfrared` replaces the sensor callback.  `raw_to_cms` leaves out the
factor raw^0.1 and the fraction: the result is only compared with 10, and for
every raw value but 0 both lie above.

### SleepReader

A boot (`Boot`) sets what is in RAM; `WakeUp` keeps `sleep_enter_time`, a reset
(`ResetChip`) does not.  `sinceEnter` is the present time minus
`sleep_enter_time`, which is all the program uses of either.  The callback makes
its I2C transfer in two steps, each of which may fail; it reads, counts, and at
the next call may fall asleep.  `ConfigurePower` and `DriverFails` are the two
aborts of `app_main`: both restart the chip as a reset does.

### FlashLogger

`file` is what `log.txt` holds: lines that carry a sample and the run that wrote
it (0 stands for an error message).  A sample is its number in the sequence of
`value_sensor`.  `redirect_log` takes three steps - clear the flag, open, write
and close - and `redirect` says where each task is in it, because two tasks log:
the handler, and the `esp_timer` task when it finds the queue full.  FatFs keeps
the size and start of a file per open handle and is built without file locks
(`FATFS_FS_LOCK` is 0 in `p6/sdkconfig`), so a close stores the task's own view
of the file; `base` is that view.  A view that is stored after the other task has
truncated the file brings the lines back: this assumes that their clusters, which
the truncation freed, have not been given to the other task's line in the
meantime; otherwise the file would be damaged, which is not modelled.  An open
fails, the partition is full, or the
board restarts (`Restart`), at any step; the boot finds everything but the file
initialised.

Of time the model keeps that six periods of the sensor make one of the reader
and that callbacks come in the order of their alarms (`due`): the handler may be
as late as it likes.  `disturbed` is a history variable: an event or a write was
lost in this run.

### TempSensor

A turn of `sensor_temp_task` is `BeginTurn` (the two bytes hold anything),
`SendCommand`, `ReadData`, `TakeSemaphore`, `Report`, `Delay`.  A transfer has
any result of the driver and any duration up to its time-out, and one that fails
has filled none of the bytes, the first, or both.  `elapsed` adds up the ticks
from report to report.  `DelayTicks` is unsigned, since `portTICK_RATE_MS` is.

`printed` is what `Report` prints, the temperature (`main.c` 80-90).
`read_i2c_master_sensor` prints the two bytes as well, while it puts the read
command together (60-61): `i2c_master_cmd_begin` fills them afterwards, so in
every turn this prints what was on the stack.  `ReadData` has it as `traced`,
the bytes before the transfer.

`Received` is what arrives on the bus.  The driver's enumeration has 0 for an
acknowledgement, the program's `ACK_VAL` is 1: the sensor is told to stop after
the first byte, and an idle line reads as ones.  p5 reads its bytes, which it
does not use, in the same way.

## Runs

| Run | Checks | Shows |
|---|---|---|
| `filter` | `TypeOK`, `ImplementsWindow` | the ring with two loops is a sliding window |
| `first_mean` | `FirstMeanAtFullWindow`, violated | the sample that fills the window gives no mean |
| `pipeline` | types, `QueueSetAgrees`, `SetHasRoom`, `TasksHaveQueues`, `NullIsNoQueue`, `SampleOrder`, `WholeWindow`, `ImplementsFeed` | see below |
| `pipeline_live` | `PublishedIsShown`, `QueuedIsFiltered` | nothing that was queued is stuck, though both sensors go on for ever |
| `chronometer` | types, `ActiveIsArmed`, `ImplementsStopwatch`, `ActiveKeepsCounting`, `ReleasedPadIsQuiet` | events take effect in the order in which they were sent; an active chronometer counts on; a pad that was released toggles it no more |
| `chronometer_prints` | `PrintsEverySecond`, violated | silent after a Reset |
| `infrared` | `NearObjectResets`, violated | an object at 5 cm never resets |
| `sleep` | types, `SleepIsReported`, `SleepsAgainAndAgain` | durations and cycle survive sleep, reset and boots that abort |
| `sleep_power` | `SensorIsRead`, violated | the boot aborts with the repository's `sdkconfig` |
| `logger` | types, `LogIsOrdered`, `LinesLagByBacklog`, `LogIsOfThisRun`, `ReadingIsWhole`, `ReadingEnds` | see below |
| `temperature` | types, `PrintsNearMeasured`, `LatenessIsBounded`, `ReportsGoOn` | see below |
| `temperature_period` | `PrintsEachPeriod`, violated | half a second set becomes a silence of weeks |

The central properties of the pipeline:

* `QueueSetAgrees`: for each filter queue as many handles are pending, in the
  set or in the controller's hand, as messages in the queue.
* `ImplementsFeed`: the k-th handle of a queue stands for the k-th message of
  that queue, and under this mapping set, queues and controller are one FIFO.
* `SampleOrder`: along a chain, from the controller back to the sensor, time
  stamps grow, although any of the sends may have dropped its message.
* `WholeWindow`: a mean is published only of a full window of real samples,
  newest first, and carries the newest one's time stamp.  (Samples carry no
  sensor; that they are of the mean's own sensor is in the shape of the
  variables.)

Those of the logger:

* `LogIsOrdered`: whatever is lost in restarts, failed opens, lost events and
  two tasks overwriting each other, the values in the file are in the order in
  which they were sampled, run after run.
* `LinesLagByBacklog`, `LogIsOfThisRun`: without such failures nothing of an
  earlier run is left, and the n-th line is of sample n and as many later as
  events wait behind its own.  The handler logs `value_sensor` as it is when the
  event is handled, not when it was sent: a handler that is late (mounting takes
  time) loses samples and logs the last one several times.  Nothing else is lost,
  repeated or late.
* `ReadingIsWhole`, `ReadingEnds`: a reading shows its lines, stops both timers,
  and after the events that were still on the way nothing happens any more.

Those of the temperature reader:

* `PrintsNearMeasured`: a temperature is reported only if both transfers of this
  turn succeeded, and it is less than 0.69 degrees above the measured one, for
  the low byte is all ones.  It says nothing of the bytes in `traced`.
* `LatenessIsBounded`: with a setting of a second or more no report is later than
  the setting by more than one time-out of a transfer and the measuring, although
  both transfers may time out.
* `PrintsEachPeriod`, which fails: the setting is the time between two reports,
  give or take the transfers.  The second that is taken off for them makes the
  period four seconds with the setting of `sdkconfig`, 5000, and transfers that
  take no time worth mentioning, and weeks with a setting below a second.
* `ReportsGoOn`: whatever the transfers return, the mutex is given back and the
  next turn comes.

### Bounds

* `pipeline`: two chains, sensor queues of 1, filter queues of 2 (5 in the
  code), a window of 2 (5), 6 samples per sensor and boot (`MaxSamples`).  A
  filter queue can be full with a further mean waiting, dropped, and published
  after; the ring wraps three times; the set can hold all 4 handles.  Any
  allocation may fail, at any sensor.
* `pipeline_live`: queues and window of 1, samples without end; the set is full
  with one handle of each chain, so a chain can be blocked by the controller and
  be overtaken by the other chain for as long as the order of service allows.  No
  allocation fails: a heap that always failed would restart the board for ever.
* `filter`: window and weights of the code; sample values 0, 1 and 99.
* `chronometer`: a queue of 3 (10 in the code) can be filled by two sources
  while the handler is busy; `MaxCount` 3 saturates the count, in the model and
  in `Stopwatch` alike.
* `sleep`: any number of boots that abort; 3 attempts per cycle, sleeps of 3 seconds, up to 6 seconds since the
  last sleep (`MaxSince`), one reset (`MaxResets`); `MaxReads` leaves room to
  see an attempt too many.  `sleep_power` has the limits of the code.
* `logger`: a queue of 1 (10 in the code), so that it is full with one event
  waiting and the timer task logs too; 2 samples to a reading (6), of which 2
  lines are shown (5); up to 4 samples (`MaxSamples`) and 4 lines (`MaxLines`),
  enough for samples after the reading was queued and for a full partition; two
  runs (`MaxRuns`), so that one finds the log of another.
* `temperature`: the codes at both ends and two neighbours that differ in their
  high byte; transfers that take no time or time out; settings of 999, 1000 and
  5000; a word of 2^30 values (`WordSize`, 2^32 on the chip), since TLC's
  integers have 32 bits.  `temperature_period` has a setting of 500, which
  `Kconfig.projbuild` does not rule out.

`logger` turns the deadlock check off: after a reading the timers are stopped and
the program has nothing left to do.  `ReadingEnds` says that this, or a restart,
is where it ends.

### Fairness

* Pipeline: weak fairness of `app_main`, of the controller, and of each filter
  and sensor.  Every task blocks in `vTaskDelay` once per loop, so
  those of lower priority get a core, and a blocked queue call ends by success
  or by its time-out.
* Chronometer: weak fairness of the tasks and the callbacks.  The `esp_timer`
  task serves alarms in the order of their times, so a timer that is armed again
  and again is served: strong fairness of `ChronoExpires` and `SensorExpires`.
  The finger owes nothing.
* SleepReader: weak fairness of the main task, the callback and the wake-up.
  Resets owe nothing and are bounded.  The driver may fail in every boot:
  `SleepsAgainAndAgain` names that as the one way not to sleep.
* FlashLogger: weak fairness of `app_main`, the `esp_timer` task and the handler,
  which blocks only on its queue.  Failures and restarts owe nothing.
* TempSensor: weak fairness of `app_main` and of the task; a transfer ends by its
  time-out at the latest.

### What disagrees with the documents

Five of the runs end in a violation; each states what a document or a comment
says.  The quotations are in `PROJECT.json`.

1. The first mean comes with the sixth sample (`practica2.pdf`: only the first
   four go without).
2. After a Reset the chronometer prints no more (`practica3.pdf`: every second,
   active or not).  The property asks only that a chronometer left alone prints
   again and again.
3. The exponent of `raw_to_cms` is positive, so the infrared sensor resets the
   chronometer when it sees nothing instead of when it sees something near.
   With a falling curve (`raw_to_cms_inverse`) the property holds.
4. `CONFIG_PM_ENABLE` is off in `p5/sdkconfig`, so `esp_pm_configure` fails and
   `ESP_ERROR_CHECK` aborts every boot.
5. `CONFIG_MILLIS_TO_PRINT - 1000` of p4 is unsigned, so a setting below a second
   is a delay of weeks (`Kconfig.projbuild`: each X millis); the second that is
   taken off is too much for any other.

Others that a reading of the line shows, or that the models have as they are,
have no run: the statistics of p2 appear every 8 controller cycles, not 10
(`main.c:231`), and put 4096 bytes (`main.c:102`) on a stack of 3072
(`main.c:292`); p4 prints its bytes before they are read (`main.c:60`), and its
`ACK_VAL`, the level that does not acknowledge, loses the low byte of every
temperature (`main.c:57`); p5 makes six reads per cycle, not five (`main.c:158`,
and `TypeOK` has the exact bound); p6 never unmounts its partition
(`main.c:119`).

## Proofs

All theorems hold for every value of the constants under the named assumptions
of the modules: positive lengths and numbers, `NULL` no integer, and so on.
Every invariant that a run checks is a theorem, and so is every property of a
passing run that is not liveness: 23 theorems.  Each program has
a `TypeCorrect`, which the others build on; further:

| Theorem | Property | Inductive invariant |
|---|---|---|
| `FilterStageProofs!RingIsWindow` | `ImplementsWindow` | types |
| `PipelineProofs!TasksHaveTheirQueues`, `NullIsNeverRead` | `TasksHaveQueues`, `NullIsNoQueue` | `BootInv` |
| `PipelineProofs!QueueSetIsRight`, `NoNotificationIsLost` | `QueueSetAgrees`, `SetHasRoom` | `SetInv` |
| `PipelineProofs!SamplesStayInOrder`, `WindowsAreWhole` | `SampleOrder`, `WholeWindow` | `ChainsInv` |
| `PipelineProofs!QueueSetIsAFeed` | `ImplementsFeed` | `SetInv`, `NothingShown` |
| `ChronometerProofs!ActiveIsAlwaysArmed` | `ActiveIsArmed` | `ArmedInv` |
| `ChronometerProofs!QueueAndHandlerAreAStopwatch` | `ImplementsStopwatch` | `WatchInv` |
| `TempSensorProofs!ReportIsOfThisTurn`, `LatenessHasABound` | `PrintsNearMeasured`, `LatenessIsBounded` | `TurnInv` |
| `SleepReaderProofs!EverySleepIsReported` | `SleepIsReported` | `CycleInv` |
| `FlashLoggerProofs!LogStaysInOrder` | `LogIsOrdered` | `LogOrderInv` |
| `FlashLoggerProofs!LinesLag`, `RunReplacesTheLog`, `ReadingShowsItsLines` | `LinesLagByBacklog`, `LogIsOfThisRun`, `ReadingIsWhole` | `BootInv`, `CalmInv` |

The arguments:

* The ring.  `CircularVectorProofs!InsertByAge`: reading the ring by age after
  an insertion gives the shifted window, at every index.
* The boot of the pipeline.  The sensors that the loop of `app_main` has passed
  have a filter queue, the tasks that run have both (`BootInv`).  Neither
  property is inductive by itself, since it says nothing of queues the loop has
  not come to.
* Set and queues.  `QueueSetAgrees` needs that every message sent is notified,
  that is `SetHasRoom`, and that the queue of a running filter is a member of the
  set (`BootInv`); `CountInv` adds the lengths of the queues.  `SetHasRoom` in
  turn follows from `QueueSetAgrees` by counting: the pending handles are mapped
  one to one to pairs of a sensor and a place in its queue
  (`QueueSetProofs!RoomForAHandle`); with one place still free they are fewer
  than all the pairs, and the set has that length.
* The order of the samples.  `ChainsInv` says of each sensor that whatever is on
  its way - the sample in the sensor's hand, those in its queue, those of the
  window from the newest to the oldest, the mean in the filter's hand, those in
  the filter queue, the one shown - is older the further it has come, and that
  the counted part of the window holds samples, newest first.
  `SampleOrder` and `WholeWindow` are parts of it.
* The feed.  The k-th pending handle is mapped to the message of its rank in its
  own queue (`UnshownIsFeed`).  `QueueSetProofs!RankAppend` and `RankTail` say
  what a new handle and a handle less do to ranks: a send appends to the feed, a
  receive takes its first mean, and every other step leaves it alone.
* The timer of the chronometer.  With `CreatedFirst` (the timer exists when
  `app_main` is about to start it) `ActiveIsArmed` is inductive.
* The stopwatch.  `Outcome` applies the events on their way one after the other,
  by the recursive function `Course`.  That its equation has exactly one
  solution would be proved by induction over the events; instead it is part of
  the invariant (`Determined`): it holds with no event, and it passes from a
  sequence to the one with an event more at its end (`CourseOfAppend`, a send)
  or with its first event applied (`CourseOfRest`, the handler).  The same two
  lemmas say that a send applies its event to the outcome and that handling
  changes it not at all.
* The turn of the temperature reader.  On the way to a report that prints, the
  bytes are those received for this turn's measurement (`BytesInv`), and at each
  step the ticks since the last report lie within what the steps so far may
  have taken (`ElapsedInv`).
* The cycle of the sleeping reader.  `CycleInv` relates the lifetimes of the
  variables: awake the mark is clear, a transfer is begun only below the limit,
  and the duration of the sleep is in `sinceEnter` until it is in `sleep_time`.
* The order of the log.  A close stores the task's own view of the file, so the
  views are in the invariant too: `LogOrderInv` says of the file and of both
  views that they are ordered and hold nothing newer than the present or than
  the line the handler is about to write, and that the timer task brings error
  messages only, which have no place in the order.
* The logger without failures.  `Calm` holds until the run is `disturbed`: only
  the handler redirects the log and its view is the file (`RedirectInv`);
  lines, events queued and in hand are as many as the samples (`CountInv`), and
  so the last sample, which a line gets, is ahead of its number by the events
  that wait; lines are of
  this run, and the line the handler brings is of a sample not older than its
  place (`LinesInv`); a reading, wherever it is on its way, has a whole reader
  period of samples before it (`ReadInv`); and while the timers run either no
  period is over or the reading is on its way with only so many samples after it
  as there are events behind it (`PaceInv`), so that no sample of the run goes
  beyond `MaxSamples`.

Only model-checked is liveness (`PublishedIsShown`, `QueuedIsFiltered`,
`ActiveKeepsCounting`, `ReleasedPadIsQuiet`, `SleepsAgainAndAgain`,
`ReadingEnds`, `ReportsGoOn`), which needs ENABLED and fairness and so lies
beyond this prover.

The steps that unfold a recursive function (`Course`, `WeightedSum`) are given to
Zenon: the translation to SMT of this version of the prover weakens a goal that
equates something with a CHOOSE, which is what a recursive function is.

## Not modelled

* Time and rates of p2, p3 and p5 (all delays, periods and the two units they are
  given in), priorities, console output with p2's run-time statistics and the
  stack these overflow (the pipeline is that of the time before the first of
  them), the system date.
* Failures of `xTaskCreate` and `xQueueCreateSet`; float rounding; the
  calibration of the touch pad; the text of the lines in the flash log.
* `p2/src/main_2.c` with `tipos_2.h`: a draft that does not compile (line 81) and
  was replaced by `main.c`; a model would be of a program that never ran.
* `sensor_temp_task` and `start_light_mode` of p5, which nothing calls; the stray
  `SensorTemp_t` of `p3/src/customTypes.h`, whose types are not declared there.
* Everything under `p2/build`, which is generated.

## Plan

1. Done: the six programs, with every safety property and every refinement of
   the passing runs proved.
2. Next: theorems about the infrared variant - that it too implements the
   stopwatch and keeps an active one armed, since its callback sends the same
   event - which no run checks yet.
3. A timed pipeline: periods in ticks, the time a mean waits, and which rates
   make queues overflow.
