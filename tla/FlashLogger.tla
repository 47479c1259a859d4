---------------------------- MODULE FlashLogger ----------------------------
(***************************************************************************)
(* The logger of p6/src/main.c.  A periodic esp_timer samples the Hall     *)
(* sensor and sends WRITE_LOG, a second one sends READ_LOG;                *)
(* status_handler_task mounts a FAT partition, redirects ESP_LOG* to a     *)
(* file on it, logs a value for each WRITE_LOG and shows the file for      *)
(* READ_LOG.  The esp_timer task logs as well, when it finds the queue     *)
(* full, so redirect_log may be entered by two tasks at once.              *)
(*                                                                         *)
(* Of time only this is kept: SENSORS_PER_READ periods of the sensor make  *)
(* one period of the reader, both timers start at the same moment, and     *)
(* esp_timer calls back in the order of the alarms.                        *)
(***************************************************************************)
EXTENDS QueueSet

CONSTANTS
  QUEUE_LENGTH,       \* of queueOut (10 in the code)
  NUM_LOGS_READ,      \* lines shown (5)
  SENSORS_PER_READ,   \* MICROS_CHRONO_READER / MICROS_PERIODIC_SENSOR_HALL (6)
  MaxSamples,         \* bound: value_sensor stops growing here
  MaxLines,           \* bound: lines the partition has room for
  MaxRuns             \* bound: runs of the program

ASSUME LengthsAssumption ==
         /\ QUEUE_LENGTH \in Nat \ {0} /\ NUM_LOGS_READ \in Nat
         /\ SENSORS_PER_READ \in Nat /\ NUM_LOGS_READ <= SENSORS_PER_READ
ASSUME BoundsAssumption ==
         /\ MaxSamples \in Nat /\ MaxLines \in Nat /\ MaxRuns \in Nat \ {0}
         /\ SENSORS_PER_READ + QUEUE_LENGTH + 1 <= MaxSamples
         /\ MaxSamples <= MaxLines

Events == {"WRITE_LOG", "READ_LOG"}
Timers == {"sensor", "reader"}
Tasks == {"handler", "timer"}    \* those that log

\* A line of the file: a value of one run, or 0 for an error message.  A value
\* is its number in the sequence of samples.
Lines == [run : 1 .. MaxRuns, value : 0 .. MaxSamples]

VARIABLES
  boot,            \* the next call of app_main
  queueOut,
  armed,           \* the timers that were started and not stopped
  due,             \* sensor periods since the reader's last alarm
  dispatching,     \* the event the esp_timer task is about to send, or "none"
  handlerPc,
  mounted,         \* and the log redirected
  is_first_time,
  value_sensor,
  redirect,        \* where each task is in redirect_log
  file,            \* what log.txt holds
  shown,           \* how many lines the last READ_LOG printed
  run,             \* history: which run of the program this is
  disturbed        \* history: in this run an open or a write failed or an event
                   \* was lost

timerVars == <<armed, due, dispatching>>
handlerVars == <<handlerPc, mounted, shown>>
logVars == <<is_first_time, redirect, file, disturbed>>
programVars == <<boot, run, queueOut, value_sensor, timerVars, handlerVars>>
vars == <<programVars, logVars>>

Outside == [at |-> "outside", mode |-> "a", line |-> [run |-> 1, value |-> 0],
            base |-> <<>>]

Init ==
  /\ boot = "startHandler"
  /\ queueOut = <<>>
  /\ armed = {} /\ due = 0 /\ dispatching = "none"
  /\ handlerPc = "absent" /\ mounted = FALSE
  /\ is_first_time = TRUE
  /\ value_sensor = 0
  /\ redirect = [task \in Tasks |-> Outside]
  /\ file = <<>>
  /\ shown = 0
  /\ run = 1 /\ disturbed = FALSE

\* Power loss, the reset button, or an abort: only the file is kept.
Restart ==
  /\ run < MaxRuns
  /\ boot' = "startHandler"
  /\ queueOut' = <<>>
  /\ armed' = {} /\ due' = 0 /\ dispatching' = "none"
  /\ handlerPc' = "absent" /\ mounted' = FALSE
  /\ is_first_time' = TRUE
  /\ value_sensor' = 0
  /\ redirect' = [task \in Tasks |-> Outside]
  /\ file' = file
  /\ shown' = 0
  /\ run' = run + 1 /\ disturbed' = FALSE

-----------------------------------------------------------------------------
(* app_main.                                                               *)

StartHandler ==
  /\ boot = "startHandler"
  /\ boot' = "startTimers"
  /\ handlerPc' = "mounting"
  /\ UNCHANGED <<run, queueOut, value_sensor, timerVars, mounted, shown,
                 logVars>>

\* The second timer is called one-shot and started as a periodic one.
StartTimers ==
  /\ boot = "startTimers"
  /\ boot' = "done"
  /\ armed' = Timers
  /\ UNCHANGED <<run, queueOut, value_sensor, due, dispatching, handlerVars,
                 logVars>>

AppMain == StartHandler \/ StartTimers

-----------------------------------------------------------------------------
(* redirect_log, as task goes through it.                                  *)

\* Line 24.
Enter(task, value) ==
  redirect' = [redirect EXCEPT ![task] =
                 [at   |-> IF is_first_time THEN "clear" ELSE "open",
                  mode |-> IF is_first_time THEN "wb" ELSE "a",
                  line |-> [run |-> run, value |-> value],
                  base |-> <<>>]]

\* Fault: the assignment is forgotten.
Cleared_never == is_first_time

Cleared == FALSE

ClearFirstTime(task) ==
  /\ redirect[task].at = "clear"
  /\ is_first_time' = Cleared
  /\ redirect' = [redirect EXCEPT ![task].at = "open"]
  /\ UNCHANGED <<programVars, file, disturbed>>

\* Fault: the log of the earlier run is not truncated.
Opened_kept(mode) == file

\* Fault: every line is written with WRITE_FILE.
Opened_afresh(mode) == <<>>

\* fopen with WRITE_FILE or APPEND_FILE.
Opened(mode) == IF mode = "wb" THEN <<>> ELSE file

\* From here on FatFs works with the start and the size of the file as they
\* are now.
OpenLog(task) ==
  /\ redirect[task].at = "open"
  /\ file' = Opened(redirect[task].mode)
  /\ redirect' = [redirect EXCEPT ![task].at = "write", ![task].base = file']
  /\ UNCHANGED <<programVars, is_first_time, disturbed>>

OpenFails(task) ==
  /\ redirect[task].at = "open"
  /\ redirect' = [redirect EXCEPT ![task] = Outside]
  /\ disturbed' = TRUE
  /\ UNCHANGED <<programVars, is_first_time, file>>

\* Fault: a log as long as a reading starts again at its first line.
Written_rotating(base, line) ==
  IF Len(base) < NUM_LOGS_READ \/ base = <<>> THEN Append(base, line)
                                              ELSE [base EXCEPT ![1] = line]

Written(base, line) == Append(base, line)

\* vfprintf and fclose.  FatFs has no lock on an open file (FATFS_FS_LOCK is 0):
\* the close stores this task's view of it, without what the other task wrote
\* since it was opened.  If that truncated the file, its clusters were freed, and
\* it is assumed that nothing has been written over them in the meantime.  A full
\* partition takes nothing more.
WriteLog(task) ==
  LET log == redirect[task]
  IN  /\ log.at = "write"
      /\ IF Len(log.base) < MaxLines
           THEN file' = Written(log.base, log.line) /\ UNCHANGED disturbed
           ELSE file' = log.base /\ disturbed' = TRUE
      /\ redirect' = [redirect EXCEPT ![task] = Outside]
      /\ UNCHANGED <<programVars, is_first_time>>

RedirectLog(task) == \/ ClearFirstTime(task) \/ OpenLog(task)
                     \/ OpenFails(task) \/ WriteLog(task)

-----------------------------------------------------------------------------
(* The esp_timer task.                                                     *)

TimerIdle == dispatching = "none" /\ redirect["timer"].at = "outside"

\* sensor_hall_timer_callback up to its reading.
SensorExpires ==
  /\ TimerIdle /\ "sensor" \in armed
  /\ due < SENSORS_PER_READ \/ "reader" \notin armed
  /\ due' = IF due < SENSORS_PER_READ THEN due + 1 ELSE due
  /\ value_sensor' = IF value_sensor < MaxSamples THEN value_sensor + 1
                                                  ELSE value_sensor
  /\ dispatching' = "WRITE_LOG"
  /\ UNCHANGED <<boot, run, queueOut, armed, handlerVars, logVars>>

ReaderExpires ==
  /\ TimerIdle /\ "reader" \in armed
  /\ due = SENSORS_PER_READ \/ "sensor" \notin armed
  /\ due' = 0
  /\ dispatching' = "READ_LOG"
  /\ UNCHANGED <<boot, run, queueOut, value_sensor, armed, handlerVars,
                 logVars>>

\* Fault: one place more than the queue has.
HasRoom_late == Len(queueOut) <= QUEUE_LENGTH

HasRoom == Len(queueOut) < QUEUE_LENGTH

\* send_machine_state.  Its error message goes to the console until the
\* partition is mounted, to the file after that.
SendEvent ==
  /\ dispatching # "none"
  /\ dispatching' = "none"
  /\ IF HasRoom
       THEN /\ queueOut' = Append(queueOut, dispatching)
            /\ UNCHANGED <<redirect, disturbed>>
       ELSE /\ disturbed' = TRUE
            /\ IF mounted THEN Enter("timer", 0) ELSE UNCHANGED redirect
            /\ UNCHANGED queueOut
  /\ UNCHANGED <<boot, run, value_sensor, armed, due, handlerVars,
                 is_first_time, file>>

TimerTask == SensorExpires \/ ReaderExpires \/ SendEvent \/ RedirectLog("timer")

-----------------------------------------------------------------------------
(* status_handler_task.                                                    *)

\* A partition that cannot be mounted is formatted.
Mount ==
  /\ handlerPc = "mounting"
  /\ handlerPc' = "receiving"
  /\ mounted' = TRUE
  /\ file' \in {file, <<>>}
  /\ UNCHANGED <<boot, run, queueOut, value_sensor, timerVars, shown,
                 is_first_time, redirect, disturbed>>

Receive ==
  /\ handlerPc = "receiving" /\ redirect["handler"].at = "outside"
  /\ queueOut # <<>>
  /\ handlerPc' = Head(queueOut)
  /\ queueOut' = Tail(queueOut)
  /\ UNCHANGED <<boot, run, value_sensor, timerVars, mounted, shown, logVars>>

\* ESP_LOGI takes the value of this moment, not that of the event.
HandleWrite ==
  /\ handlerPc = "WRITE_LOG"
  /\ handlerPc' = "receiving"
  /\ Enter("handler", value_sensor)
  /\ UNCHANGED <<boot, run, queueOut, value_sensor, timerVars, mounted, shown,
                 is_first_time, file, disturbed>>

FirstLines == IF NUM_LOGS_READ < Len(file) THEN NUM_LOGS_READ ELSE Len(file)

\* Fault: the reader, being one-shot by its name, is not stopped.
Stopped_sensor == {"sensor"}

Stopped == {"sensor", "reader"}

HandleRead ==
  /\ handlerPc = "READ_LOG"
  /\ handlerPc' = "receiving"
  /\ armed' = armed \ Stopped
  /\ shown' = FirstLines
  /\ UNCHANGED <<boot, run, queueOut, value_sensor, due, dispatching, mounted,
                 logVars>>

\* The task function returns, which FreeRTOS answers with an abort.
ReadFails == handlerPc = "READ_LOG" /\ Restart

Handler == \/ Mount \/ Receive \/ HandleWrite \/ HandleRead \/ ReadFails
           \/ RedirectLog("handler")

-----------------------------------------------------------------------------

Next == AppMain \/ TimerTask \/ Handler \/ Restart

Spec == Init /\ [][Next]_vars

\* The three tasks run.  No failure and no restart is owed.
FairSpec ==
  Spec /\ WF_vars(AppMain) /\ WF_vars(TimerTask) /\ WF_vars(Handler)

-----------------------------------------------------------------------------
(* Properties.                                                             *)

\* Every variable has the values its declaration allows, the queue is not overrun
\* and what is in the file are lines of runs so far.
TypeOK ==
  /\ boot \in {"startHandler", "startTimers", "done"}
  /\ queueOut \in Seq(Events) /\ Len(queueOut) <= QUEUE_LENGTH
  /\ armed \in SUBSET Timers
  /\ due \in 0 .. SENSORS_PER_READ
  /\ dispatching \in Events \union {"none"}
  /\ handlerPc \in {"absent", "mounting", "receiving"} \union Events
  /\ mounted \in BOOLEAN
  /\ is_first_time \in BOOLEAN
  /\ value_sensor \in 0 .. MaxSamples
  /\ redirect \in [Tasks -> [at : {"outside", "clear", "open", "write"},
                             mode : {"wb", "a"},
                             line : Lines, base : Seq(Lines)]]
  /\ file \in Seq(Lines)
  /\ shown \in 0 .. NUM_LOGS_READ
  /\ run \in 1 .. MaxRuns
  /\ disturbed \in BOOLEAN

Older(line, other) ==
  \/ line.run < other.run
  \/ line.run = other.run /\ line.value <= other.value

\* The lines with a value, those with an error message left aside, are in order.
Ordered(lines) ==
  \A j, k \in 1 .. Len(lines) :
    j < k /\ lines[j].value # 0 /\ lines[k].value # 0
      => Older(lines[j], lines[k])

\* Whatever is lost in restarts, failed opens and writes of two tasks at once,
\* the values that are in the file are in the order in which they were sampled,
\* run after run.
LogIsOrdered == Ordered(file)

\* The log of the present run has replaced the one before.
Begun ==
  /\ ~is_first_time
  /\ ~(redirect["handler"].at = "open" /\ redirect["handler"].mode = "wb")

\* The WRITE_LOG events that were taken after the one the handler has, which is
\* as many as samples were.
Backlog ==
  (IF dispatching = "WRITE_LOG" THEN 1 ELSE 0)
    + Occurrences(queueOut, "WRITE_LOG")

\* In a run without failures a line is newer than it should be by exactly the
\* events that wait behind its own: the n-th line is of sample n if none does,
\* and of the last of them otherwise, so that n is lost and the last is logged
\* again for its own event.  No other loss, repetition or delay occurs.
LinesLagByBacklog ==
  [][HandleWrite /\ ~disturbed =>
       redirect'["handler"].line.value =
         (IF Begun THEN Len(file) ELSE 0) + 1 + Backlog]_vars

\* In a run without failures nothing of an earlier run is left in the file, and
\* its k-th line is of the k-th sample or, if the handler was late, a newer one.
LogIsOfThisRun ==
  ~disturbed /\ Begun =>
    \A k \in 1 .. Len(file) : /\ file[k].run = run
                              /\ file[k].value \in k .. value_sensor

\* In a run without failures a reading shows its NUM_LOGS_READ lines: the queue
\* brings the samples of one reader period before the reading itself.
ReadingIsWhole ==
  [][HandleRead /\ ~disturbed => shown' = NUM_LOGS_READ]_vars

\* A reading that was queued puts the program to rest: timers stopped, events
\* handled - unless it restarts.
AtRest ==
  /\ armed = {} /\ TimerIdle
  /\ queueOut = <<>>
  /\ handlerPc = "receiving" /\ redirect["handler"].at = "outside"

ReadingEnds ==
  (\E k \in 1 .. Len(queueOut) : queueOut[k] = "READ_LOG")
    ~> (AtRest \/ boot = "startHandler")

=============================================================================
