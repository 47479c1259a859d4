---------------------------- MODULE SleepReader ----------------------------
(***************************************************************************)
(* The duty cycle of p5/src/main.c: an esp_timer callback reads the        *)
(* temperature sensor over I2C until enough reads were made, then puts the *)
(* chip to deep sleep.  Waking up is a boot: the variables in RAM start    *)
(* afresh and only sleep_enter_time, in RTC memory, is kept.               *)
(*                                                                         *)
(* Time is counted in seconds, and only relative to sleep_enter_time:      *)
(* sinceEnter is gettimeofday minus sleep_enter_time.                      *)
(***************************************************************************)
EXTENDS Integers

CONSTANTS
  MAX_READ_COUNT,             \* 5 in the code
  TIMER_WAKE_UP_SLEEP_MODE,   \* seconds of sleep, 10 in the code
  PM_ENABLE,                  \* CONFIG_PM_ENABLE of the sdkconfig
  MaxSince,                   \* bound: sinceEnter stops growing here
  MaxReads,                   \* bound: read_count stops growing here
  MaxResets                   \* bound: resets of the chip from outside

ASSUME ReadCountAssumption ==
         MAX_READ_COUNT \in Nat /\ MaxReads \in Nat /\ MaxReads > MAX_READ_COUNT
ASSUME TimeAssumption ==
         /\ TIMER_WAKE_UP_SLEEP_MODE \in Nat /\ MaxSince \in Nat
         /\ TIMER_WAKE_UP_SLEEP_MODE <= MaxSince
ASSUME PowerAssumption == PM_ENABLE \in BOOLEAN
ASSUME ResetsAssumption == MaxResets \in Nat

VARIABLES
  cpu,                \* the next call of app_main, "running" or "asleep"
  wakeupCause,        \* esp_sleep_get_wakeup_cause
  sinceEnter,
  sleep_time,         \* what app_main reported, in seconds
  read_count,
  sleep_mode_active,
  timerArmed,         \* periodic_timer_sensor_read was started
  callback,           \* the I2C transfer sensor_read_timer_callback waits for
  resets

bootVars == <<wakeupCause, sleep_time, timerArmed>>
countVars == <<read_count, sleep_mode_active>>
vars == <<cpu, bootVars, sinceEnter, countVars, callback, resets>>

\* Fault: sleep_mode_active is in RTC memory too.
BootKeepsSleepMode ==
  /\ cpu' = "configurePower"
  /\ sleep_time' = 0
  /\ read_count' = 0
  /\ UNCHANGED sleep_mode_active
  /\ timerArmed' = FALSE
  /\ callback' = "none"

\* What every boot finds in RAM.
Boot ==
  /\ cpu' = "configurePower"
  /\ sleep_time' = 0
  /\ read_count' = 0
  /\ sleep_mode_active' = FALSE
  /\ timerArmed' = FALSE
  /\ callback' = "none"

Init ==
  /\ cpu = "configurePower"
  /\ wakeupCause = "other"
  /\ sinceEnter = 0
  /\ sleep_time = 0
  /\ read_count = 0
  /\ sleep_mode_active = FALSE
  /\ timerArmed = FALSE
  /\ callback = "none"
  /\ resets = 0

-----------------------------------------------------------------------------
(* The chip.                                                               *)

\* A reset that is no wake-up: a panic or the button.  It initialises the RTC
\* variables again, so that sleep_enter_time is 0 and the time since then any.
ResetChip ==
  /\ Boot
  /\ wakeupCause' = "other"
  /\ sinceEnter' \in 0 .. MaxSince

PressReset ==
  /\ resets < MaxResets
  /\ resets' = resets + 1
  /\ ResetChip

\* The timer that esp_sleep_enable_timer_wakeup set.
WakeUp ==
  /\ cpu = "asleep"
  /\ Boot
  /\ wakeupCause' = "timer"
  /\ sinceEnter' = IF sinceEnter + TIMER_WAKE_UP_SLEEP_MODE <= MaxSince
                     THEN sinceEnter + TIMER_WAKE_UP_SLEEP_MODE ELSE MaxSince
  /\ UNCHANGED resets

\* A second passes.  The calls of app_main before the timer starts take less.
Tick ==
  /\ cpu = "running"
  /\ sinceEnter < MaxSince
  /\ sinceEnter' = sinceEnter + 1
  /\ UNCHANGED <<cpu, bootVars, countVars, callback, resets>>

-----------------------------------------------------------------------------
(* app_main.                                                               *)

\* Without CONFIG_PM_ENABLE esp_pm_configure is not supported, and
\* ESP_ERROR_CHECK aborts.
ConfigurePower ==
  /\ cpu = "configurePower"
  /\ IF PM_ENABLE
       THEN /\ cpu' = "reportSleep"
            /\ UNCHANGED <<bootVars, sinceEnter, countVars, callback>>
       ELSE ResetChip
  /\ UNCHANGED resets

\* gettimeofday against sleep_enter_time.
ReportSleep ==
  /\ cpu = "reportSleep"
  /\ cpu' = "configDriver"
  /\ sleep_time' = sinceEnter
  /\ UNCHANGED <<wakeupCause, sinceEnter, countVars, timerArmed, callback, resets>>

ConfigDriver ==
  /\ cpu = "configDriver"
  /\ cpu' = "startTimer"
  /\ UNCHANGED <<bootVars, sinceEnter, countVars, callback, resets>>

\* ESP_ERROR_CHECK aborts on an I2C driver that cannot be set up.
DriverFails ==
  /\ cpu = "configDriver"
  /\ ResetChip
  /\ UNCHANGED resets

StartTimer ==
  /\ cpu = "startTimer"
  /\ cpu' = "running"
  /\ timerArmed' = TRUE
  /\ UNCHANGED <<wakeupCause, sinceEnter, sleep_time, countVars, callback, resets>>

-----------------------------------------------------------------------------
(* sensor_read_timer_callback, in the esp_timer task.                      *)

\* Fault: the time of falling asleep is not stored.
start_deep_mode_untimed ==
  /\ cpu' = "asleep"
  /\ UNCHANGED sinceEnter

\* The task never comes back from esp_deep_sleep_start.
start_deep_mode ==
  /\ cpu' = "asleep"
  /\ sinceEnter' = 0

\* Fault: one read more.
EnoughReadsLate == read_count > MAX_READ_COUNT + 1 /\ ~sleep_mode_active

EnoughReads == read_count > MAX_READ_COUNT /\ ~sleep_mode_active

CallbackSleeps ==
  /\ cpu = "running" /\ timerArmed /\ callback = "none"
  /\ EnoughReads
  /\ sleep_mode_active' = TRUE
  /\ start_deep_mode
  /\ UNCHANGED <<bootVars, read_count, callback, resets>>

CallbackReads ==
  /\ cpu = "running" /\ timerArmed /\ callback = "none"
  /\ ~EnoughReads
  /\ callback' = "command"
  /\ UNCHANGED <<cpu, bootVars, sinceEnter, countVars, resets>>

\* An attempt counts whether or not it gave a value.
CountRead ==
  /\ read_count' = IF read_count < MaxReads THEN read_count + 1 ELSE read_count
  /\ callback' = "none"
  /\ UNCHANGED sleep_mode_active

\* The command is acknowledged, or the transfer fails or times out.
SendCommand ==
  /\ cpu = "running" /\ callback = "command"
  /\ \/ callback' = "data" /\ UNCHANGED countVars
     \/ CountRead
  /\ UNCHANGED <<cpu, bootVars, sinceEnter, resets>>

ReadData ==
  /\ cpu = "running" /\ callback = "data"
  /\ CountRead
  /\ UNCHANGED <<cpu, bootVars, sinceEnter, resets>>

-----------------------------------------------------------------------------

AppMain == \/ ConfigurePower \/ ReportSleep
           \/ ConfigDriver \/ DriverFails \/ StartTimer
Callback == CallbackSleeps \/ CallbackReads \/ SendCommand \/ ReadData

Next == AppMain \/ Callback \/ WakeUp \/ Tick \/ PressReset

Spec == Init /\ [][Next]_vars

\* The main task and the esp_timer task run, the sleep timer fires.
FairSpec == Spec /\ WF_vars(AppMain) /\ WF_vars(Callback) /\ WF_vars(WakeUp)

-----------------------------------------------------------------------------
(* Properties.                                                             *)

\* Every variable has the values of its declaration, and no cycle makes more
\* than MAX_READ_COUNT + 1 attempts, the first count to exceed the limit.
TypeOK ==
  /\ cpu \in {"configurePower", "reportSleep", "configDriver", "startTimer",
              "running", "asleep"}
  /\ wakeupCause \in {"other", "timer"}
  /\ sinceEnter \in 0 .. MaxSince
  /\ sleep_time \in 0 .. MaxSince
  /\ read_count \in 0 .. MAX_READ_COUNT + 1
  /\ sleep_mode_active \in BOOLEAN
  /\ timerArmed \in BOOLEAN
  /\ callback \in {"none", "command", "data"}
  /\ resets \in 0 .. MaxResets

\* What app_main reports after a wake-up is how long the chip slept, whatever
\* came before the sleep: the time spent awake, resets, earlier sleeps.
SleepIsReported ==
  cpu = "running" /\ wakeupCause = "timer" => sleep_time = TIMER_WAKE_UP_SLEEP_MODE

\* The duty cycle goes on for ever: no wake-up finds the device in a state in
\* which it would stay awake, although it went to sleep only once before.  The
\* only way out is a driver that fails in one boot after the other.
SleepsAgainAndAgain == []<>(cpu = "asleep") \/ []<><<DriverFails>>_vars

\* "Print temperature sensor value each X millis": the sensor is read at all.
SensorIsRead == <>(callback = "command")

=============================================================================
