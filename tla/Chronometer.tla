---------------------------- MODULE Chronometer ----------------------------
(***************************************************************************)
(* The chronometer of p3/src/main.c.  Three sources - the touch pad        *)
(* through its ISR and touchpad_read_task, a one-second esp_timer and a    *)
(* ten-millisecond esp_timer that samples the Hall sensor - send events to *)
(* one queue, and status_handler_task applies them.  app_main starts the   *)
(* handler first and the one-second timer last, so events arrive while it  *)
(* is still booting.                                                       *)
(*                                                                         *)
(* Time is left out: an armed timer may expire whenever the esp_timer task *)
(* is free, and the delays of the tasks separate their steps.              *)
(***************************************************************************)
EXTENDS Integers, Sequences

CONSTANTS
  QUEUE_LENGTH,           \* of queueOut (10 in the code)
  SENSOR_HALL_THRESHOLD,
  Readings,               \* values hall_sensor_read can return
  MaxCount                \* bound: countTimer stops growing here

ASSUME QueueLengthAssumption == QUEUE_LENGTH \in Nat \ {0}
ASSUME ReadingsAssumption ==
         SENSOR_HALL_THRESHOLD \in Int /\ Readings \subseteq Int
ASSUME CountAssumption == MaxCount \in Nat \ {0}

\* enum machine_status
Events == {"COUNT_TIMER", "START_STOP_TIMER", "RESET_TIMER"}

VARIABLES
  boot,             \* the next call of app_main
  queueOut,
  handlerPc,        \* status_handler_task: "absent", "receiving", "handling"
  status,           \* the event it received last
  isTimerActive,
  countTimer,
  touchPc,          \* touchpad_read_task: "absent", "checking", "waiting"
  padTouched,       \* whether a finger is on the pad
  intrEnabled,      \* touch_pad_intr_enable was called
  padActivated,     \* s_pad_activated[TOUCH_PAD_PIN_0]
  sensorArmed,      \* periodic_timer_sensor_hall was started
  chronoCreated,    \* periodic_timer_chrono is a timer, not NULL
  chronoArmed,      \* periodic_timer_chrono is running
  dispatching       \* the timer whose callback the esp_timer task is in

handlerVars == <<handlerPc, status, isTimerActive, countTimer>>
touchVars == <<touchPc, padTouched, intrEnabled, padActivated>>
chronoVars == <<chronoCreated, chronoArmed>>
vars == <<boot, queueOut, handlerVars, touchVars, sensorArmed, chronoVars,
          dispatching>>

Init ==
  /\ boot = "startHandler"
  /\ queueOut = <<>>
  /\ handlerPc = "absent"
  /\ status = "COUNT_TIMER"
  /\ isTimerActive = TRUE
  /\ countTimer = 0
  /\ touchPc = "absent"
  /\ padTouched = FALSE
  /\ intrEnabled = FALSE
  /\ padActivated = FALSE
  /\ sensorArmed = FALSE
  /\ chronoCreated = FALSE
  /\ chronoArmed = FALSE
  /\ dispatching = "none"

-----------------------------------------------------------------------------
(* app_main.                                                               *)

\* The queue exists before its first user.
StartHandler ==
  /\ boot = "startHandler"
  /\ boot' = "startTouch"
  /\ handlerPc' = "receiving"
  /\ UNCHANGED <<queueOut, status, isTimerActive, countTimer, touchVars,
                 sensorArmed, chronoVars, dispatching>>

\* The ISR is registered before the task that enables its interrupt.
StartTouch ==
  /\ boot = "startTouch"
  /\ boot' = "startSensor"
  /\ touchPc' = "checking"
  /\ UNCHANGED <<queueOut, handlerVars, padTouched, intrEnabled, padActivated,
                 sensorArmed, chronoVars, dispatching>>

StartSensor ==
  /\ boot = "startSensor"
  /\ boot' = "createChrono"
  /\ sensorArmed' = TRUE
  /\ UNCHANGED <<queueOut, handlerVars, touchVars, chronoVars, dispatching>>

CreateChrono ==
  /\ boot = "createChrono"
  /\ boot' = "startChrono"
  /\ chronoCreated' = TRUE
  /\ UNCHANGED <<queueOut, handlerVars, touchVars, sensorArmed, chronoArmed,
                 dispatching>>

\* The start fails without effect if the handler has already started the timer.
StartChrono ==
  /\ boot = "startChrono"
  /\ boot' = "done"
  /\ chronoArmed' = TRUE
  /\ UNCHANGED <<queueOut, handlerVars, touchVars, sensorArmed, chronoCreated,
                 dispatching>>

AppMain == \/ StartHandler \/ StartTouch \/ StartSensor
           \/ CreateChrono \/ StartChrono

-----------------------------------------------------------------------------
(* Sending.                                                                *)

\* Fault: room in the queue is not looked for.
send_machine_state_unbounded(event) == queueOut' = Append(queueOut, event)

\* Fault: the event is put in front of those that wait.
send_machine_state_front(event) ==
  queueOut' = IF Len(queueOut) < QUEUE_LENGTH
                THEN <<event>> \o queueOut ELSE queueOut

\* xQueueSendFromISR never waits: an event that finds the queue full is lost.
send_machine_state(event) ==
  queueOut' = IF Len(queueOut) < QUEUE_LENGTH
                THEN Append(queueOut, event) ELSE queueOut

-----------------------------------------------------------------------------
(* The touch pad.                                                          *)

\* A finger on the pad, and off it again.
Touch ==
  /\ padTouched' = ~padTouched
  /\ UNCHANGED <<boot, queueOut, handlerVars, touchPc, intrEnabled,
                 padActivated, sensorArmed, chronoVars, dispatching>>

\* rtc_intr_touch_pad: the pad interrupts at every measurement while touched.
PadInterrupt ==
  /\ padTouched /\ intrEnabled
  /\ ~padActivated
  /\ padActivated' = TRUE
  /\ UNCHANGED <<boot, queueOut, handlerVars, touchPc, padTouched, intrEnabled,
                 sensorArmed, chronoVars, dispatching>>

\* One turn of the loop of touchpad_read_task: the interrupt is enabled and the
\* flag tested.
CheckPad ==
  /\ touchPc = "checking"
  /\ padActivated \/ ~intrEnabled
  /\ intrEnabled' = TRUE
  /\ IF padActivated
       THEN send_machine_state("START_STOP_TIMER") /\ touchPc' = "waiting"
       ELSE UNCHANGED <<queueOut, touchPc>>
  /\ UNCHANGED <<boot, handlerVars, padTouched, padActivated, sensorArmed,
                 chronoVars, dispatching>>

\* Fault: the flag is left to the interrupt.
Unpressed_never == padActivated

Unpressed == FALSE

\* 200 ms after the event the flag is cleared, whether or not the pad was
\* released.
ClearPad ==
  /\ touchPc = "waiting"
  /\ touchPc' = "checking"
  /\ padActivated' = Unpressed
  /\ UNCHANGED <<boot, queueOut, handlerVars, padTouched, intrEnabled,
                 sensorArmed, chronoVars, dispatching>>

-----------------------------------------------------------------------------
(* The esp_timer task runs one callback at a time.  It takes an expired    *)
(* timer, lets go of the list of timers, and only then calls back: the     *)
(* timer may be stopped in between.                                        *)

ChronoExpires ==
  /\ dispatching = "none" /\ chronoArmed
  /\ dispatching' = "chrono"
  /\ UNCHANGED <<boot, queueOut, handlerVars, touchVars, sensorArmed,
                 chronoVars>>

SensorExpires ==
  /\ dispatching = "none" /\ sensorArmed
  /\ dispatching' = "sensor"
  /\ UNCHANGED <<boot, queueOut, handlerVars, touchVars, sensorArmed,
                 chronoVars>>

chronometer_timer_callback ==
  /\ dispatching = "chrono"
  /\ send_machine_state("COUNT_TIMER")
  /\ dispatching' = "none"
  /\ UNCHANGED <<boot, handlerVars, touchVars, sensorArmed, chronoVars>>

sensor_hall_timer_callback ==
  /\ dispatching = "sensor"
  /\ \E value \in Readings :
       IF value <= SENSOR_HALL_THRESHOLD
         THEN send_machine_state("RESET_TIMER") ELSE UNCHANGED queueOut
  /\ dispatching' = "none"
  /\ UNCHANGED <<boot, handlerVars, touchVars, sensorArmed, chronoVars>>

-----------------------------------------------------------------------------
(* status_handler_task.                                                    *)

\* A receive that times out changes nothing.
Receive ==
  /\ handlerPc = "receiving"
  /\ queueOut # <<>>
  /\ status' = Head(queueOut)
  /\ queueOut' = Tail(queueOut)
  /\ handlerPc' = "handling"
  /\ UNCHANGED <<boot, isTimerActive, countTimer, touchVars, sensorArmed,
                 chronoVars, dispatching>>

Incremented(count) == IF count < MaxCount THEN count + 1 ELSE count

\* The count is printed in any case.
HandleCount ==
  /\ handlerPc = "handling" /\ status = "COUNT_TIMER"
  /\ countTimer' = IF isTimerActive THEN Incremented(countTimer) ELSE countTimer
  /\ handlerPc' = "receiving"
  /\ UNCHANGED <<boot, queueOut, status, isTimerActive, touchVars, sensorArmed,
                 chronoVars, dispatching>>

\* Fault: the timer is not started again.
HandleStartStopOnly ==
  /\ handlerPc = "handling" /\ status = "START_STOP_TIMER"
  /\ isTimerActive' = ~isTimerActive
  /\ handlerPc' = "receiving"
  /\ UNCHANGED <<boot, queueOut, status, countTimer, touchVars, sensorArmed,
                 chronoVars, dispatching>>

\* A start finds the timer running unless a reset stopped it; before app_main
\* has created the timer it fails without effect.  A stop leaves it running.
HandleStartStop ==
  /\ handlerPc = "handling" /\ status = "START_STOP_TIMER"
  /\ isTimerActive' = ~isTimerActive
  /\ chronoArmed' = (chronoArmed \/ (isTimerActive' /\ chronoCreated))
  /\ handlerPc' = "receiving"
  /\ UNCHANGED <<boot, queueOut, status, countTimer, touchVars, sensorArmed,
                 chronoCreated, dispatching>>

\* Fault: the chronometer is stopped but still marked active.
HandleResetActive ==
  /\ handlerPc = "handling" /\ status = "RESET_TIMER"
  /\ countTimer' = 0
  /\ chronoArmed' = FALSE
  /\ handlerPc' = "receiving"
  /\ UNCHANGED <<boot, queueOut, status, isTimerActive, touchVars, sensorArmed,
                 chronoCreated, dispatching>>

HandleReset ==
  /\ handlerPc = "handling" /\ status = "RESET_TIMER"
  /\ countTimer' = 0
  /\ isTimerActive' = FALSE
  /\ chronoArmed' = FALSE
  /\ handlerPc' = "receiving"
  /\ UNCHANGED <<boot, queueOut, status, touchVars, sensorArmed, chronoCreated,
                 dispatching>>

-----------------------------------------------------------------------------

TouchPad == Touch \/ PadInterrupt \/ CheckPad \/ ClearPad
TimerTask == \/ ChronoExpires \/ chronometer_timer_callback
             \/ SensorExpires \/ sensor_hall_timer_callback
Handler == Receive \/ HandleCount \/ HandleStartStop \/ HandleReset

Next == AppMain \/ TouchPad \/ TimerTask \/ Handler

Spec == Init /\ [][Next]_vars

\* The tasks delay in every turn and so leave each other the processor.  The
\* esp_timer task takes expired timers in the order of their alarms: one that
\* expires again and again is dispatched again and again.  The finger does as
\* it likes.
Fairness ==
  /\ WF_vars(AppMain)
  /\ WF_vars(CheckPad \/ ClearPad)
  /\ WF_vars(Handler)
  /\ WF_vars(chronometer_timer_callback \/ sensor_hall_timer_callback)
  /\ SF_vars(ChronoExpires)
  /\ SF_vars(SensorExpires)

FairSpec == Spec /\ Fairness

-----------------------------------------------------------------------------
(* Properties.                                                             *)

\* Every variable has the values its declaration allows, and the queue is not
\* overrun.
TypeOK ==
  /\ boot \in {"startHandler", "startTouch", "startSensor", "createChrono",
               "startChrono", "done"}
  /\ queueOut \in Seq(Events) /\ Len(queueOut) <= QUEUE_LENGTH
  /\ handlerPc \in {"absent", "receiving", "handling"}
  /\ status \in Events
  /\ isTimerActive \in BOOLEAN
  /\ countTimer \in 0 .. MaxCount
  /\ touchPc \in {"absent", "checking", "waiting"}
  /\ padTouched \in BOOLEAN
  /\ intrEnabled \in BOOLEAN
  /\ padActivated \in BOOLEAN
  /\ sensorArmed \in BOOLEAN
  /\ chronoCreated \in BOOLEAN
  /\ chronoArmed \in BOOLEAN
  /\ dispatching \in {"none", "chrono", "sensor"}

\* Once app_main is done a chronometer that is marked active has its timer
\* running, whatever Start/Stop and Reset events were handled while app_main
\* had not created or not started the timer yet.
ActiveIsArmed == boot = "done" /\ isTimerActive => chronoArmed

\* The events still to be applied: the handler's first, then the queue's.
Pending ==
  (IF handlerPc = "handling" THEN <<status>> ELSE <<>>) \o queueOut

\* The chronometer after one more event.
After(chrono, event) ==
  CASE event = "COUNT_TIMER" ->
         [chrono EXCEPT !.seconds = IF chrono.running THEN Incremented(@) ELSE @]
    [] event = "START_STOP_TIMER" -> [chrono EXCEPT !.running = ~@]
    [] event = "RESET_TIMER" -> [running |-> FALSE, seconds |-> 0]

\* The chronometer after none, one, two, ... of the events.
Course(chrono, events) ==
  LET after[k \in 0 .. Len(events)] ==
        IF k = 0 THEN chrono ELSE After(after[k-1], events[k])
  IN  after

Shown == [running |-> isTimerActive, seconds |-> countTimer]

\* What the user will see when all that was sent has been handled.
Outcome == Course(Shown, Pending)[Len(Pending)]

\* Queue and handler implement a stopwatch to which every event is applied at
\* the moment it is sent: no event overtakes another, and a second that was
\* sent before a Reset is not counted after it.  A callback that is under way
\* while the chronometer is reset and started again sends its second after the
\* start, and so it counts, here as there.
Watch == INSTANCE Stopwatch WITH
           running <- Outcome.running, seconds <- Outcome.seconds

ImplementsStopwatch == Watch!Spec

\* A chronometer that stays active goes on counting: whatever was lost or
\* stopped while it booted or was reset, one-second events keep being handled.
ActiveKeepsCounting ==
  <>[](boot = "done" /\ isTimerActive) => []<><<HandleCount>>_vars

\* A finger that is taken off the pad for good is forgotten: the flag, which only
\* a delayed turn of another task clears and the interrupt may set meanwhile, does
\* not toggle the chronometer again and again.
ReleasedPadIsQuiet ==
  <>[]~padTouched => <>[](touchPc = "checking" /\ ~padActivated)

\* No finger on the pad, and nothing but seconds to be handled.
LeftAlone ==
  /\ ~padTouched
  /\ \A i \in 1 .. Len(Pending) : Pending[i] = "COUNT_TIMER"

\* What the practice asks for: "Se imprimira la cuenta [...] cada segundo [...],
\* independientemente de que el cronometro este activo o no" - the count is
\* printed every second whether the chronometer is active or not.  It is asked
\* here only of a chronometer that is finally left alone, so that nothing but
\* a timer that was stopped can keep it from printing.
PrintsEverySecond == <>[]LeftAlone => []<><<HandleCount>>_vars

=============================================================================
