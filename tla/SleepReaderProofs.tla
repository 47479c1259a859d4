-------------------------- MODULE SleepReaderProofs --------------------------
(***************************************************************************)
(* The duty cycle for any limits: its types, with the number of reads of a *)
(* cycle, and the sleep that every wake-up reports.                        *)
(***************************************************************************)
EXTENDS SleepReader, TLAPS

USE ReadCountAssumption, TimeAssumption, PowerAssumption, ResetsAssumption

-----------------------------------------------------------------------------
(* What the actions keep between them.                                     *)

\* Nothing but a chip on its way to sleep is marked so: Boot clears the mark.
AwakeInv == cpu # "asleep" => ~sleep_mode_active

\* A transfer is begun only while reads are missing.
ReadingInv == callback # "none" => read_count <= MAX_READ_COUNT

\* Where the duration of the last sleep is, on its way to the report.
SleepInv ==
  /\ cpu = "asleep" => sinceEnter = 0
  /\ cpu \in {"configurePower", "reportSleep"} /\ wakeupCause = "timer"
       => sinceEnter = TIMER_WAKE_UP_SLEEP_MODE
  /\ cpu \in {"configDriver", "startTimer", "running"} /\ wakeupCause = "timer"
       => sleep_time = TIMER_WAKE_UP_SLEEP_MODE

CycleInv == TypeOK /\ AwakeInv /\ ReadingInv /\ SleepInv

LEMMA InitialCycle == Init => CycleInv
<1>. SUFFICES ASSUME Init PROVE CycleInv
  OBVIOUS
<1>1. TypeOK
  <2>1. /\ sinceEnter \in 0 .. MaxSince /\ sleep_time \in 0 .. MaxSince
        /\ read_count \in 0 .. MAX_READ_COUNT + 1 /\ resets \in 0 .. MaxResets
    BY DEF Init
  <2>. QED
    BY <2>1 DEF Init, TypeOK
<1>2. AwakeInv /\ ReadingInv
  BY DEF Init, AwakeInv, ReadingInv
<1>3. SleepInv
  BY DEF Init, SleepInv
<1>. QED
  BY <1>1, <1>2, <1>3 DEF CycleInv

\* A reset leaves nothing of the cycle behind.
LEMMA ResetCycle ==
  ASSUME CycleInv, ResetChip, resets' \in 0 .. MaxResets
  PROVE  CycleInv'
<1>1. TypeOK'
  <2>1. sleep_time' \in 0 .. MaxSince /\ read_count' \in 0 .. MAX_READ_COUNT + 1
    BY DEF ResetChip, Boot
  <2>. QED
    BY <2>1 DEF ResetChip, Boot, TypeOK
<1>2. AwakeInv' /\ ReadingInv'
  BY DEF ResetChip, Boot, AwakeInv, ReadingInv
<1>3. SleepInv'
  BY DEF ResetChip, Boot, SleepInv
<1>. QED
  BY <1>1, <1>2, <1>3 DEF CycleInv

LEMMA AppMainCycle == CycleInv /\ AppMain => CycleInv'
<1>. SUFFICES ASSUME CycleInv, AppMain PROVE CycleInv'
  OBVIOUS
<1>. USE DEF CycleInv, TypeOK, AwakeInv, ReadingInv, SleepInv
<1>1. CASE ConfigurePower
  <2>1. CASE PM_ENABLE
    BY <1>1, <2>1 DEF ConfigurePower, bootVars, countVars
  <2>2. CASE ~PM_ENABLE
    BY <1>1, <2>2, ResetCycle DEF ConfigurePower
  <2>. QED
    BY <2>1, <2>2
<1>2. CASE ReportSleep
  BY <1>2 DEF ReportSleep, countVars
<1>3. CASE ConfigDriver
  BY <1>3 DEF ConfigDriver, bootVars, countVars
<1>4. CASE DriverFails
  BY <1>4, ResetCycle DEF DriverFails
<1>5. CASE StartTimer
  BY <1>5 DEF StartTimer, countVars
<1>. QED
  BY <1>1, <1>2, <1>3, <1>4, <1>5 DEF AppMain

\* The only step that counts starts below the limit.
LEMMA CountReadTypes ==
  ASSUME CycleInv, CountRead, callback # "none"
  PROVE  /\ read_count' \in 0 .. MAX_READ_COUNT + 1
         /\ callback' = "none"
         /\ sleep_mode_active' = sleep_mode_active
BY DEF CountRead, CycleInv, TypeOK, ReadingInv

LEMMA CallbackCycle == CycleInv /\ Callback => CycleInv'
<1>. SUFFICES ASSUME CycleInv, Callback PROVE CycleInv'
  OBVIOUS
<1>1. CASE CallbackSleeps
  BY <1>1 DEF CallbackSleeps, start_deep_mode, bootVars, CycleInv, TypeOK,
              AwakeInv, ReadingInv, SleepInv
<1>2. CASE CallbackReads
  <2>1. read_count <= MAX_READ_COUNT
    BY <1>2 DEF CallbackReads, EnoughReads, CycleInv, TypeOK, AwakeInv
  <2>. QED
    BY <1>2, <2>1 DEF CallbackReads, bootVars, countVars, CycleInv, TypeOK,
                      AwakeInv, ReadingInv, SleepInv
<1>3. CASE SendCommand
  <2>1. CASE CountRead
    <3>1. /\ read_count' \in 0 .. MAX_READ_COUNT + 1
          /\ callback' = "none"
          /\ sleep_mode_active' = sleep_mode_active
      BY <1>3, <2>1, CountReadTypes DEF SendCommand
    <3>. QED
      BY <1>3, <3>1 DEF SendCommand, bootVars, CycleInv, TypeOK, AwakeInv,
                        ReadingInv, SleepInv
  <2>2. CASE callback' = "data" /\ UNCHANGED countVars
    BY <1>3, <2>2 DEF SendCommand, bootVars, countVars, CycleInv, TypeOK,
                      AwakeInv, ReadingInv, SleepInv
  <2>. QED
    BY <1>3, <2>1, <2>2 DEF SendCommand
<1>4. CASE ReadData
  <2>1. /\ read_count' \in 0 .. MAX_READ_COUNT + 1
        /\ callback' = "none"
        /\ sleep_mode_active' = sleep_mode_active
    BY <1>4, CountReadTypes DEF ReadData
  <2>. QED
    BY <1>4, <2>1 DEF ReadData, bootVars, CycleInv, TypeOK, AwakeInv,
                      ReadingInv, SleepInv
<1>. QED
  BY <1>1, <1>2, <1>3, <1>4 DEF Callback

\* The sleep began with the time stored, so the time since then is its length.
LEMMA WakeUpCycle == CycleInv /\ WakeUp => CycleInv'
<1>. SUFFICES ASSUME CycleInv, WakeUp PROVE CycleInv'
  OBVIOUS
<1>1. sinceEnter' = TIMER_WAKE_UP_SLEEP_MODE
  BY DEF WakeUp, CycleInv, SleepInv
<1>2. TypeOK'
  <2>1. /\ sinceEnter' \in 0 .. MaxSince /\ sleep_time' \in 0 .. MaxSince
        /\ read_count' \in 0 .. MAX_READ_COUNT + 1
    BY <1>1 DEF WakeUp, Boot
  <2>. QED
    BY <2>1 DEF WakeUp, Boot, CycleInv, TypeOK
<1>3. AwakeInv' /\ ReadingInv'
  BY DEF WakeUp, Boot, AwakeInv, ReadingInv
<1>4. SleepInv'
  BY <1>1 DEF WakeUp, Boot, SleepInv
<1>. QED
  BY <1>2, <1>3, <1>4 DEF CycleInv

LEMMA StepCycle == CycleInv /\ [Next]_vars => CycleInv'
<1>. SUFFICES ASSUME CycleInv, [Next]_vars PROVE CycleInv'
  OBVIOUS
<1>1. CASE Tick
  BY <1>1 DEF Tick, bootVars, countVars, CycleInv, TypeOK, AwakeInv,
              ReadingInv, SleepInv
<1>2. CASE PressReset
  BY <1>2, ResetCycle DEF PressReset, CycleInv, TypeOK
<1>3. CASE UNCHANGED vars
  BY <1>3 DEF vars, bootVars, countVars, CycleInv, TypeOK, AwakeInv,
              ReadingInv, SleepInv
<1>. QED
  BY <1>1, <1>2, <1>3, AppMainCycle, CallbackCycle, WakeUpCycle DEF Next

LEMMA CycleIsKept == Spec => []CycleInv
BY InitialCycle, StepCycle, PTL DEF Spec

-----------------------------------------------------------------------------

\* Types, and at most MAX_READ_COUNT + 1 attempts in a cycle: every boot clears
\* sleep_mode_active, so the limit stops the reads of every cycle.
THEOREM TypeCorrect == Spec => []TypeOK
<1>1. CycleInv => TypeOK
  BY DEF CycleInv
<1>. QED
  BY <1>1, CycleIsKept, PTL

\* Every wake-up by the timer reports the sleep it ended, never a time that
\* includes reads, resets or earlier sleeps.
THEOREM EverySleepIsReported == Spec => []SleepIsReported
<1>1. CycleInv => SleepIsReported
  BY DEF CycleInv, SleepInv, SleepIsReported
<1>. QED
  BY <1>1, CycleIsKept, PTL

=============================================================================
