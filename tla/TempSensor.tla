----------------------------- MODULE TempSensor -----------------------------
(***************************************************************************)
(* The temperature reader of p4/src/main.c: one task that asks a Si7021    *)
(* sensor over I2C for a measurement, fetches its two bytes, prints the    *)
(* temperature and waits.  The bytes are local variables that nothing      *)
(* initialises, and a transfer that fails may leave them so.               *)
(***************************************************************************)
EXTENDS Integers

CONSTANTS
  Codes,          \* 16-bit temperature codes the sensor may measure
  Garbage,        \* what the stack may hold in the place of a byte
  Settings,       \* values of CONFIG_MILLIS_TO_PRINT
  Durations,      \* ticks that an I2C transfer may take
  WordSize        \* values of an unsigned word (2^32 on the ESP32)

MaxByte == 255
MaxWord == 65535
portTICK_RATE_MS == 10     \* CONFIG_FREERTOS_HZ is 100
TransferLimit == 1000 \div portTICK_RATE_MS
MeasuringDelay == 30 \div portTICK_RATE_MS
ACK_VAL == 1

\* uint8_t and uint16_t.
Bytes == 0 .. MaxByte
Words == 0 .. MaxWord

ASSUME CodesAssumption ==
         Codes \subseteq Words /\ Codes # {} /\ Garbage \subseteq Bytes
ASSUME SettingsAssumption ==
         /\ WordSize \in Nat \ {0} /\ Settings # {}
         /\ Settings \subseteq {millis \in Nat : millis < WordSize}
ASSUME DurationsAssumption == Durations \subseteq 0 .. TransferLimit

Results == {"ESP_OK", "ESP_ERR_TIMEOUT", "ESP_FAIL"}

VARIABLES
  boot,             \* the next call of app_main
  millis,           \* CONFIG_MILLIS_TO_PRINT
  semaphore_print,  \* "NULL", "free" or "taken"
  taskPc,           \* sensor_temp_task
  measured,         \* the code that the sensor holds
  data_temp,        \* data_temp_1 and data_temp_2
  traced,           \* "byte 1" and "byte 2" as last printed before a transfer
  ret,              \* the result of the last transfer
  printed,          \* temp, and temp_celsius in hundredths, as last printed
  elapsed,          \* history: ticks since the last turn was reported
  reported          \* history: a turn was reported in this run

sensorVars == <<measured, data_temp, traced, ret>>
reportVars == <<printed, reported>>
vars == <<boot, millis, semaphore_print, taskPc, sensorVars, elapsed, reportVars>>

Init ==
  /\ boot = "configDriver"
  /\ millis \in Settings
  /\ semaphore_print = "NULL"
  /\ taskPc = "absent"
  /\ measured \in Codes
  /\ data_temp = <<0, 0>> /\ traced = <<0, 0>>
  /\ ret = "ESP_OK"
  /\ printed = [temp |-> 0, celsius |-> 0]
  /\ elapsed = 0 /\ reported = FALSE

\* ESP_ERROR_CHECK and the assertion in xSemaphoreTake abort and boot again.
Restart ==
  /\ boot' = "configDriver"
  /\ semaphore_print' = "NULL"
  /\ taskPc' = "absent"
  /\ data_temp' = <<0, 0>> /\ traced' = <<0, 0>> /\ ret' = "ESP_OK"
  /\ printed' = [temp |-> 0, celsius |-> 0]
  /\ elapsed' = 0 /\ reported' = FALSE
  /\ UNCHANGED <<millis, measured>>

-----------------------------------------------------------------------------
(* app_main.                                                               *)

ConfigDriver ==
  /\ boot = "configDriver"
  /\ \/ /\ boot' = "createSemaphore"
        /\ UNCHANGED <<millis, semaphore_print, taskPc, sensorVars, elapsed,
                       reportVars>>
     \/ Restart

\* The result is not looked at.
CreateSemaphore ==
  /\ boot = "createSemaphore"
  /\ boot' = "startTask"
  /\ semaphore_print' \in {"free", "NULL"}
  /\ UNCHANGED <<millis, taskPc, sensorVars, elapsed, reportVars>>

StartTask ==
  /\ boot = "startTask"
  /\ boot' = "done"
  /\ taskPc' = "turn"
  /\ UNCHANGED <<millis, semaphore_print, sensorVars, elapsed, reportVars>>

AppMain == ConfigDriver \/ CreateSemaphore \/ StartTask

-----------------------------------------------------------------------------
(* sensor_temp_task.                                                       *)

\* Two local variables come into being.
BeginTurn ==
  /\ taskPc = "turn"
  /\ taskPc' = "command"
  /\ data_temp' \in Garbage \X Garbage
  /\ UNCHANGED <<boot, millis, semaphore_print, measured, traced, ret, elapsed,
                 reportVars>>

Transfer(duration, result) ==
  /\ elapsed' = elapsed + duration
  /\ ret' = result
  /\ UNCHANGED <<boot, millis, semaphore_print, reportVars>>

\* Fault: a command that fails is repeated without a report.
AfterFailure_again == "turn"

AfterFailure == "take"

\* The sensor measures what it is asked for.  After a failure
\* read_i2c_master_sensor returns, the bytes being as they were.
SendCommand ==
  /\ taskPc = "command"
  /\ \E spent \in Durations, result \in Results :
       IF result = "ESP_OK"
         THEN /\ taskPc' = "data"
              /\ measured' \in Codes
              /\ Transfer(spent + MeasuringDelay, result)
         ELSE /\ taskPc' = AfterFailure
              /\ UNCHANGED measured
              /\ Transfer(spent, result)
  /\ UNCHANGED <<data_temp, traced>>

\* Fault: the low byte first, as in the line that is commented out.
BytesOf_low(code) == <<code % 256, code \div 256>>

\* The sensor sends the high byte first.
BytesOf(code) == <<code \div 256, code % 256>>

\* The level that acknowledges a byte on the bus is 0.  A sender that is not
\* acknowledged lets go of the line, which then reads as ones.
Received(code) == [BytesOf(code) EXCEPT ![2] = IF ACK_VAL = 0 THEN @ ELSE MaxByte]

\* The bytes are printed while the command is put together, that is before the
\* transfer fills them.  One that fails has filled none, or the first, or both.
ReadData ==
  /\ taskPc = "data"
  /\ taskPc' = "take"
  /\ traced' = data_temp
  /\ \E spent \in Durations, result \in Results :
       /\ Transfer(spent, result)
       /\ data_temp' \in
            IF result = "ESP_OK" THEN {Received(measured)}
            ELSE {data_temp, Received(measured),
                  <<Received(measured)[1], data_temp[2]>>}
  /\ UNCHANGED measured

TakeSemaphore ==
  /\ taskPc = "take"
  /\ \/ /\ semaphore_print = "NULL"
        /\ Restart
     \/ /\ semaphore_print = "free"
        /\ semaphore_print' = "taken"
        /\ taskPc' = "report"
        /\ UNCHANGED <<boot, millis, sensorVars, elapsed, reportVars>>

convertToCelsius(temp) == (17572 * temp) \div 65536 - 4685

\* Fault: what read_i2c_master_sensor returns is only compared with a time-out.
Succeeded_unlessTimeout == ret # "ESP_ERR_TIMEOUT"

Succeeded == ret = "ESP_OK"

\* The three branches of the turn, which print a temperature or an error.
Report ==
  /\ taskPc = "report"
  /\ taskPc' = "delay"
  /\ semaphore_print' = "free"
  /\ LET temp == data_temp[1] * 256 + data_temp[2]
     IN  printed' = IF Succeeded
                      THEN [temp |-> temp, celsius |-> convertToCelsius(temp)]
                      ELSE printed
  /\ elapsed' = 0 /\ reported' = TRUE
  /\ UNCHANGED <<boot, millis, sensorVars>>

\* Fault: the second for the transfers is not taken off.
DelayTicks_whole == millis \div portTICK_RATE_MS

\* Fault: the arithmetic is that of signed words.
DelayTicks_signed == (millis - 1000) \div portTICK_RATE_MS

\* portTICK_RATE_MS is an unsigned word, and so is the dividend.
DelayTicks == ((millis - 1000) % WordSize) \div portTICK_RATE_MS

Delay ==
  /\ taskPc = "delay"
  /\ taskPc' = "turn"
  /\ elapsed' = elapsed + DelayTicks
  /\ UNCHANGED <<boot, millis, semaphore_print, sensorVars, reportVars>>

SensorTempTask == BeginTurn \/ SendCommand \/ ReadData \/ TakeSemaphore
                    \/ Report \/ Delay

-----------------------------------------------------------------------------

Next == AppMain \/ SensorTempTask

Spec == Init /\ [][Next]_vars

FairSpec == Spec /\ WF_vars(AppMain) /\ WF_vars(SensorTempTask)

-----------------------------------------------------------------------------
(* Properties.                                                             *)

Coldest == -4685
Hottest == 12886

\* Bytes are bytes, and what is printed is an unsigned 16-bit number and the
\* temperature that belongs to it, from -46.85 degrees to 128.87.
TypeOK ==
  /\ boot \in {"configDriver", "createSemaphore", "startTask", "done"}
  /\ millis \in Settings
  /\ semaphore_print \in {"NULL", "free", "taken"}
  /\ taskPc \in {"absent", "turn", "command", "data", "take", "report", "delay"}
  /\ measured \in Codes
  /\ data_temp \in Bytes \X Bytes
  /\ traced \in Bytes \X Bytes
  /\ ret \in Results
  /\ printed \in [temp : Words, celsius : Coldest .. Hottest]
  /\ elapsed \in 0 .. WordSize \div portTICK_RATE_MS + 2 * TransferLimit
                        + MeasuringDelay
  /\ reported \in BOOLEAN

\* A temperature is reported only if it was measured for this very turn, never
\* from bytes that are rubbish or those of another turn, and it is less than
\* 0.69 degrees above what was measured: the high byte is right, the low byte,
\* which the sensor was not let send, is all ones.  This is about lines 80 to 90;
\* the bytes that read_i2c_master_sensor prints itself, traced, are rubbish.
PrintsNearMeasured ==
  [][Report /\ Succeeded =>
       LET above == 65536 * (printed'.celsius - Coldest) - 17572 * measured
       IN  /\ printed'.temp - measured \in Bytes
           /\ -65536 < above /\ above <= 17572 * MaxByte]_vars

\* The second that is taken off makes up for one of two transfers that time out:
\* with a setting of a second or more no report is later than the setting by
\* more than the other and the measuring.  How early it may be is not limited
\* here, see PrintsEachPeriod.
LatenessIsBounded ==
  [][Report /\ reported /\ millis >= 1000 =>
       elapsed <= millis \div portTICK_RATE_MS + TransferLimit + MeasuringDelay]_vars

\* "Print temperature sensor value each X millis": from one report to the next
\* it takes the setting, and at most the time of the transfers on top.
PrintsEachPeriod ==
  [][Report /\ reported =>
       LET ticks == millis \div portTICK_RATE_MS
       IN  elapsed \in ticks .. ticks + 2 * TransferLimit + MeasuringDelay]_vars

\* Whatever the transfers return, the task reports again and again, unless the
\* program boots again and again.
ReportsGoOn == []<>(taskPc = "report") \/ []<>(boot # "done")

=============================================================================
