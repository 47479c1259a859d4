-------------------------- MODULE TempSensorProofs --------------------------
(***************************************************************************)
(* The temperature reader for any codes of the sensor, any rubbish on the  *)
(* stack, any settings and any duration of the transfers within their      *)
(* time-out: a temperature that is reported was measured in the same turn, *)
(* and how late a report may be.                                           *)
(***************************************************************************)
EXTENDS TempSensor, TLAPS

-----------------------------------------------------------------------------
(* Arithmetic.  The bounds of the types stay names, and are compared with  *)
(* numbers by the lemma that follows: an interval between two numbers is a *)
(* disjunction of all of them to the provers.                              *)

LEMMA Bounds ==
  /\ MaxByte \in Int /\ MaxByte = 255
  /\ MaxWord \in Int /\ MaxWord = 65535
  /\ Coldest \in Int /\ Coldest = -4685
  /\ Hottest \in Int /\ Hottest = 12886
  /\ MeasuringDelay = 3 /\ TransferLimit = 100
BY DEF MaxByte, MaxWord, Coldest, Hottest, MeasuringDelay, TransferLimit,
   portTICK_RATE_MS

\* The bytes that arrive are bytes; the first is right, the second all ones,
\* so the number made of them is the code or at most 255 above it.
LEMMA ReceivedBytes ==
  ASSUME NEW code \in Words
  PROVE  /\ Received(code) \in Bytes \X Bytes
         /\ Received(code)[1] * 256 + Received(code)[2] \in Words
         /\ Received(code)[1] * 256 + Received(code)[2] - code \in Bytes
<1>. DEFINE high == code \div 256
            low == code % 256
<1>1. code \in Int /\ 0 <= code /\ code <= 65535
  BY Bounds DEF Words
<1>2. /\ high \in Int /\ 0 <= high /\ high <= 255
      /\ 256 * high <= code /\ code <= 256 * high + 255 /\ low \in Int
  BY <1>1, SMT
<1>3. BytesOf(code) = <<high, low>>
  BY DEF BytesOf
<1>. HIDE DEF high, low
<1>4. Received(code) = [<<high, low>> EXCEPT ![2] = MaxByte]
  BY <1>3 DEF Received, ACK_VAL
<1>5. [<<high, low>> EXCEPT ![2] = MaxByte] = <<high, MaxByte>>
  BY <1>2, Bounds
<1>6. Received(code) = <<high, MaxByte>>
  BY <1>4, <1>5, Zenon
<1>7. high \in Bytes /\ MaxByte \in Bytes
  BY <1>2, Bounds DEF Bytes
<1>8. /\ high * 256 + MaxByte \in Words
      /\ high * 256 + MaxByte - code \in Bytes
  <2>. DEFINE number == high * 256 + MaxByte
  <2>1. /\ number \in Int /\ 0 <= number /\ number <= MaxWord
        /\ number - code \in Int /\ 0 <= number - code
        /\ number - code <= MaxByte
    BY <1>1, <1>2, Bounds
  <2>. DEFINE above == number - code
  <2>. HIDE DEF number
  <2>2. above \in Int /\ 0 <= above /\ above <= MaxByte
    BY <2>1
  <2>3. MaxByte \in Int /\ MaxWord \in Int
    BY Bounds
  <2>. HIDE DEF above
  <2>4. number \in Words /\ above \in Bytes
    BY <2>1, <2>2, <2>3 DEF Words, Bytes
  <2>5. number \in Words
    BY <2>4
  <2>6. number - code \in Bytes
    BY <2>4 DEF above
  <2>. QED
    BY <1>1, <1>2, <2>3, <2>5, <2>6 DEF number
<1>. QED
  BY <1>6, <1>7, <1>8

\* The temperature of a code is in range, and its division loses less than a
\* hundredth.
LEMMA CelsiusBounds ==
  ASSUME NEW temp \in Words
  PROVE  /\ convertToCelsius(temp) \in Coldest .. Hottest
         /\ 65536 * (convertToCelsius(temp) - Coldest) <= 17572 * temp
         /\ 65536 * (convertToCelsius(temp) - Coldest) > 17572 * temp - 65536
<1>. DEFINE q == (17572 * temp) \div 65536
<1>1. temp \in Int /\ 0 <= temp /\ temp <= 65535
  BY Bounds DEF Words
<1>2. q \in Int /\ 65536 * q <= 17572 * temp /\ 17572 * temp < 65536 * q + 65536
  BY <1>1, SMT
<1>3. convertToCelsius(temp) = q - 4685
  BY DEF convertToCelsius
<1>. HIDE DEF q
<1>4. 0 <= q /\ q <= 17571
  BY <1>1, <1>2
<1>. QED
  BY <1>1, <1>2, <1>3, <1>4, Bounds

\* The wait between two turns: the setting less a second, if it is that much.
LEMMA DelayBounds ==
  ASSUME millis \in Settings
  PROVE  /\ DelayTicks \in 0 .. WordSize \div portTICK_RATE_MS
         /\ millis >= 1000 =>
              DelayTicks = millis \div portTICK_RATE_MS - TransferLimit
<1>. DEFINE dividend == (millis - 1000) % WordSize
<1>1. millis \in Nat /\ millis < WordSize /\ WordSize \in Nat \ {0}
  BY SettingsAssumption
<1>2. dividend \in 0 .. WordSize - 1
  BY <1>1
<1>3. millis >= 1000 => dividend = millis - 1000
  BY <1>1
<1>4. DelayTicks = dividend \div 10
  BY DEF DelayTicks, portTICK_RATE_MS
<1>. HIDE DEF dividend
<1>. QED
  BY <1>1, <1>2, <1>3, <1>4, Bounds DEF portTICK_RATE_MS

-----------------------------------------------------------------------------
(* What the turn keeps.                                                    *)

\* On the way to a report that prints, the bytes are those that the sensor sent
\* for the measurement of this turn.
BytesInv ==
  taskPc \in {"take", "report"} /\ ret = "ESP_OK" =>
    data_temp = Received(measured)

\* The ticks a turn begins with.
Waited == IF reported THEN DelayTicks ELSE 0

\* How long it is since the last report, at each step of the turn.
ElapsedInv ==
  /\ taskPc \in {"absent", "turn", "command"} => elapsed = Waited
  /\ taskPc = "data" =>
       elapsed \in Waited + MeasuringDelay
                     .. Waited + MeasuringDelay + TransferLimit
  /\ taskPc \in {"take", "report"} =>
       elapsed \in Waited .. Waited + MeasuringDelay + 2 * TransferLimit
  /\ taskPc = "delay" => elapsed = 0 /\ reported

\* The types but for the time, which follows from ElapsedInv.
Types ==
  /\ boot \in {"configDriver", "createSemaphore", "startTask", "done"}
  /\ millis \in Settings
  /\ semaphore_print \in {"NULL", "free", "taken"}
  /\ taskPc \in {"absent", "turn", "command", "data", "take", "report", "delay"}
  /\ measured \in Codes
  /\ data_temp \in Bytes \X Bytes
  /\ traced \in Bytes \X Bytes
  /\ ret \in Results
  /\ printed \in [temp : Words, celsius : Coldest .. Hottest]
  /\ reported \in BOOLEAN

\* The task is created last.
StartInv == boot # "done" => taskPc = "absent"

TurnInv == Types /\ StartInv /\ BytesInv /\ ElapsedInv

LEMMA TurnTypes == TurnInv => TypeOK
<1>. SUFFICES ASSUME TurnInv PROVE TypeOK
  OBVIOUS
<1>1. DelayTicks \in 0 .. WordSize \div portTICK_RATE_MS
  BY DelayBounds DEF TurnInv, Types
<1>2. WordSize \div portTICK_RATE_MS \in Nat
  BY SettingsAssumption DEF portTICK_RATE_MS
<1>3. Waited \in 0 .. WordSize \div portTICK_RATE_MS
  BY <1>1, <1>2 DEF Waited
<1>4. elapsed \in 0 .. WordSize \div portTICK_RATE_MS + 2 * TransferLimit
                         + MeasuringDelay
  BY <1>2, <1>3, Bounds DEF TurnInv, Types, ElapsedInv
<1>. QED
  BY <1>4 DEF TurnInv, Types, TypeOK

\* The beginning, of the first run and of every other.
LEMMA ZeroBytes ==
  /\ <<0, 0>> \in Bytes \X Bytes
  /\ [temp |-> 0, celsius |-> 0] \in [temp : Words, celsius : Coldest .. Hottest]
  /\ "ESP_OK" \in Results
<1>1. 0 \in Bytes /\ 0 \in Words /\ 0 \in Coldest .. Hottest
  BY Bounds DEF Bytes, Words
<1>. QED
  BY <1>1 DEF Results

LEMMA InitialTurn == Init => TurnInv
BY ZeroBytes DEF Init, TurnInv, Types, StartInv, BytesInv, ElapsedInv,
   Waited

LEMMA RestartTurn == TurnInv /\ Restart => TurnInv'
BY ZeroBytes DEF Restart, TurnInv, Types, StartInv, BytesInv, ElapsedInv,
   Waited

LEMMA AppMainTurn == TurnInv /\ AppMain => TurnInv'
<1>. SUFFICES ASSUME TurnInv, AppMain, ~Restart PROVE TurnInv'
  BY RestartTurn
<1>1. /\ taskPc = "absent" /\ taskPc' \in {"absent", "turn"}
      /\ UNCHANGED <<millis, measured, data_temp, traced, ret, elapsed, printed,
                     reported>>
      /\ boot' # "done" => taskPc' = "absent"
  BY DEF AppMain, ConfigDriver, CreateSemaphore, StartTask, sensorVars,
     reportVars, TurnInv, StartInv
<1>2. Types'
  <2>1. /\ boot' \in {"createSemaphore", "startTask", "done"}
        /\ semaphore_print' \in {"NULL", "free", "taken"}
    BY DEF AppMain, ConfigDriver, CreateSemaphore, StartTask, TurnInv, Types
  <2>. QED
    BY <1>1, <2>1 DEF TurnInv, Types
<1>3. (StartInv /\ BytesInv)'
  BY <1>1 DEF StartInv, BytesInv
<1>4. DelayTicks' = DelayTicks
  BY <1>1 DEF DelayTicks
<1>5. ElapsedInv'
  BY <1>1, <1>4 DEF TurnInv, ElapsedInv, Waited
<1>. QED
  BY <1>2, <1>3, <1>5 DEF TurnInv

\* One step per action of the task.
LEMMA TaskTurn == TurnInv /\ SensorTempTask => TurnInv'
<1>. SUFFICES ASSUME TurnInv, SensorTempTask, ~Restart PROVE TurnInv'
  BY RestartTurn
<1>0. Types /\ BytesInv /\ ElapsedInv /\ boot = "done"
  BY DEF TurnInv, StartInv, SensorTempTask, BeginTurn, SendCommand, ReadData,
     TakeSemaphore, Report, Delay
<1>1. UNCHANGED <<boot, millis>> /\ DelayTicks' = DelayTicks
  BY DEF SensorTempTask, BeginTurn, SendCommand, ReadData, TakeSemaphore, Report,
     Delay, Transfer, DelayTicks
<1>2. StartInv'
  BY <1>0, <1>1 DEF StartInv
<1>3. DelayTicks \in Int /\ Waited \in Int /\ Waited >= 0
  <2>1. DelayTicks \in 0 .. WordSize \div portTICK_RATE_MS
    BY <1>0, DelayBounds DEF Types
  <2>2. WordSize \div portTICK_RATE_MS \in Nat
    BY SettingsAssumption DEF portTICK_RATE_MS
  <2>. QED
    BY <2>1, <2>2 DEF Waited
<1>4. /\ \A spent \in Durations : spent \in Int /\ 0 <= spent /\ spent <= 100
      /\ MeasuringDelay = 3 /\ TransferLimit = 100
  BY DurationsAssumption, Bounds
<1>5. Received(measured) \in Bytes \X Bytes
  BY <1>0, ReceivedBytes, CodesAssumption DEF Types
<1>6. CASE BeginTurn
  <2>1. Types'
    BY <1>0, <1>6, CodesAssumption DEF BeginTurn, Types, reportVars
  <2>2. BytesInv'
    BY <1>6 DEF BeginTurn, BytesInv
  <2>3. ElapsedInv'
    BY <1>0, <1>1, <1>6 DEF BeginTurn, ElapsedInv, Waited, reportVars
  <2>. QED
    BY <1>2, <2>1, <2>2, <2>3 DEF TurnInv
<1>7. CASE SendCommand
  <2>. PICK spent \in Durations, result \in Results :
         IF result = "ESP_OK"
           THEN /\ taskPc' = "data" /\ measured' \in Codes
                /\ Transfer(spent + MeasuringDelay, result)
           ELSE /\ taskPc' = "take" /\ UNCHANGED measured
                /\ Transfer(spent, result)
    BY <1>7 DEF SendCommand, AfterFailure
  <2>1. Types'
    BY <1>0, <1>1, <1>7 DEF SendCommand, Types, Transfer, reportVars
  <2>2. BytesInv'
    BY DEF Transfer, BytesInv
  <2>3. ElapsedInv'
    <3>1. elapsed = Waited
      BY <1>0, <1>7 DEF SendCommand, ElapsedInv
    <3>2. Waited' = Waited
      BY <1>1 DEF Waited, Transfer, reportVars
    <3>. QED
      BY <1>3, <1>4, <3>1, <3>2 DEF ElapsedInv, Transfer
  <2>. QED
    BY <1>2, <2>1, <2>2, <2>3 DEF TurnInv
<1>8. CASE ReadData
  <2>. PICK spent \in Durations, result \in Results :
         /\ Transfer(spent, result)
         /\ data_temp' \in
              IF result = "ESP_OK" THEN {Received(measured)}
              ELSE {data_temp, Received(measured),
                    <<Received(measured)[1], data_temp[2]>>}
    BY <1>8 DEF ReadData
  <2>0. UNCHANGED measured /\ traced' = data_temp /\ taskPc = "data" /\ taskPc' = "take"
    BY <1>8 DEF ReadData
  <2>1. Types'
    <3>1. <<Received(measured)[1], data_temp[2]>> \in Bytes \X Bytes
      BY <1>0, <1>5 DEF Types
    <3>2. data_temp' \in Bytes \X Bytes
      BY <1>0, <1>5, <3>1 DEF Types
    <3>. QED
      BY <1>0, <1>1, <2>0, <3>2 DEF Types, Transfer, reportVars
  <2>2. BytesInv'
    <3>1. Received(measured)' = Received(measured)
      BY <2>0 DEF Received, BytesOf
    <3>. QED
      BY <3>1 DEF Transfer, BytesInv
  <2>3. ElapsedInv'
    <3>1. elapsed \in Waited + 3 .. Waited + 103
      BY <1>0, <1>3, <1>4, <2>0 DEF ElapsedInv
    <3>2. Waited' = Waited
      BY <1>1 DEF Waited, Transfer, reportVars
    <3>3. elapsed' \in Waited .. Waited + 203
      BY <1>3, <1>4, <3>1 DEF Transfer
    <3>. QED
      BY <1>3, <1>4, <2>0, <3>2, <3>3 DEF ElapsedInv
  <2>. QED
    BY <1>2, <2>1, <2>2, <2>3 DEF TurnInv
<1>9. CASE TakeSemaphore
  <2>0. /\ UNCHANGED <<boot, millis, sensorVars, elapsed, reportVars>>
        /\ semaphore_print' = "taken"
        /\ taskPc = "take" /\ taskPc' = "report"
    BY <1>9 DEF TakeSemaphore
  <2>1. Types'
    BY <1>0, <2>0 DEF Types, sensorVars, reportVars
  <2>2. BytesInv'
    <3>1. Received(measured)' = Received(measured)
      BY <2>0 DEF Received, BytesOf, sensorVars
    <3>. QED
      BY <1>0, <2>0, <3>1 DEF BytesInv, sensorVars
  <2>3. ElapsedInv'
    BY <1>0, <1>1, <2>0 DEF ElapsedInv, Waited, sensorVars, reportVars
  <2>. QED
    BY <1>2, <2>1, <2>2, <2>3 DEF TurnInv
<1>10. CASE Report
  <2>1. Types'
    <3>. DEFINE temp == data_temp[1] * 256 + data_temp[2]
    <3>1. ret = "ESP_OK" => temp \in Words
      <4>1. measured \in Words
        BY <1>0, CodesAssumption DEF Types
      <4>. QED
        BY <1>0, <1>10, <4>1, ReceivedBytes DEF Report, BytesInv
    <3>2. ret = "ESP_OK" => convertToCelsius(temp) \in Coldest .. Hottest
      BY <3>1, CelsiusBounds
    <3>3. printed' = IF ret = "ESP_OK"
                       THEN [temp |-> temp, celsius |-> convertToCelsius(temp)]
                       ELSE printed
      BY <1>10 DEF Report, Succeeded
    <3>. HIDE DEF temp
    <3>4. printed' \in [temp : Words, celsius : Coldest .. Hottest]
      BY <1>0, <3>1, <3>2, <3>3 DEF Types
    <3>. QED
      BY <1>0, <1>10, <3>4 DEF Report, Types, sensorVars
  <2>2. BytesInv' /\ ElapsedInv'
    BY <1>10 DEF Report, BytesInv, ElapsedInv
  <2>. QED
    BY <1>2, <2>1, <2>2 DEF TurnInv
<1>11. CASE Delay
  <2>1. Types'
    BY <1>0, <1>11 DEF Delay, Types, sensorVars, reportVars
  <2>2. BytesInv'
    BY <1>11 DEF Delay, BytesInv
  <2>3. ElapsedInv'
    BY <1>0, <1>1, <1>3, <1>11 DEF Delay, ElapsedInv, Waited, reportVars
  <2>. QED
    BY <1>2, <2>1, <2>2, <2>3 DEF TurnInv
<1>. QED
  BY <1>6, <1>7, <1>8, <1>9, <1>10, <1>11 DEF SensorTempTask

LEMMA StepTurn == TurnInv /\ [Next]_vars => TurnInv'
<1>1. TurnInv /\ UNCHANGED vars => TurnInv'
  BY DEF vars, sensorVars, reportVars, TurnInv, Types, StartInv, BytesInv,
     ElapsedInv, Waited, DelayTicks, Received, BytesOf
<1>. QED
  BY <1>1, AppMainTurn, TaskTurn DEF Next

LEMMA TurnIsKept == Spec => []TurnInv
BY InitialTurn, StepTurn, PTL DEF Spec

\* The types, with the bounds of what is printed and of the time of a turn.
THEOREM TypeCorrect == Spec => []TypeOK
BY TurnIsKept, TurnTypes, PTL

\* A temperature is reported only of the bytes of this turn, and is never far
\* above what was measured, whatever was measured, whichever transfer fails and
\* whatever was on the stack.  The bytes that are printed on the way are not
\* meant: they are what was on the stack.
THEOREM ReportIsOfThisTurn == Spec => PrintsNearMeasured
<1>1. ASSUME TurnInv, Report, Succeeded
      PROVE  LET above == 65536 * (printed'.celsius - Coldest) - 17572 * measured
             IN  /\ printed'.temp - measured \in Bytes
                 /\ -65536 < above /\ above <= 17572 * MaxByte
  <2>. DEFINE temp == data_temp[1] * 256 + data_temp[2]
              celsius == convertToCelsius(temp)
  <2>1. ret = "ESP_OK" /\ printed' = [temp |-> temp, celsius |-> celsius]
    BY <1>1 DEF Report, Succeeded
  <2>2. measured \in Words
    BY <1>1, CodesAssumption DEF TurnInv, Types
  <2>3. data_temp = Received(measured)
    BY <1>1, <2>1 DEF Report, TurnInv, BytesInv
  <2>4. temp \in Words /\ temp - measured \in Bytes
    <3>1. /\ Received(measured)[1] * 256 + Received(measured)[2] \in Words
          /\ Received(measured)[1] * 256 + Received(measured)[2] - measured
               \in Bytes
      BY <2>2, ReceivedBytes
    <3>2. /\ data_temp[1] = Received(measured)[1]
          /\ data_temp[2] = Received(measured)[2]
      BY <2>3
    <3>3. data_temp[1] \in Int /\ data_temp[2] \in Int /\ measured \in Int
      <4>1. MaxByte \in Int /\ MaxWord \in Int
        BY Bounds
      <4>. QED
        BY <1>1, <2>2, <4>1 DEF TurnInv, Types, Bytes, Words
    <3>. QED
      BY <3>1, <3>2, <3>3
  <2>. HIDE DEF temp
  <2>5. /\ celsius \in Coldest .. Hottest
        /\ 65536 * (celsius - Coldest) <= 17572 * temp
        /\ 65536 * (celsius - Coldest) > 17572 * temp - 65536
    BY <2>4, CelsiusBounds
  <2>. HIDE DEF celsius
  <2>6. printed'.temp = temp /\ printed'.celsius = celsius
    BY <2>1
  <2>7. celsius \in Int /\ temp \in Int /\ measured \in Int
    <3>1. MaxWord \in Int /\ Coldest \in Int /\ Hottest \in Int
      BY Bounds
    <3>. QED
      BY <2>2, <2>4, <2>5, <3>1 DEF Words
  <2>8. 0 <= temp - measured /\ temp - measured <= MaxByte
    <3>1. MaxByte \in Int
      BY Bounds
    <3>. QED
      BY <2>4, <3>1 DEF Bytes
  <2>9. MaxByte = 255 /\ Coldest = -4685
    BY Bounds
  <2>10. LET above == 65536 * (celsius - Coldest) - 17572 * measured
         IN  -65536 < above /\ above <= 17572 * MaxByte
    BY <2>5, <2>7, <2>8, <2>9
  <2>. QED
    BY <2>4, <2>6, <2>10
<1>2. TurnInv /\ [Next]_vars =>
        [Report /\ Succeeded =>
           LET above == 65536 * (printed'.celsius - Coldest) - 17572 * measured
           IN  /\ printed'.temp - measured \in Bytes
               /\ -65536 < above /\ above <= 17572 * MaxByte]_vars
  BY <1>1
<1>. QED
  BY <1>2, TurnIsKept, PTL DEF Spec, PrintsNearMeasured

\* How late a report may be, for every setting of a second or more and all
\* durations of the transfers within their time-out.
THEOREM LatenessHasABound == Spec => LatenessIsBounded
<1>1. ASSUME TurnInv, Report, reported, millis >= 1000
      PROVE  elapsed <= millis \div portTICK_RATE_MS + TransferLimit
                          + MeasuringDelay
  <2>1. elapsed \in DelayTicks .. DelayTicks + MeasuringDelay + 2 * TransferLimit
    BY <1>1 DEF Report, TurnInv, ElapsedInv, Waited
  <2>2. millis \in Nat /\ millis \div portTICK_RATE_MS \in Nat
    BY <1>1, SettingsAssumption DEF TurnInv, Types, portTICK_RATE_MS
  <2>3. DelayTicks = millis \div portTICK_RATE_MS - TransferLimit
    BY <1>1, DelayBounds DEF TurnInv, Types
  <2>. QED
    BY <2>1, <2>2, <2>3, Bounds
<1>2. TurnInv /\ [Next]_vars =>
        [Report /\ reported /\ millis >= 1000 =>
           elapsed <= millis \div portTICK_RATE_MS + TransferLimit
                        + MeasuringDelay]_vars
  BY <1>1
<1>. QED
  BY <1>2, TurnIsKept, PTL DEF Spec, LatenessIsBounded

=============================================================================
