------------------------ MODULE ChronometerInfrared ------------------------
(***************************************************************************)
(* p3-cont/src/main.c built with CONFIG_IS_INFRARED_ACTIVE: the            *)
(* chronometer of p3 whose Reset comes from the infrared distance sensor.  *)
(* Everything but the sampled sensor is the code of p3.                    *)
(***************************************************************************)
EXTENDS Chronometer

CONSTANT RawReadings      \* values adc1_get_raw can return, in 0 .. 4095

SENSOR_INFRARED_THRESHOLD == 10

\* FUNCTION_CMS_VAR_A * pow(raw, FUNCTION_CMS_VAR_B), that is 12.3 * raw^1.1,
\* without the factor raw^0.1 and the fraction.  The result is compared with
\* the threshold only, and what is left out lies above it for every raw # 0.
raw_to_cms(raw) == (123 * raw) \div 10

\* The falling curve of such a sensor, 12.3 / volts with raw in 1/4095 of 3.3 V.
\* Used in place of raw_to_cms it makes NearObjectResets true.
raw_to_cms_inverse(raw) ==
  IF raw = 0 THEN 4095 ELSE (123 * 4095) \div (33 * raw)

sensor_infrared_timer_callback ==
  /\ dispatching = "sensor"
  /\ \E valueRaw \in RawReadings :
       IF raw_to_cms(valueRaw) <= SENSOR_INFRARED_THRESHOLD
         THEN send_machine_state("RESET_TIMER") ELSE UNCHANGED queueOut
  /\ dispatching' = "none"
  /\ UNCHANGED <<boot, handlerVars, touchVars, sensorArmed, chronoVars>>

InfraredTimerTask == \/ ChronoExpires \/ chronometer_timer_callback
                     \/ SensorExpires \/ sensor_infrared_timer_callback

InfraredNext == AppMain \/ TouchPad \/ InfraredTimerTask \/ Handler

InfraredSpec == Init /\ [][InfraredNext]_vars

-----------------------------------------------------------------------------

\* "Si se elige el sensor de infrarrojos, se considerara que se acciona el Reset
\* si se detecta un objeto a menos de 10cm de distancia": with an object within
\* 10 cm all the time, every reading being RawReadings, each sample that finds
\* room in the queue sends a Reset.
NearObjectResets ==
  [][sensor_infrared_timer_callback /\ Len(queueOut) < QUEUE_LENGTH
       => queueOut' = Append(queueOut, "RESET_TIMER")]_vars

=============================================================================
