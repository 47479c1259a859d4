-------------------------- MODULE PipelineEndless --------------------------
(***************************************************************************)
(* The pipeline of p2/src/main.c with sensors that sample for ever, as     *)
(* they do: under this load one chain could be starved by another.         *)
(*                                                                         *)
(* No step of the pipeline looks at a sample, so that one marked sample    *)
(* among countless others, of any sensor and at any time, stands for each  *)
(* of them.                                                                *)
(***************************************************************************)
EXTENDS Pipeline

Earlier == 1
Marked == 2
Later == 3

ASSUME MarksAssumption == Later <= MaxSamples

NoneMarked == \A i \in Sensors : sampled[i] < Marked

\* SensorSample, with names for the samples in the place of numbers.
EndlessSample(i) ==
  /\ sensorPc[i] = "sampling"
  /\ \E name \in {Earlier, Marked, Later} :
       /\ name = Marked => NoneMarked
       /\ name = Later <=> sampled[i] >= Marked
       /\ sampled' = [sampled EXCEPT ![i] = name]
  /\ sensorPc' = [sensorPc EXCEPT ![i] = "sending"]
  /\ UNCHANGED <<bootVars, sensorItems, filterVars, filterItems, setVars,
                 controllerVars>>

EndlessSensorTask(i) == EndlessSample(i) \/ SensorSend(i) \/ SensorDrop(i)

EndlessNext ==
  \/ AppMain
  \/ ControllerTask
  \/ \E i \in Sensors : EndlessSensorTask(i) \/ FilterTask(i)

\* Every task blocks once per loop, in vTaskDelay or on a queue, so those of
\* lower priority get a core, and a blocked call returns: by success, or by
\* its time-out.
Fairness ==
  /\ WF_vars(AppMain)
  /\ WF_vars(ControllerTask)
  /\ \A i \in Sensors : WF_vars(EndlessSensorTask(i)) /\ WF_vars(FilterTask(i))

EndlessSpec == Init /\ [][EndlessNext]_vars /\ Fairness

-----------------------------------------------------------------------------

\* Every mean that reaches a filter queue is shown by the controller, however
\* busy the other sensors are: they may fill their own queues again and again
\* before the controller has taken it.
PublishedIsShown ==
  \A i \in Sensors :
    (\E k \in 1 .. Len(filterItems[i]) : filterItems[i][k] = Marked)
      ~> (lastShown = [sensor |-> i, sample |-> Marked])

\* Every sample that reaches a sensor queue is taken by the filter, even while
\* the filter queue is full: a blocked filter gives up after WRITE_DELAY.
QueuedIsFiltered ==
  \A i \in Sensors :
    (\E k \in 1 .. Len(sensorItems[i]) : sensorItems[i][k] = Marked)
      ~> (ByAge(filterCount[i])[0] = Marked)

=============================================================================
