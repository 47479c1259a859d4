------------------------------ MODULE Pipeline ------------------------------
(***************************************************************************)
(* The whole program of p2/src/main.c: app_main brings up NUMBER_SENSORS   *)
(* chains sensorTask -> queue -> filterTask -> queue, and one              *)
(* controllerTask that waits on all the filter queues through a FreeRTOS   *)
(* queue set.  Tasks run on two cores, so the steps of all of them and of  *)
(* app_main, which is still booting, interleave freely.                    *)
(*                                                                         *)
(* A sample is its number in the sensor's sequence: it stands for the      *)
(* random value and for the timestamp taken with it.  A blocking queue     *)
(* call that may time out is an action for each outcome; how long it       *)
(* waited is left out.                                                     *)
(***************************************************************************)
EXTENDS CircularVector, QueueSet

CONSTANTS
  NUMBER_SENSORS,
  NUM_ELEM_SENSOR_QUEUE,
  NUM_ELEM_FILTER_QUEUE,
  HeapMayFail,            \* whether xQueueCreate may return NULL
  MaxSamples,             \* bound: samples a sensor takes between boots
  NULL

Sensors == 0 .. NUMBER_SENSORS - 1

ASSUME SensorsAssumption == NUMBER_SENSORS \in Nat \ {0}
ASSUME QueuesAssumption == /\ NUM_ELEM_SENSOR_QUEUE \in Nat \ {0}
                           /\ NUM_ELEM_FILTER_QUEUE \in Nat \ {0}
ASSUME HeapAssumption == HeapMayFail \in BOOLEAN
ASSUME MaxSamplesAssumption == MaxSamples \in Nat
ASSUME NullAssumption == NULL \notin Int

VARIABLES
  boot,               \* the next call of app_main
  indexSensor,        \* its loop variable i
  sensorQueues,       \* handles: the queue of a sensor is named by its index
  filterQueues,
  sensorPc,           \* what each sensorTask is about to do
  sampled,            \* samples sensorTask has taken; the last is in sensorData
  sensorItems,        \* contents of the sensor queues
  filterPc,
  filterCount,        \* sensors[i].filterCount
  filterData,         \* sample of the mean filterTask is publishing
  filterItems,        \* contents of the filter queues
  members,            \* filter queues that belong to the queue set
  controllerQueues,   \* contents of the queue set: handles, oldest first
  controllerPc,
  readingQueue,       \* handle the controller selected, or NULL
  lastShown           \* history: what the controller printed last, or NULL

bootVars == <<boot, indexSensor, sensorQueues, filterQueues>>
sensorVars == <<sensorPc, sampled>>
filterVars == <<filterPc, filterCount, filterData>>
setVars == <<members, controllerQueues>>
controllerVars == <<controllerPc, readingQueue, lastShown>>
vars == <<bootVars, sensorVars, sensorItems, filterVars, filterItems, setVars,
          controllerVars>>

-----------------------------------------------------------------------------
\* The board after power on.
Init ==
  /\ boot = "createSet"
  /\ indexSensor = 0
  /\ sensorQueues = [i \in Sensors |-> NULL]
  /\ filterQueues = [i \in Sensors |-> NULL]
  /\ sensorPc = [i \in Sensors |-> "absent"]
  /\ sampled = [i \in Sensors |-> 0]
  /\ sensorItems = [i \in Sensors |-> <<>>]
  /\ filterPc = [i \in Sensors |-> "absent"]
  /\ filterCount = [i \in Sensors |-> EmptyVector]
  /\ filterData = [i \in Sensors |-> 0]
  /\ filterItems = [i \in Sensors |-> <<>>]
  /\ members = {}
  /\ controllerQueues = <<>>
  /\ controllerPc = "absent"
  /\ readingQueue = NULL
  /\ lastShown = NULL

\* A panic restarts the board: the memory of all tasks is lost.
Restart ==
  /\ boot' = "createSet"
  /\ indexSensor' = 0
  /\ sensorQueues' = [i \in Sensors |-> NULL]
  /\ filterQueues' = [i \in Sensors |-> NULL]
  /\ sensorPc' = [i \in Sensors |-> "absent"]
  /\ sampled' = [i \in Sensors |-> 0]
  /\ sensorItems' = [i \in Sensors |-> <<>>]
  /\ filterPc' = [i \in Sensors |-> "absent"]
  /\ filterCount' = [i \in Sensors |-> EmptyVector]
  /\ filterData' = [i \in Sensors |-> 0]
  /\ filterItems' = [i \in Sensors |-> <<>>]
  /\ members' = {}
  /\ controllerQueues' = <<>>
  /\ controllerPc' = "absent"
  /\ readingQueue' = NULL
  /\ lastShown' = NULL

\* Fault: xQueueSendToFront.
xQueueSendToFront(items, item) == <<item>> \o items

\* The kernel's queues.
xQueueSendToBack(items, item) == Append(items, item)

\* Fault: xQueuePeek.
xQueuePeek(items) == items

xQueueReceive(items) == Tail(items)

-----------------------------------------------------------------------------
(* app_main.                                                               *)

\* Fault: room for the messages of one queue only.
SetLengthOneQueue == NUM_ELEM_FILTER_QUEUE

\* xQueueCreateSet's argument: a place for every message of every member.
SetLength == NUM_ELEM_FILTER_QUEUE * NUMBER_SENSORS

\* init() has already emptied the vectors; the set starts empty.
CreateSet ==
  /\ boot = "createSet"
  /\ boot' = "createQueues"
  /\ UNCHANGED <<indexSensor, sensorQueues, filterQueues, sensorVars,
                 sensorItems, filterVars, filterItems, setVars, controllerVars>>

\* The two xQueueCreate; either may find the heap exhausted.
CreateQueues ==
  /\ boot = "createQueues"
  /\ \E failed \in SUBSET {"sensor", "filter"} :
       /\ failed # {} => HeapMayFail
       /\ sensorQueues' = [sensorQueues EXCEPT ![indexSensor] =
                             IF "sensor" \in failed THEN NULL ELSE indexSensor]
       /\ filterQueues' = [filterQueues EXCEPT ![indexSensor] =
                             IF "filter" \in failed THEN NULL ELSE indexSensor]
  /\ boot' = "addToSet"
  /\ UNCHANGED <<indexSensor, sensorVars, sensorItems, filterVars, filterItems,
                 setVars, controllerVars>>

\* The loop goes on with the next sensor, or the controller is created.
NextSensor ==
  IF indexSensor + 1 < NUMBER_SENSORS
    THEN boot' = "createQueues" /\ indexSensor' = indexSensor + 1
    ELSE boot' = "startController" /\ UNCHANGED indexSensor

\* Fault: the queues are not tested for NULL.
QueuesExistAlways(i) == TRUE

QueuesExist(i) == sensorQueues[i] # NULL /\ filterQueues[i] # NULL

\* Fault: a queue that is missing is skipped.
AddPanicsNever == FALSE

\* xQueueAddToSet dereferences the handle.
AddPanics == filterQueues[indexSensor] = NULL

\* Fault: the call is forgotten.
NothingAdded == members

Added == members \union {indexSensor}

\* xQueueAddToSet comes before the test for NULL: without a filter queue the
\* board panics and restarts.
AddToSet ==
  /\ boot = "addToSet"
  /\ \/ AddPanics /\ Restart
     \/ /\ ~AddPanics
        /\ members' = Added
        /\ IF QueuesExist(indexSensor)
             THEN boot' = "startSensor" /\ UNCHANGED indexSensor
             ELSE NextSensor
        /\ UNCHANGED <<sensorQueues, filterQueues, controllerQueues, sensorVars,
                       sensorItems, filterVars, filterItems, controllerVars>>

StartSensor ==
  /\ boot = "startSensor"
  /\ sensorPc' = [sensorPc EXCEPT ![indexSensor] = "sampling"]
  /\ boot' = "startFilter"
  /\ UNCHANGED <<indexSensor, sensorQueues, filterQueues, sampled, sensorItems,
                 filterVars, filterItems, setVars, controllerVars>>

StartFilter ==
  /\ boot = "startFilter"
  /\ filterPc' = [filterPc EXCEPT ![indexSensor] = "receiving"]
  /\ NextSensor
  /\ UNCHANGED <<sensorQueues, filterQueues, sensorVars, sensorItems,
                 filterCount, filterData, filterItems, setVars, controllerVars>>

StartController ==
  /\ boot = "startController"
  /\ controllerPc' = "selecting"
  /\ boot' = "done"
  /\ UNCHANGED <<indexSensor, sensorQueues, filterQueues, sensorVars,
                 sensorItems, filterVars, filterItems, setVars, readingQueue,
                 lastShown>>

AppMain == \/ CreateSet \/ CreateQueues \/ AddToSet
           \/ StartSensor \/ StartFilter \/ StartController

-----------------------------------------------------------------------------
(* sensorTask.  Its vTaskDelay separates a send from the next sample.      *)

SensorSample(i) ==
  /\ sensorPc[i] = "sampling"
  /\ sampled[i] < MaxSamples
  /\ sampled' = [sampled EXCEPT ![i] = @ + 1]
  /\ sensorPc' = [sensorPc EXCEPT ![i] = "sending"]
  /\ UNCHANGED <<bootVars, sensorItems, filterVars, filterItems, setVars,
                 controllerVars>>

\* xQueueSendToBack finds room, at once or within WRITE_DELAY.
SensorSend(i) ==
  /\ sensorPc[i] = "sending"
  /\ Len(sensorItems[i]) < NUM_ELEM_SENSOR_QUEUE
  /\ sensorItems' = [sensorItems EXCEPT ![i] = xQueueSendToBack(@, sampled[i])]
  /\ sensorPc' = [sensorPc EXCEPT ![i] = "sampling"]
  /\ UNCHANGED <<bootVars, sampled, filterVars, filterItems, setVars,
                 controllerVars>>

\* The queue is still full after WRITE_DELAY: the sample is lost.
SensorDrop(i) ==
  /\ sensorPc[i] = "sending"
  /\ Len(sensorItems[i]) = NUM_ELEM_SENSOR_QUEUE
  /\ sensorPc' = [sensorPc EXCEPT ![i] = "sampling"]
  /\ UNCHANGED <<bootVars, sampled, sensorItems, filterVars, filterItems,
                 setVars, controllerVars>>

-----------------------------------------------------------------------------
(* filterTask.  A receive that times out changes nothing.                  *)

\* The sample enters the vector; once the vector was full before it, a mean is
\* computed from the vector and filterData is filled in.
FilterReceive(i) ==
  LET inserted == insertValue(filterCount[i], Head(sensorItems[i]))
  IN  /\ filterPc[i] = "receiving"
      /\ sensorItems[i] # <<>>
      /\ sensorItems' = [sensorItems EXCEPT ![i] = xQueueReceive(@)]
      /\ filterCount' = [filterCount EXCEPT ![i] = CountIn(inserted)]
      /\ IF IsFull(inserted)
           THEN /\ filterData' = [filterData EXCEPT ![i] = Head(sensorItems[i])]
                /\ filterPc' = [filterPc EXCEPT ![i] = "sending"]
           ELSE UNCHANGED <<filterData, filterPc>>
      /\ UNCHANGED <<bootVars, sensorVars, filterItems, setVars, controllerVars>>

\* prvNotifyQueueSetContainer: a member that takes a message posts its own
\* handle to the set, if the set has room.
Notify(queue) ==
  IF queue \in members /\ Len(controllerQueues) < SetLength
    THEN Append(controllerQueues, queue) ELSE controllerQueues

\* The message and the notification are one critical section of the kernel.
FilterSend(i) ==
  /\ filterPc[i] = "sending"
  /\ Len(filterItems[i]) < NUM_ELEM_FILTER_QUEUE
  /\ filterItems' =
       [filterItems EXCEPT ![i] = xQueueSendToBack(@, filterData[i])]
  /\ controllerQueues' = Notify(i)
  /\ filterPc' = [filterPc EXCEPT ![i] = "receiving"]
  /\ UNCHANGED <<bootVars, sensorVars, sensorItems, filterCount, filterData,
                 members, controllerVars>>

\* Fault: the error leaves the loop, and the task ends.
FilterDropEnds(i) ==
  /\ filterPc[i] = "sending"
  /\ Len(filterItems[i]) = NUM_ELEM_FILTER_QUEUE
  /\ filterPc' = [filterPc EXCEPT ![i] = "absent"]
  /\ UNCHANGED <<bootVars, sensorVars, sensorItems, filterCount, filterData,
                 filterItems, setVars, controllerVars>>

\* The queue is still full after WRITE_DELAY: the mean is lost.
FilterDrop(i) ==
  /\ filterPc[i] = "sending"
  /\ Len(filterItems[i]) = NUM_ELEM_FILTER_QUEUE
  /\ filterPc' = [filterPc EXCEPT ![i] = "receiving"]
  /\ UNCHANGED <<bootVars, sensorVars, sensorItems, filterCount, filterData,
                 filterItems, setVars, controllerVars>>

-----------------------------------------------------------------------------
(* controllerTask.                                                         *)

\* Fault: the handle posted last.
ControllerSelect_newest ==
  /\ controllerPc = "selecting"
  /\ controllerQueues # <<>>
  /\ readingQueue' = controllerQueues[Len(controllerQueues)]
  /\ controllerQueues' = SubSeq(controllerQueues, 1, Len(controllerQueues) - 1)
  /\ controllerPc' = "receiving"
  /\ UNCHANGED <<bootVars, sensorVars, sensorItems, filterVars, filterItems,
                 members, lastShown>>

\* xQueueSelectFromSet returns the handle posted first.
ControllerSelect ==
  /\ controllerPc = "selecting"
  /\ controllerQueues # <<>>
  /\ readingQueue' = Head(controllerQueues)
  /\ controllerQueues' = xQueueReceive(controllerQueues)
  /\ controllerPc' = "receiving"
  /\ UNCHANGED <<bootVars, sensorVars, sensorItems, filterVars, filterItems,
                 members, lastShown>>

\* Nothing was posted for READ_DELAY: the handle is NULL, and the loop over the
\* sensors compares it with each filter queue.
ControllerTimeout ==
  /\ controllerPc = "selecting"
  /\ controllerQueues = <<>>
  /\ readingQueue' = NULL
  /\ IF \E i \in Sensors : filterQueues[i] = NULL
       THEN controllerPc' = "receiving" ELSE UNCHANGED controllerPc
  /\ UNCHANGED <<bootVars, sensorVars, sensorItems, filterVars, filterItems,
                 setVars, lastShown>>

\* xQueueReceive on the selected queue and the printing of what it holds.  An
\* empty queue would time out without a result.
ControllerReceive ==
  /\ controllerPc = "receiving"
  /\ readingQueue \in Sensors
  /\ IF filterItems[readingQueue] # <<>>
       THEN /\ lastShown' = [sensor |-> readingQueue,
                             sample |-> Head(filterItems[readingQueue])]
            /\ filterItems' = [filterItems EXCEPT ![readingQueue] = xQueueReceive(@)]
       ELSE UNCHANGED <<lastShown, filterItems>>
  /\ controllerPc' = "selecting"
  /\ UNCHANGED <<bootVars, sensorVars, sensorItems, filterVars, setVars,
                 readingQueue>>

-----------------------------------------------------------------------------

SensorTask(i) == SensorSample(i) \/ SensorSend(i) \/ SensorDrop(i)
FilterTask(i) == FilterReceive(i) \/ FilterSend(i) \/ FilterDrop(i)
ControllerTask == ControllerSelect \/ ControllerTimeout \/ ControllerReceive

Next ==
  \/ AppMain
  \/ ControllerTask
  \/ \E i \in Sensors : SensorTask(i) \/ FilterTask(i)

Spec == Init /\ [][Next]_vars

-----------------------------------------------------------------------------
(* Properties.                                                             *)

Samples == 0 .. MaxSamples

\* Every variable of the program has the values its declaration allows.
TypeOK ==
  /\ boot \in {"createSet", "createQueues", "addToSet", "startSensor",
               "startFilter", "startController", "done"}
  /\ indexSensor \in Sensors
  /\ sensorQueues \in [Sensors -> Sensors \union {NULL}]
  /\ filterQueues \in [Sensors -> Sensors \union {NULL}]
  /\ sensorPc \in [Sensors -> {"absent", "sampling", "sending"}]
  /\ sampled \in [Sensors -> Samples]
  /\ sensorItems \in [Sensors -> Seq(Samples)]
  /\ filterPc \in [Sensors -> {"absent", "receiving", "sending"}]
  /\ filterCount \in
       [Sensors -> [values : [Slots -> Samples], index : Slots,
                    aforo : 0 .. NUM_WEIGHTING_COEFFICIENTS,
                    aforoMax : {NUM_WEIGHTING_COEFFICIENTS}]]
  /\ filterData \in [Sensors -> Samples]
  /\ filterItems \in [Sensors -> Seq(Samples)]
  /\ members \in SUBSET Sensors
  /\ controllerQueues \in Seq(Sensors)
  /\ controllerPc \in {"absent", "selecting", "receiving"}
  /\ readingQueue \in Sensors \union {NULL}
  /\ lastShown \in [sensor : Sensors, sample : Samples] \union {NULL}

\* The handles still to be served: the one the controller holds comes first.
Pending ==
  (IF controllerPc = "receiving" THEN <<readingQueue>> ELSE <<>>)
    \o controllerQueues

\* The queue set never disagrees with the queues: each handle waits in it, or
\* in the controller's hand, once for every message of its queue, so the
\* controller never waits on an empty queue and never forgets a full one.
QueueSetAgrees ==
  \A i \in Sensors : Occurrences(Pending, i) = Len(filterItems[i])

\* The length given to xQueueCreateSet is enough: whenever a filter finds room
\* in its queue there is room for its handle, so no notification is lost.
SetHasRoom ==
  \A i \in Sensors :
    filterPc[i] = "sending" /\ Len(filterItems[i]) < NUM_ELEM_FILTER_QUEUE
      => Len(controllerQueues) < SetLength

\* No task uses a queue that was not created, the test after the two
\* xQueueCreate sees to it ...
TasksHaveQueues ==
  \A i \in Sensors :
    sensorPc[i] # "absent" \/ filterPc[i] # "absent"
      => sensorQueues[i] # NULL /\ filterQueues[i] # NULL

\* ... and the NULL a timeout returns is never taken for a filter queue: a
\* board that misses one never gets as far as the controller.
NullIsNoQueue == controllerPc = "receiving" => readingQueue # NULL

Increasing(samples) ==
  \A j, k \in 1 .. Len(samples) : j < k => samples[j] < samples[k]

\* The samples of one chain that are on their way, nearest to the controller
\* first.
OnTheWay(i) ==
  filterItems[i]
    \o (IF filterPc[i] = "sending" THEN <<filterData[i]>> ELSE <<>>)
    \o sensorItems[i]
    \o (IF sensorPc[i] = "sending" THEN <<sampled[i]>> ELSE <<>>)

\* Time stamps only grow along a chain, from the controller back to the sensor,
\* whatever samples and means were dropped on the way, and what was shown is
\* older than all that is still to come.
SampleOrder ==
  \A i \in Sensors :
    /\ Increasing(OnTheWay(i))
    /\ lastShown # NULL /\ lastShown.sensor = i =>
         \A k \in 1 .. Len(OnTheWay(i)) : lastShown.sample < OnTheWay(i)[k]

\* A mean is only published of a window full of real samples, newest first, and
\* carries the time stamp of the newest.  That they are of its own sensor is in
\* the shape of the variables, one of each per sensor, and not in this property.
WholeWindow ==
  \A i \in Sensors :
    filterPc[i] = "sending" =>
      LET window == ByAge(filterCount[i])
      IN  /\ window[0] = filterData[i]
          /\ window[NUM_WEIGHTING_COEFFICIENTS - 1] > 0
          /\ \A age \in Ages \ {0} : window[age-1] > window[age]

\* The message a pending handle stands for: the k-th handle of a queue is for
\* the k-th message of that queue.
ItemOf(k) ==
  [sensor |-> Pending[k],
   sample |-> filterItems[Pending[k]][Rank(Pending, k)]]

Unshown == [k \in 1 .. Len(Pending) |-> ItemOf(k)]

\* Queue set, filter queues and controller implement one feed for all sensors.
Feed ==
  INSTANCE PublishedFeed WITH
    Items   <- [sensor : Sensors, sample : Samples],
    Nothing <- NULL,
    feed    <- Unshown

ImplementsFeed == Feed!Spec

=============================================================================
