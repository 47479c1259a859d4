--------------------------- MODULE PipelineProofs ---------------------------
(***************************************************************************)
(* The pipeline for any number of sensors, any lengths of the queues, any  *)
(* window and any number of samples: types, the order of app_main, the     *)
(* agreement of the queue set with the filter queues, the order of the     *)
(* samples up to the whole windows, and the feed that the queue set is.    *)
(***************************************************************************)
EXTENDS Pipeline, CircularVectorProofs, QueueSetProofs

USE WindowAssumption, SensorsAssumption, QueuesAssumption, HeapAssumption,
    MaxSamplesAssumption, NullAssumption
    DEF Sensors, xQueueSendToBack, xQueueReceive, AddPanics, Added

-----------------------------------------------------------------------------
(* Types.                                                                  *)

\* The vectors of TypeOK are those of the lemmas on the ring.
LEMMA SampleVectors ==
  VectorsOf(Samples) =
    [values : [Slots -> Samples], index : Slots,
     aforo : 0 .. NUM_WEIGHTING_COEFFICIENTS,
     aforoMax : {NUM_WEIGHTING_COEFFICIENTS}]
<1>1. Samples \union {0} = Samples
  BY DEF Samples
<1>. QED
  BY <1>1 DEF VectorsOf

LEMMA InitialTypes == Init => TypeOK
<1>. SUFFICES ASSUME Init PROVE TypeOK
  OBVIOUS
<1>1. EmptyVector \in VectorsOf(Samples)
  BY EmptyByAge
<1>2. filterCount \in [Sensors -> VectorsOf(Samples)]
  BY <1>1 DEF Init
<1>3. 0 \in Samples /\ 0 \in Sensors
  BY DEF Samples
<1>4. <<>> \in Seq(Samples) /\ <<>> \in Seq(Sensors)
  BY EmptySeq
<1>. QED
  BY <1>2, <1>3, <1>4, SampleVectors DEF Init, TypeOK

LEMMA NextSensorType ==
  ASSUME indexSensor \in Sensors, NextSensor
  PROVE  indexSensor' \in Sensors
BY DEF NextSensor

\* app_main and the restart after its panic.
LEMMA AppMainTypes == TypeOK /\ AppMain => TypeOK'
<1>. SUFFICES ASSUME TypeOK, AppMain PROVE TypeOK'
  OBVIOUS
<1>1. CASE CreateSet
  BY <1>1 DEF CreateSet, TypeOK, sensorVars, filterVars, setVars, controllerVars
<1>2. CASE CreateQueues
  <2>1. /\ sensorQueues' \in [Sensors -> Sensors \union {NULL}]
        /\ filterQueues' \in [Sensors -> Sensors \union {NULL}]
    BY <1>2 DEF CreateQueues, TypeOK
  <2>. QED
    BY <1>2, <2>1 DEF CreateQueues, TypeOK, sensorVars, filterVars, setVars,
                      controllerVars
<1>3. CASE AddToSet
  <2>1. CASE Restart
    <3>1. EmptyVector \in VectorsOf(Samples)
      BY EmptyByAge
    <3>2. filterCount' \in [Sensors -> VectorsOf(Samples)]
      BY <2>1, <3>1 DEF Restart
    <3>3. 0 \in Samples /\ 0 \in Sensors
      BY DEF Samples
    <3>4. <<>> \in Seq(Samples) /\ <<>> \in Seq(Sensors)
      BY EmptySeq
    <3>. QED
      BY <2>1, <3>2, <3>3, <3>4, SampleVectors DEF Restart, TypeOK
  <2>2. CASE ~Restart
    <3>1. boot' \in {"createQueues", "startSensor", "startController"}
      BY <1>3, <2>2 DEF AddToSet, NextSensor
    <3>2. indexSensor' \in Sensors
      BY <1>3, <2>2, NextSensorType DEF AddToSet, TypeOK
    <3>3. members' \in SUBSET Sensors
      BY <1>3, <2>2 DEF AddToSet, TypeOK
    <3>. QED
      BY <1>3, <2>2, <3>1, <3>2, <3>3 DEF AddToSet, TypeOK, sensorVars,
         filterVars, controllerVars
  <2>. QED
    BY <2>1, <2>2
<1>4. CASE StartSensor
  BY <1>4 DEF StartSensor, TypeOK, filterVars, setVars, controllerVars
<1>5. CASE StartFilter
  <2>1. boot' \in {"createQueues", "startController"}
    BY <1>5 DEF StartFilter, NextSensor
  <2>2. indexSensor' \in Sensors
    BY <1>5, NextSensorType DEF StartFilter, TypeOK
  <2>. QED
    BY <1>5, <2>1, <2>2 DEF StartFilter, TypeOK, sensorVars, setVars,
                            controllerVars
<1>6. CASE StartController
  BY <1>6 DEF StartController, TypeOK, sensorVars, filterVars, setVars
<1>. QED
  BY <1>1, <1>2, <1>3, <1>4, <1>5, <1>6 DEF AppMain

\* sensorTask.
LEMMA SensorTypes ==
  ASSUME TypeOK, NEW i \in Sensors, SensorTask(i)
  PROVE  TypeOK'
<1>1. CASE SensorSample(i)
  <2>1. sampled[i] + 1 \in Samples
    <3>1. sampled[i] \in Samples
      BY DEF TypeOK
    <3>2. sampled[i] < MaxSamples
      BY <1>1 DEF SensorSample
    <3>. QED
      BY <3>1, <3>2 DEF Samples
  <2>2. sampled' \in [Sensors -> Samples]
    BY <1>1, <2>1 DEF SensorSample, TypeOK
  <2>. QED
    BY <1>1, <2>2 DEF SensorSample, TypeOK, bootVars, filterVars, setVars,
                      controllerVars
<1>2. CASE SensorSend(i)
  <2>1. Append(sensorItems[i], sampled[i]) \in Seq(Samples)
    <3>1. sensorItems[i] \in Seq(Samples) /\ sampled[i] \in Samples
      BY DEF TypeOK
    <3>. QED
      BY <3>1, AppendProperties
  <2>. QED
    BY <1>2, <2>1 DEF SensorSend, TypeOK, bootVars, filterVars, setVars,
                      controllerVars
<1>3. CASE SensorDrop(i)
  BY <1>3 DEF SensorDrop, TypeOK, bootVars, filterVars, setVars, controllerVars
<1>. QED
  BY <1>1, <1>2, <1>3, SensorTask(i) DEF SensorTask

\* filterTask.
LEMMA FilterTypes ==
  ASSUME TypeOK, NEW i \in Sensors, FilterTask(i)
  PROVE  TypeOK'
<1>1. CASE FilterReceive(i)
  <2>. DEFINE inserted == insertValue(filterCount[i], Head(sensorItems[i]))
  <2>1. sensorItems[i] \in Seq(Samples) /\ sensorItems[i] # <<>>
    BY <1>1 DEF FilterReceive, TypeOK
  <2>2. Head(sensorItems[i]) \in Samples /\ Tail(sensorItems[i]) \in Seq(Samples)
    BY <2>1, HeadTailProperties
  <2>3. filterCount[i] \in VectorsOf(Samples)
    BY SampleVectors DEF TypeOK
  <2>4. CountIn(inserted) \in VectorsOf(Samples)
    BY <2>2, <2>3, InsertType, CountInType
  <2>5. filterCount' = [filterCount EXCEPT ![i] = CountIn(inserted)]
    BY <1>1 DEF FilterReceive
  <2>. HIDE DEF inserted
  <2>6. filterCount' \in [Sensors -> VectorsOf(Samples)]
    BY <2>4, <2>5, SampleVectors DEF TypeOK
  <2>7. sensorItems' \in [Sensors -> Seq(Samples)]
    BY <1>1, <2>2 DEF FilterReceive, TypeOK
  <2>8. /\ filterData' \in [Sensors -> Samples]
        /\ filterPc' \in [Sensors -> {"absent", "receiving", "sending"}]
    <3>1. CASE IsFull(insertValue(filterCount[i], Head(sensorItems[i])))
      <4>1. /\ filterData' = [filterData EXCEPT ![i] = Head(sensorItems[i])]
            /\ filterPc' = [filterPc EXCEPT ![i] = "sending"]
        BY <1>1, <3>1 DEF FilterReceive
      <4>. QED
        BY <2>2, <4>1 DEF TypeOK
    <3>2. CASE ~IsFull(insertValue(filterCount[i], Head(sensorItems[i])))
      BY <1>1, <3>2 DEF FilterReceive, TypeOK
    <3>. QED
      BY <3>1, <3>2
  <2>. QED
    BY <1>1, <2>6, <2>7, <2>8, SampleVectors DEF FilterReceive, TypeOK, bootVars,
       sensorVars, setVars, controllerVars
<1>2. CASE FilterSend(i)
  <2>1. Append(filterItems[i], filterData[i]) \in Seq(Samples)
    <3>1. filterItems[i] \in Seq(Samples) /\ filterData[i] \in Samples
      BY DEF TypeOK
    <3>. QED
      BY <3>1, AppendProperties
  <2>2. Append(controllerQueues, i) \in Seq(Sensors)
    <3>1. controllerQueues \in Seq(Sensors)
      BY DEF TypeOK
    <3>. QED
      BY <3>1, AppendProperties
  <2>3. controllerQueues' \in Seq(Sensors)
    BY <1>2, <2>2 DEF FilterSend, Notify, TypeOK
  <2>. QED
    BY <1>2, <2>1, <2>3 DEF FilterSend, TypeOK, bootVars, sensorVars,
       controllerVars
<1>3. CASE FilterDrop(i)
  BY <1>3 DEF FilterDrop, TypeOK, bootVars, sensorVars, setVars, controllerVars
<1>. QED
  BY <1>1, <1>2, <1>3, FilterTask(i) DEF FilterTask

\* controllerTask.
LEMMA ControllerTypes == TypeOK /\ ControllerTask => TypeOK'
<1>. SUFFICES ASSUME TypeOK, ControllerTask PROVE TypeOK'
  OBVIOUS
<1>1. CASE ControllerSelect
  <2>1. Head(controllerQueues) \in Sensors /\ Tail(controllerQueues) \in Seq(Sensors)
    BY <1>1, HeadTailProperties DEF ControllerSelect, TypeOK
  <2>. QED
    BY <1>1, <2>1 DEF ControllerSelect, TypeOK, bootVars, sensorVars, filterVars
<1>2. CASE ControllerTimeout
  <2>1. controllerPc' \in {"absent", "selecting", "receiving"}
    BY <1>2 DEF ControllerTimeout
  <2>. QED
    BY <1>2, <2>1 DEF ControllerTimeout, TypeOK, bootVars, sensorVars,
       filterVars, setVars
<1>3. CASE ControllerReceive
  <2>1. readingQueue \in Sensors /\ filterItems[readingQueue] \in Seq(Samples)
    BY <1>3 DEF ControllerReceive, TypeOK
  <2>2. filterItems[readingQueue] # <<>> =>
          /\ Head(filterItems[readingQueue]) \in Samples
          /\ Tail(filterItems[readingQueue]) \in Seq(Samples)
    BY <2>1, HeadTailProperties
  <2>3. /\ filterItems' \in [Sensors -> Seq(Samples)]
        /\ lastShown' \in [sensor : Sensors, sample : Samples] \union {NULL}
    <3>1. CASE filterItems[readingQueue] # <<>>
      <4>1. /\ filterItems' = [filterItems EXCEPT ![readingQueue] =
                                  Tail(filterItems[readingQueue])]
            /\ lastShown' = [sensor |-> readingQueue,
                             sample |-> Head(filterItems[readingQueue])]
        BY <1>3, <3>1 DEF ControllerReceive
      <4>. QED
        BY <2>1, <2>2, <3>1, <4>1 DEF TypeOK
    <3>2. CASE filterItems[readingQueue] = <<>>
      BY <1>3, <3>2 DEF ControllerReceive, TypeOK
    <3>. QED
      BY <3>1, <3>2
  <2>. QED
    BY <1>3, <2>3 DEF ControllerReceive, TypeOK, bootVars, sensorVars,
       filterVars, setVars
<1>. QED
  BY <1>1, <1>2, <1>3 DEF ControllerTask

LEMMA TypesPreserved == TypeOK /\ [Next]_vars => TypeOK'
<1>. SUFFICES ASSUME TypeOK, [Next]_vars PROVE TypeOK'
  OBVIOUS
<1>1. CASE UNCHANGED vars
  BY <1>1 DEF TypeOK, vars, bootVars, sensorVars, filterVars, setVars,
              controllerVars
<1>. QED
  BY <1>1, AppMainTypes, SensorTypes, FilterTypes, ControllerTypes DEF Next

\* Every variable of the program keeps its type.
THEOREM TypeCorrect == Spec => []TypeOK
BY InitialTypes, TypesPreserved, PTL DEF Spec

-----------------------------------------------------------------------------
(* The order of app_main.                                                  *)

Started(i) == sensorPc[i] # "absent" \/ filterPc[i] # "absent"

\* What app_main has established at each of its calls: tasks were started only
\* for the sensors of earlier turns of the loop (or of this one, towards its
\* end), each after its queues were created and its filter queue was added to
\* the set; and the loop goes past no sensor without a filter queue.
BootInv ==
  /\ \A i \in Sensors : Started(i) =>
       /\ QueuesExist(i) /\ i \in members
       /\ i <= indexSensor
       /\ boot \in {"createSet", "createQueues", "addToSet"} => i < indexSensor
  /\ boot \in {"startSensor", "startFilter"} =>
       QueuesExist(indexSensor) /\ indexSensor \in members
  /\ \A i \in Sensors : i < indexSensor => filterQueues[i] # NULL
  /\ boot \in {"startSensor", "startFilter", "startController", "done"} =>
       filterQueues[indexSensor] # NULL
  /\ boot \in {"startController", "done"} => indexSensor = NUMBER_SENSORS - 1
  /\ controllerPc # "absent" => boot = "done"

OrderInv == TypeOK /\ BootInv /\ NullIsNoQueue

LEMMA InitialOrder == Init => OrderInv
<1>. SUFFICES ASSUME Init PROVE BootInv /\ NullIsNoQueue
  BY InitialTypes DEF OrderInv
<1>. QED
  BY DEF Init, BootInv, NullIsNoQueue, Started

LEMMA AppMainOrder == OrderInv /\ AppMain => (BootInv /\ NullIsNoQueue)'
<1>. SUFFICES ASSUME TypeOK, BootInv, NullIsNoQueue, AppMain
              PROVE  BootInv' /\ NullIsNoQueue'
  BY DEF OrderInv
<1>0. indexSensor \in Sensors
  BY DEF TypeOK
<1>1. CASE CreateSet
  BY <1>1 DEF CreateSet, BootInv, NullIsNoQueue, Started, QueuesExist,
     sensorVars, filterVars, setVars, controllerVars
<1>2. CASE CreateQueues
  <2>1. /\ \A i \in Sensors : i # indexSensor =>
             sensorQueues'[i] = sensorQueues[i] /\ filterQueues'[i] = filterQueues[i]
        /\ boot = "createQueues" /\ boot' = "addToSet"
        /\ UNCHANGED <<indexSensor, sensorPc, filterPc, members, controllerPc,
                       readingQueue>>
    BY <1>2 DEF CreateQueues, TypeOK, sensorVars, filterVars, setVars,
                controllerVars
  <2>. QED
    BY <1>0, <2>1 DEF BootInv, NullIsNoQueue, Started, QueuesExist
<1>3. CASE AddToSet
  <2>1. CASE Restart
    BY <2>1 DEF Restart, BootInv, NullIsNoQueue, Started
  <2>2. CASE ~Restart
    <3>1. /\ boot = "addToSet" /\ filterQueues[indexSensor] # NULL
          /\ members' = members \union {indexSensor}
          /\ UNCHANGED <<sensorQueues, filterQueues, sensorPc, filterPc,
                         controllerPc, readingQueue>>
      BY <1>3, <2>2 DEF AddToSet, sensorVars, filterVars, controllerVars
    <3>2. CASE QueuesExist(indexSensor)
      <4>1. boot' = "startSensor" /\ indexSensor' = indexSensor
        BY <1>3, <2>2, <3>2 DEF AddToSet
      <4>. QED
        BY <1>0, <3>1, <3>2, <4>1 DEF BootInv, NullIsNoQueue, Started, QueuesExist
    <3>3. CASE ~QueuesExist(indexSensor)
      <4>1. NextSensor
        BY <1>3, <2>2, <3>3 DEF AddToSet
      <4>. QED
        BY <1>0, <3>1, <4>1 DEF NextSensor, BootInv, NullIsNoQueue, Started,
           QueuesExist
    <3>. QED
      BY <3>2, <3>3
  <2>. QED
    BY <2>1, <2>2
<1>4. CASE StartSensor
  <2>1. /\ \A i \in Sensors : i # indexSensor => sensorPc'[i] = sensorPc[i]
        /\ boot = "startSensor" /\ boot' = "startFilter"
        /\ UNCHANGED <<indexSensor, sensorQueues, filterQueues, filterPc,
                       members, controllerPc, readingQueue>>
    BY <1>4 DEF StartSensor, TypeOK, filterVars, setVars, controllerVars
  <2>. QED
    BY <1>0, <2>1 DEF BootInv, NullIsNoQueue, Started, QueuesExist
<1>5. CASE StartFilter
  <2>1. /\ \A i \in Sensors : i # indexSensor => filterPc'[i] = filterPc[i]
        /\ boot = "startFilter" /\ NextSensor
        /\ UNCHANGED <<sensorQueues, filterQueues, sensorPc, members,
                       controllerPc, readingQueue>>
    BY <1>5 DEF StartFilter, TypeOK, sensorVars, setVars, controllerVars
  <2>. QED
    BY <1>0, <2>1 DEF NextSensor, BootInv, NullIsNoQueue, Started, QueuesExist
<1>6. CASE StartController
  BY <1>6 DEF StartController, BootInv, NullIsNoQueue, Started, QueuesExist,
     sensorVars, filterVars, setVars
<1>. QED
  BY <1>1, <1>2, <1>3, <1>4, <1>5, <1>6 DEF AppMain

\* A running task stays running, and none starts another.
LEMMA TaskOrder ==
  ASSUME OrderInv, NEW i \in Sensors, SensorTask(i) \/ FilterTask(i)
  PROVE  (BootInv /\ NullIsNoQueue)'
<1>1. /\ UNCHANGED <<bootVars, members, controllerPc, readingQueue>>
      /\ \A j \in Sensors : Started(j)' => Started(j)
  <2>1. CASE SensorTask(i)
    BY <2>1 DEF SensorTask, SensorSample, SensorSend, SensorDrop, OrderInv,
       TypeOK, Started, bootVars, filterVars, setVars, controllerVars
  <2>2. CASE FilterReceive(i)
    <3>1. filterPc' \in {filterPc, [filterPc EXCEPT ![i] = "sending"]}
      BY <2>2 DEF FilterReceive
    <3>. QED
      BY <2>2, <3>1 DEF FilterReceive, OrderInv, TypeOK, Started, bootVars,
         sensorVars, setVars, controllerVars
  <2>3. CASE FilterSend(i)
    BY <2>3 DEF FilterSend, OrderInv, TypeOK, Started, bootVars, sensorVars,
       controllerVars
  <2>4. CASE FilterDrop(i)
    BY <2>4 DEF FilterDrop, OrderInv, TypeOK, Started, bootVars, sensorVars,
       setVars, controllerVars
  <2>. QED
    BY <2>1, <2>2, <2>3, <2>4, SensorTask(i) \/ FilterTask(i) DEF FilterTask
<1>. QED
  BY <1>1 DEF OrderInv, BootInv, NullIsNoQueue, QueuesExist, bootVars

LEMMA ControllerOrder == OrderInv /\ ControllerTask => (BootInv /\ NullIsNoQueue)'
<1>. SUFFICES ASSUME TypeOK, BootInv, NullIsNoQueue, ControllerTask
              PROVE  BootInv' /\ NullIsNoQueue'
  BY DEF OrderInv
<1>1. /\ UNCHANGED <<bootVars, sensorPc, filterPc, members>>
      /\ controllerPc # "absent"
  BY DEF ControllerTask, ControllerSelect, ControllerTimeout, ControllerReceive,
     sensorVars, filterVars, setVars
<1>2. BootInv'
  BY <1>1 DEF BootInv, Started, QueuesExist, bootVars
<1>3. NullIsNoQueue'
  <2>1. CASE ControllerSelect
    <3>1. Head(controllerQueues) \in Sensors
      BY <2>1, HeadTailProperties DEF ControllerSelect, TypeOK
    <3>. QED
      BY <2>1, <3>1 DEF ControllerSelect, NullIsNoQueue
  <2>2. CASE ControllerTimeout
    <3>1. \A i \in Sensors : filterQueues[i] # NULL
      BY <1>1 DEF BootInv
    <3>. QED
      BY <2>2, <3>1 DEF ControllerTimeout, NullIsNoQueue
  <2>3. CASE ControllerReceive
    BY <2>3 DEF ControllerReceive, NullIsNoQueue
  <2>. QED
    BY <2>1, <2>2, <2>3 DEF ControllerTask
<1>. QED
  BY <1>2, <1>3

LEMMA OrderPreserved == OrderInv /\ [Next]_vars => OrderInv'
<1>. SUFFICES ASSUME OrderInv, [Next]_vars PROVE OrderInv'
  OBVIOUS
<1>1. TypeOK'
  BY TypesPreserved DEF OrderInv
<1>2. CASE UNCHANGED vars
  BY <1>1, <1>2 DEF OrderInv, BootInv, NullIsNoQueue, Started, QueuesExist, vars,
     bootVars, sensorVars, filterVars, setVars, controllerVars
<1>. QED
  BY <1>1, <1>2, AppMainOrder, TaskOrder, ControllerOrder DEF OrderInv, Next

LEMMA Order == Spec => []OrderInv
BY InitialOrder, OrderPreserved, PTL DEF Spec

\* No task is started for a sensor one of whose queues is missing.
THEOREM TasksHaveTheirQueues == Spec => []TasksHaveQueues
<1>1. OrderInv => TasksHaveQueues
  BY DEF OrderInv, BootInv, TasksHaveQueues, Started, QueuesExist
<1>. QED
  BY <1>1, Order, PTL

\* The NULL of a timeout never passes for a filter queue.
THEOREM NullIsNeverRead == Spec => []NullIsNoQueue
<1>1. OrderInv => NullIsNoQueue
  BY DEF OrderInv
<1>. QED
  BY <1>1, Order, PTL

-----------------------------------------------------------------------------
(* The queue set.                                                          *)

HIDE DEF Sensors

\* Every queue is within its length, and the pending handles count messages.
CountInv ==
  \A i \in Sensors : /\ Len(filterItems[i]) <= NUM_ELEM_FILTER_QUEUE
                     /\ Occurrences(Pending, i) = Len(filterItems[i])

SetInv == OrderInv /\ CountInv

LEMMA PendingType ==
  ASSUME TypeOK, NullIsNoQueue
  PROVE  /\ Pending \in Seq(Sensors)
         /\ controllerPc = "receiving" =>
              Len(Pending) = 1 + Len(controllerQueues)
         /\ controllerPc # "receiving" => Pending = controllerQueues
<1>1. controllerQueues \in Seq(Sensors)
  BY DEF TypeOK
<1>2. CASE controllerPc = "receiving"
  <2>1. readingQueue \in Sensors
    BY <1>2 DEF TypeOK, NullIsNoQueue
  <2>2. <<readingQueue>> \in Seq(Sensors) /\ Len(<<readingQueue>>) = 1
    BY <2>1
  <2>. QED
    BY <1>1, <1>2, <2>2, ConcatProperties DEF Pending
<1>3. CASE controllerPc # "receiving"
  BY <1>1, <1>3, ConcatEmptySeq DEF Pending
<1>. QED
  BY <1>2, <1>3

\* There is room in the set for the handle of a queue that has room.
LEMMA SetRoom ==
  ASSUME SetInv, NEW i \in Sensors, Len(filterItems[i]) < NUM_ELEM_FILTER_QUEUE
  PROVE  Len(controllerQueues) < SetLength
<1>1. Pending \in Seq(0 .. NUMBER_SENSORS-1)
  BY PendingType DEF SetInv, OrderInv, Sensors
<1>2. /\ \A q \in 0 .. NUMBER_SENSORS-1 :
           Occurrences(Pending, q) <= NUM_ELEM_FILTER_QUEUE
      /\ Occurrences(Pending, i) < NUM_ELEM_FILTER_QUEUE
      /\ i \in 0 .. NUMBER_SENSORS-1
  BY DEF SetInv, CountInv, Sensors
<1>3. NUMBER_SENSORS \in Nat /\ NUM_ELEM_FILTER_QUEUE \in Nat
  OBVIOUS
<1>4. Len(Pending) < NUM_ELEM_FILTER_QUEUE * NUMBER_SENSORS
  BY <1>1, <1>2, <1>3, RoomForAHandle
<1>5. /\ Len(controllerQueues) <= Len(Pending)
      /\ Len(controllerQueues) \in Nat /\ Len(Pending) \in Nat
  <2>1. Len(controllerQueues) \in Nat
    BY LenProperties DEF SetInv, OrderInv, TypeOK
  <2>. QED
    BY <2>1, PendingType DEF SetInv, OrderInv
<1>6. NUM_ELEM_FILTER_QUEUE * NUMBER_SENSORS \in Nat
  BY <1>3
<1>. QED
  BY <1>4, <1>5, <1>6 DEF SetLength

\* Nothing that Pending is made of changes.
LEMMA PendingUnchanged ==
  ASSUME CountInv, UNCHANGED <<filterItems, controllerQueues, readingQueue>>,
         controllerPc = "receiving" <=> controllerPc' = "receiving"
  PROVE  CountInv'
<1>1. Pending' = Pending
  BY DEF Pending
<1>. QED
  BY <1>1 DEF CountInv

LEMMA InitialCount == Init => SetInv
<1>. SUFFICES ASSUME Init PROVE CountInv
  BY InitialOrder DEF SetInv
<1>1. Pending = <<>>
  BY DEF Init, Pending
<1>2. \A i \in Sensors : Occurrences(Pending, i) = 0
  BY <1>1, OccurrencesEmpty
<1>. QED
  BY <1>2 DEF Init, CountInv

LEMMA AppMainCount == SetInv /\ AppMain => CountInv'
<1>. SUFFICES ASSUME SetInv, AppMain PROVE CountInv'
  OBVIOUS
<1>1. CASE AddToSet /\ Restart
  <2>1. Pending' = <<>>
    BY <1>1 DEF Restart, Pending
  <2>2. \A i \in Sensors : Occurrences(Pending', i) = 0
    BY <2>1, OccurrencesEmpty
  <2>3. \A i \in Sensors : Len(filterItems'[i]) = 0
    BY <1>1 DEF Restart
  <2>. QED
    BY <2>2, <2>3 DEF CountInv
<1>2. CASE ~(AddToSet /\ Restart)
  <2>1. /\ UNCHANGED <<filterItems, controllerQueues, readingQueue>>
        /\ controllerPc = "receiving" <=> controllerPc' = "receiving"
    <3>1. boot = "startController" => controllerPc = "absent"
      BY DEF SetInv, OrderInv, BootInv
    <3>. QED
      BY <1>2, <3>1 DEF AppMain, CreateSet, CreateQueues, AddToSet, StartSensor,
         StartFilter, StartController, setVars, controllerVars
  <2>. QED
    BY <2>1, PendingUnchanged DEF SetInv
<1>. QED
  BY <1>1, <1>2

\* A mean sent is one more message and one more handle: SetRoom makes sure the
\* handle is not turned away.
LEMMA SendPending ==
  ASSUME SetInv, NEW i \in Sensors, FilterSend(i)
  PROVE  /\ filterItems[i] \in Seq(Samples) /\ filterData[i] \in Samples
         /\ filterItems \in [Sensors -> Seq(Samples)]
         /\ Pending \in Seq(Sensors) /\ Pending' = Append(Pending, i)
         /\ filterItems' = [filterItems EXCEPT ![i] =
                              Append(filterItems[i], filterData[i])]
<1>1. /\ i \in members
      /\ filterItems[i] \in Seq(Samples) /\ filterData[i] \in Samples
      /\ controllerQueues \in Seq(Sensors)
      /\ filterItems \in [Sensors -> Seq(Samples)]
  BY DEF FilterSend, SetInv, OrderInv, BootInv, Started, TypeOK
<1>2. Len(filterItems[i]) < NUM_ELEM_FILTER_QUEUE
  BY DEF FilterSend
<1>3. controllerQueues' = Append(controllerQueues, i)
  BY <1>1, <1>2, SetRoom DEF FilterSend, Notify
<1>4. Pending \in Seq(Sensors)
  BY PendingType DEF SetInv, OrderInv
<1>5. Pending' = Append(Pending, i)
  <2>1. UNCHANGED <<controllerPc, readingQueue>>
    BY DEF FilterSend, controllerVars
  <2>2. CASE controllerPc = "receiving"
    <3>1. readingQueue \in Sensors
      BY <2>2 DEF SetInv, OrderInv, TypeOK, NullIsNoQueue
    <3>2. <<readingQueue>> \o Append(controllerQueues, i)
            = Append(<<readingQueue>> \o controllerQueues, i)
      BY <1>1, <3>1, InFront
    <3>. QED
      BY <1>3, <2>1, <2>2, <3>2 DEF Pending
  <2>3. CASE controllerPc # "receiving"
    <3>1. Append(controllerQueues, i) \in Seq(Sensors)
      BY <1>1
    <3>. QED
      BY <1>1, <1>3, <2>1, <2>3, <3>1, ConcatEmptySeq DEF Pending
  <2>. QED
    BY <2>2, <2>3
<1>6. filterItems' = [filterItems EXCEPT ![i] = Append(filterItems[i], filterData[i])]
  BY DEF FilterSend
<1>. QED
  BY <1>1, <1>4, <1>5, <1>6

LEMMA SendCount ==
  ASSUME SetInv, NEW i \in Sensors, FilterSend(i)
  PROVE  CountInv'
<1>1. /\ filterItems[i] \in Seq(Samples) /\ filterData[i] \in Samples
      /\ filterItems \in [Sensors -> Seq(Samples)]
      /\ filterItems' = [filterItems EXCEPT ![i] =
                           Append(filterItems[i], filterData[i])]
  BY SendPending
<1>2. Len(filterItems[i]) < NUM_ELEM_FILTER_QUEUE
  BY DEF FilterSend
<1>4. Pending \in Seq(Sensors)
  BY SendPending
<1>5. Pending' = Append(Pending, i)
  BY SendPending
<1>6. \A j \in Sensors : /\ Len(filterItems[j]) \in Nat
                         /\ Len(filterItems[j]) <= NUM_ELEM_FILTER_QUEUE
                         /\ Occurrences(Pending, j) = Len(filterItems[j])
  BY <1>1, LenProperties DEF SetInv, CountInv
<1>8. /\ Occurrences(Pending', i) = Occurrences(Pending, i) + 1
      /\ Len(filterItems'[i]) = Len(filterItems[i]) + 1
  <2>1. Occurrences(Pending', i) = Occurrences(Pending, i) + (IF i = i THEN 1 ELSE 0)
    BY <1>4, <1>5, OccurrencesAppend
  <2>2. filterItems'[i] = Append(filterItems[i], filterData[i])
    BY <1>1
  <2>. QED
    BY <1>1, <2>1, <2>2
<1>9. ASSUME NEW j \in Sensors, i # j
      PROVE  /\ Occurrences(Pending', j) = Occurrences(Pending, j)
             /\ filterItems'[j] = filterItems[j]
  <2>1. Occurrences(Pending', j) = Occurrences(Pending, j) + (IF i = j THEN 1 ELSE 0)
    BY <1>4, <1>5, OccurrencesAppend
  <2>2. Occurrences(Pending, j) \in Nat
    BY <1>6
  <2>. QED
    BY <1>1, <1>9, <2>1, <2>2
<1>10. ASSUME NEW j \in Sensors
       PROVE  /\ Len(filterItems'[j]) <= NUM_ELEM_FILTER_QUEUE
              /\ Occurrences(Pending', j) = Len(filterItems'[j])
  <2>1. CASE i = j
    BY <1>2, <1>6, <1>8, <2>1
  <2>2. CASE i # j
    BY <1>6, <1>9, <2>2
  <2>. QED
    BY <2>1, <2>2
<1>. QED
  BY <1>10 DEF CountInv

LEMMA TaskCount ==
  ASSUME SetInv, NEW i \in Sensors, SensorTask(i) \/ FilterTask(i)
  PROVE  CountInv'
<1>1. CASE FilterSend(i)
  BY <1>1, SendCount
<1>2. CASE ~FilterSend(i)
  <2>1. UNCHANGED <<filterItems, controllerQueues, readingQueue, controllerPc>>
    BY <1>2, SensorTask(i) \/ FilterTask(i)
       DEF SensorTask, SensorSample, SensorSend, SensorDrop, FilterTask,
           FilterReceive, FilterDrop, setVars, controllerVars
  <2>. QED
    BY <2>1, PendingUnchanged DEF SetInv
<1>. QED
  BY <1>1, <1>2

\* A handle that goes from the set to the controller stays pending, and a
\* timeout brings none.
LEMMA SelectPending ==
  ASSUME SetInv, ControllerSelect \/ ControllerTimeout
  PROVE  UNCHANGED <<Pending, filterItems>>
<1>0. controllerQueues \in Seq(Sensors)
  BY DEF SetInv, OrderInv, TypeOK
<1>1. CASE ControllerSelect
  <2>1. Pending = controllerQueues
    BY <1>1, PendingType DEF ControllerSelect, SetInv, OrderInv
  <2>2. Pending' = <<Head(controllerQueues)>> \o Tail(controllerQueues)
    BY <1>1 DEF ControllerSelect, Pending
  <2>3. <<Head(controllerQueues)>> \o Tail(controllerQueues) = controllerQueues
    BY <1>0, <1>1 DEF ControllerSelect
  <2>. QED
    BY <1>1, <2>1, <2>2, <2>3 DEF ControllerSelect
<1>2. CASE ControllerTimeout
  <2>1. Pending = controllerQueues
    BY <1>2, PendingType DEF ControllerTimeout, SetInv, OrderInv
  <2>2. controllerPc' # "receiving"
    <3>1. \A i \in Sensors : filterQueues[i] # NULL
      BY <1>2 DEF ControllerTimeout, SetInv, OrderInv, BootInv, Sensors
    <3>. QED
      BY <1>2, <3>1 DEF ControllerTimeout
  <2>3. UNCHANGED <<controllerQueues, filterItems>>
    BY <1>2 DEF ControllerTimeout, setVars
  <2>4. Pending' = controllerQueues
    BY <1>0, <2>2, <2>3, ConcatEmptySeq DEF Pending
  <2>. QED
    BY <2>1, <2>3, <2>4
<1>. QED
  BY <1>1, <1>2

\* The controller finds a message in the queue it selected, and serves the
\* first of the pending handles.
LEMMA ReceivePending ==
  ASSUME SetInv, ControllerReceive
  PROVE  /\ filterItems \in [Sensors -> Seq(Samples)]
         /\ readingQueue \in Sensors
         /\ Pending \in Seq(Sensors) /\ Pending # <<>>
         /\ Pending[1] = readingQueue /\ Pending' = Tail(Pending)
         /\ filterItems[readingQueue] # <<>>
         /\ filterItems' = [filterItems EXCEPT ![readingQueue] =
                              Tail(filterItems[readingQueue])]
         /\ lastShown' = [sensor |-> readingQueue,
                          sample |-> Head(filterItems[readingQueue])]
<1>0. /\ controllerQueues \in Seq(Sensors)
      /\ filterItems \in [Sensors -> Seq(Samples)]
  BY DEF SetInv, OrderInv, TypeOK
<1>1. /\ controllerPc = "receiving" /\ readingQueue \in Sensors
      /\ controllerPc' = "selecting" /\ UNCHANGED controllerQueues
  BY DEF ControllerReceive, setVars
<1>2. Pending = <<readingQueue>> \o controllerQueues
  BY <1>1 DEF Pending
<1>3. Pending' = controllerQueues
  BY <1>0, <1>1, ConcatEmptySeq DEF Pending
<1>4. /\ Pending \in Seq(Sensors) /\ Pending # <<>>
      /\ Pending[1] = readingQueue /\ Tail(Pending) = controllerQueues
  BY <1>0, <1>1, <1>2, InFront
<1>5. filterItems[readingQueue] # <<>>
  <2>1. Occurrences(Pending, readingQueue) = Occurrences(Tail(Pending), readingQueue)
          + (IF readingQueue = readingQueue THEN 1 ELSE 0)
    BY <1>4, OccurrencesTail
  <2>2. Occurrences(Tail(Pending), readingQueue) \in Nat
    BY <1>0, <1>4, PlacesFinite
  <2>3. Len(filterItems[readingQueue]) # 0
    BY <1>1, <2>1, <2>2 DEF SetInv, CountInv
  <2>. QED
    BY <2>3, EmptySeq
<1>6. /\ filterItems' = [filterItems EXCEPT ![readingQueue] =
                           Tail(filterItems[readingQueue])]
      /\ lastShown' = [sensor |-> readingQueue,
                       sample |-> Head(filterItems[readingQueue])]
  BY <1>5 DEF ControllerReceive
<1>. QED
  BY <1>0, <1>1, <1>3, <1>4, <1>5, <1>6

LEMMA ControllerCount == SetInv /\ ControllerTask => CountInv'
<1>. SUFFICES ASSUME SetInv, ControllerTask PROVE CountInv'
  OBVIOUS
<1>1. CASE ControllerSelect \/ ControllerTimeout
  <2>1. Pending' = Pending /\ filterItems' = filterItems
    BY <1>1, SelectPending
  <2>. QED
    BY <2>1 DEF SetInv, CountInv
<1>2. CASE ControllerReceive
  <2>1. /\ filterItems \in [Sensors -> Seq(Samples)] /\ readingQueue \in Sensors
        /\ Pending \in Seq(Sensors) /\ Pending # <<>>
        /\ Pending[1] = readingQueue /\ Pending' = Tail(Pending)
        /\ filterItems[readingQueue] # <<>>
        /\ filterItems' = [filterItems EXCEPT ![readingQueue] =
                             Tail(filterItems[readingQueue])]
    BY <1>2, ReceivePending
  <2>2. Pending' \in Seq(Sensors)
    BY <2>1, HeadTailProperties
  <2>3. \A j \in Sensors : /\ Len(filterItems[j]) \in Nat
                           /\ Len(filterItems[j]) <= NUM_ELEM_FILTER_QUEUE
                           /\ Occurrences(Pending, j) = Len(filterItems[j])
                           /\ Occurrences(Pending', j) \in Nat
    BY <2>1, <2>2, LenProperties, PlacesFinite DEF SetInv, CountInv
  <2>4. ASSUME NEW j \in Sensors
        PROVE  Occurrences(Pending, j) = Occurrences(Pending', j)
                 + (IF readingQueue = j THEN 1 ELSE 0)
    BY <2>1, OccurrencesTail
  <2>5. Len(filterItems'[readingQueue]) = Len(filterItems[readingQueue]) - 1
    BY <2>1, HeadTailProperties
  <2>6. ASSUME NEW j \in Sensors
        PROVE  /\ Len(filterItems'[j]) <= NUM_ELEM_FILTER_QUEUE
               /\ Occurrences(Pending', j) = Len(filterItems'[j])
    <3>1. CASE readingQueue = j
      BY <2>3, <2>4, <2>5, <3>1
    <3>2. CASE readingQueue # j
      <4>1. filterItems'[j] = filterItems[j]
        BY <2>1, <3>2
      <4>. QED
        BY <2>3, <2>4, <3>2, <4>1
    <3>. QED
      BY <3>1, <3>2
  <2>. QED
    BY <2>6 DEF CountInv
<1>. QED
  BY <1>1, <1>2 DEF ControllerTask

LEMMA CountPreserved == SetInv /\ [Next]_vars => SetInv'
<1>. SUFFICES ASSUME SetInv, [Next]_vars PROVE CountInv'
  BY OrderPreserved DEF SetInv
<1>1. CASE UNCHANGED vars
  BY <1>1, PendingUnchanged DEF SetInv, vars, setVars, controllerVars
<1>. QED
  BY <1>1, AppMainCount, TaskCount, ControllerCount DEF Next

LEMMA Count == Spec => []SetInv
BY InitialCount, CountPreserved, PTL DEF Spec

\* The queue set and the queues never disagree, for any number of sensors and
\* any length of the queues.
THEOREM QueueSetIsRight == Spec => []QueueSetAgrees
<1>1. SetInv => QueueSetAgrees
  BY DEF SetInv, CountInv, QueueSetAgrees
<1>. QED
  BY <1>1, Count, PTL

\* NUM_ELEM_FILTER_QUEUE * NUMBER_SENSORS places are always enough.
THEOREM NoNotificationIsLost == Spec => []SetHasRoom
<1>1. SetInv => SetHasRoom
  BY SetRoom DEF SetHasRoom
<1>. QED
  BY <1>1, Count, PTL

-----------------------------------------------------------------------------
(* The order of the samples.                                               *)

\* The time stamp that the next sample to enter the sensor queue has at least.
Limit(i) == IF sensorPc[i] = "sending" THEN sampled[i] ELSE sampled[i] + 1

\* The time stamp of the newest sample in the vector, or 0.
Newest(i) == ByAge(filterCount[i])[0]

\* The newest sample in the vector parts the means that were made of it and of
\* earlier ones from the samples that have not reached it.
PublishedInv(i) ==
  /\ Increasing(filterItems[i])
  /\ \A j \in 1 .. Len(filterItems[i]) :
       /\ filterItems[i][j] <= Newest(i)
       /\ filterPc[i] = "sending" => filterItems[i][j] < Newest(i)

ShownInv(i) ==
  lastShown # NULL /\ lastShown.sensor = i =>
    /\ \A j \in 1 .. Len(filterItems[i]) : lastShown.sample < filterItems[i][j]
    /\ lastShown.sample <= Newest(i)
    /\ filterPc[i] = "sending" => lastShown.sample < Newest(i)

QueuedInv(i) ==
  /\ Increasing(sensorItems[i])
  /\ \A k \in 1 .. Len(sensorItems[i]) :
       Newest(i) < sensorItems[i][k] /\ sensorItems[i][k] < Limit(i)
  /\ Newest(i) < Limit(i)

\* The counted part of the vector holds samples, newest first; only a full one
\* makes a mean.
WindowInv(i) ==
  LET window == ByAge(filterCount[i])
      counted == filterCount[i].aforo
  IN  /\ \A age \in Ages : age < counted => window[age] > 0
      /\ \A age \in Ages \ {0} : age < counted => window[age-1] > window[age]
      /\ filterPc[i] = "sending" =>
           window[0] = filterData[i] /\ counted = NUM_WEIGHTING_COEFFICIENTS

ChainInv(i) == PublishedInv(i) /\ ShownInv(i) /\ QueuedInv(i) /\ WindowInv(i)

LEMMA ChainTypes ==
  ASSUME TypeOK, NEW i \in Sensors
  PROVE  /\ filterCount[i] \in VectorsOf(Samples)
         /\ ByAge(filterCount[i]) \in [Ages -> Samples]
         /\ Newest(i) \in Samples /\ Limit(i) \in Nat /\ sampled[i] \in Samples
         /\ filterItems[i] \in Seq(Samples) /\ sensorItems[i] \in Seq(Samples)
         /\ \A j \in 1 .. Len(filterItems[i]) : filterItems[i][j] \in Samples
         /\ \A k \in 1 .. Len(sensorItems[i]) : sensorItems[i][k] \in Samples
         /\ lastShown # NULL => lastShown.sample \in Samples
         /\ Samples \subseteq Nat
<1>1. filterCount[i] \in VectorsOf(Samples)
  BY SampleVectors DEF TypeOK
<1>2. ByAge(filterCount[i]) \in [Ages -> Samples \union {0}]
  BY <1>1, ByAgeType
<1>3. Samples \union {0} = Samples /\ Samples \subseteq Nat
  BY DEF Samples
<1>4. Newest(i) \in Samples
  BY <1>2, <1>3 DEF Newest, Ages
<1>5. sampled[i] \in Samples
  BY DEF TypeOK
<1>6. Limit(i) \in Nat
  <2>1. sampled[i] \in Nat /\ sampled[i] + 1 \in Nat
    BY <1>5 DEF Samples
  <2>. QED
    BY <2>1 DEF Limit
<1>7. filterItems[i] \in Seq(Samples) /\ sensorItems[i] \in Seq(Samples)
  BY DEF TypeOK
<1>8. lastShown # NULL => lastShown.sample \in Samples
  BY DEF TypeOK
<1>. QED
  BY <1>1, <1>2, <1>3, <1>4, <1>5, <1>6, <1>7, <1>8, ElementOfSeq

\* What a receive leaves of a queue in order comes after what it takes.
LEMMA IncreasingTail ==
  ASSUME NEW items \in Seq(Nat), items # <<>>, Increasing(items)
  PROVE  /\ Increasing(Tail(items))
         /\ \A k \in 1 .. Len(Tail(items)) :
              /\ k + 1 \in 1 .. Len(items)
              /\ Tail(items)[k] = items[k+1]
              /\ Head(items) < Tail(items)[k]
         /\ 1 \in 1 .. Len(items) /\ Head(items) = items[1]
<1>1. /\ Len(Tail(items)) = Len(items) - 1 /\ Len(items) \in Nat \ {0}
      /\ \A k \in 1 .. Len(Tail(items)) : Tail(items)[k] = items[k+1]
  BY HeadTailProperties, EmptySeq, LenProperties
<1>2. Head(items) = items[1]
  OBVIOUS
<1>. QED
  BY <1>1, <1>2 DEF Increasing

\* A queue in order stays so when a later sample is sent to it.
LEMMA IncreasingAppend ==
  ASSUME NEW items \in Seq(Nat), NEW sample \in Nat, Increasing(items),
         \A k \in 1 .. Len(items) : items[k] < sample
  PROVE  /\ Increasing(Append(items, sample))
         /\ Len(Append(items, sample)) = Len(items) + 1 /\ Len(items) \in Nat
         /\ \A k \in 1 .. Len(items) : Append(items, sample)[k] = items[k]
         /\ Append(items, sample)[Len(items)+1] = sample
<1>1. /\ Len(Append(items, sample)) = Len(items) + 1 /\ Len(items) \in Nat
      /\ \A k \in 1 .. Len(items) : Append(items, sample)[k] = items[k]
      /\ Append(items, sample)[Len(items)+1] = sample
  BY AppendProperties, LenProperties
<1>. QED
  BY <1>1 DEF Increasing

\* The chain of a sensor that was not started yet, after power on and after a
\* restart.
LEMMA EmptyChain ==
  ASSUME NEW i \in Sensors,
         filterItems[i] = <<>>, sensorItems[i] = <<>>, sampled[i] = 0,
         filterCount[i] = EmptyVector, filterPc[i] = "absent",
         sensorPc[i] = "absent", lastShown = NULL
  PROVE  ChainInv(i)
<1>1. ByAge(filterCount[i]) = [age \in Ages |-> 0] /\ filterCount[i].aforo = 0
  BY EmptyByAge DEF EmptyVector
<1>2. Newest(i) = 0
  BY <1>1 DEF Newest, Ages
<1>3. Limit(i) = 1
  BY DEF Limit
<1>4. Len(filterItems[i]) = 0 /\ Len(sensorItems[i]) = 0
  OBVIOUS
<1>5. PublishedInv(i) /\ ShownInv(i) /\ QueuedInv(i)
  BY <1>2, <1>3, <1>4 DEF PublishedInv, ShownInv, QueuedInv, Increasing
<1>6. WindowInv(i)
  BY <1>1 DEF WindowInv, Ages
<1>. QED
  BY <1>5, <1>6 DEF ChainInv

\* A step that leaves the queues and the vector of sensor i alone: its sensor
\* may go on or lose a sample, its filter may lose a mean or start, and a mean
\* of another sensor may be shown.
LEMMA ChainUnchanged ==
  ASSUME TypeOK, TypeOK', NEW i \in Sensors, ChainInv(i),
         filterItems'[i] = filterItems[i], sensorItems'[i] = sensorItems[i],
         filterCount'[i] = filterCount[i], filterData'[i] = filterData[i],
         filterPc'[i] = "sending" => filterPc[i] = "sending",
         Limit(i) <= Limit(i)',
         lastShown' = lastShown \/ lastShown'.sensor # i
  PROVE  ChainInv(i)'
<1>1. Newest(i)' = Newest(i)
  BY DEF Newest
<1>2. Limit(i) \in Nat /\ Newest(i) \in Nat
      /\ \A k \in 1 .. Len(sensorItems[i]) : sensorItems[i][k] \in Nat
  BY ChainTypes
<1>3. Limit(i)' \in Nat
  <2>1. sampled'[i] \in Samples
    BY DEF TypeOK
  <2>2. sampled'[i] \in Nat /\ sampled'[i] + 1 \in Nat
    BY <2>1 DEF Samples
  <2>. QED
    BY <2>2 DEF Limit
<1>4. PublishedInv(i)'
  BY <1>1 DEF ChainInv, PublishedInv, Increasing
<1>5. ShownInv(i)'
  BY <1>1 DEF ChainInv, ShownInv
<1>6. QueuedInv(i)'
  <2>1. QueuedInv(i)
    BY DEF ChainInv
  <2>. QED
    BY <1>1, <1>2, <1>3, <2>1 DEF QueuedInv, Increasing
<1>7. WindowInv(i)'
  BY DEF ChainInv, WindowInv
<1>. QED
  BY <1>4, <1>5, <1>6, <1>7 DEF ChainInv

LEMMA InitialChains == Init => \A i \in Sensors : ChainInv(i)
<1>. SUFFICES ASSUME Init, NEW i \in Sensors PROVE ChainInv(i)
  OBVIOUS
<1>. QED
  BY EmptyChain DEF Init

LEMMA AppMainChains ==
  ASSUME TypeOK, TypeOK', AppMain, NEW i \in Sensors, ChainInv(i)
  PROVE  ChainInv(i)'
<1>1. CASE AddToSet /\ Restart
  <2>1. /\ filterItems'[i] = <<>> /\ sensorItems'[i] = <<>> /\ sampled'[i] = 0
        /\ filterCount'[i] = EmptyVector /\ filterPc'[i] = "absent"
        /\ sensorPc'[i] = "absent" /\ lastShown' = NULL
    BY <1>1 DEF Restart
  <2>2. /\ ByAge(filterCount'[i]) = [age \in Ages |-> 0]
        /\ filterCount'[i].aforo = 0
    BY <2>1, EmptyByAge DEF EmptyVector
  <2>3. Newest(i)' = 0
    BY <2>2 DEF Newest, Ages
  <2>4. Limit(i)' = 1
    BY <2>1 DEF Limit
  <2>5. Len(filterItems'[i]) = 0 /\ Len(sensorItems'[i]) = 0
    BY <2>1
  <2>6. (PublishedInv(i) /\ ShownInv(i) /\ QueuedInv(i))'
    BY <2>1, <2>3, <2>4, <2>5 DEF PublishedInv, ShownInv, QueuedInv, Increasing
  <2>7. WindowInv(i)'
    BY <2>1, <2>2 DEF WindowInv, Ages
  <2>. QED
    BY <2>6, <2>7 DEF ChainInv
<1>2. CASE ~(AddToSet /\ Restart)
  <2>1. /\ UNCHANGED <<sampled, sensorItems, filterCount, filterData, filterItems,
                       lastShown>>
        /\ UNCHANGED sensorPc \/ StartSensor
        /\ UNCHANGED filterPc \/ StartFilter
    BY <1>2 DEF AppMain, CreateSet, CreateQueues, AddToSet, StartSensor,
       StartFilter, StartController, sensorVars, filterVars, controllerVars
  <2>2. sampled[i] \in Nat
    BY DEF TypeOK, Samples
  <2>3. sensorPc'[i] = "sending" => sensorPc[i] = "sending"
    BY <2>1 DEF StartSensor, TypeOK
  <2>4. filterPc'[i] = "sending" => filterPc[i] = "sending"
    BY <2>1 DEF StartFilter, TypeOK
  <2>5. Limit(i) <= Limit(i)'
    BY <2>1, <2>2, <2>3 DEF Limit
  <2>. QED
    BY <2>1, <2>4, <2>5, ChainUnchanged
<1>. QED
  BY <1>1, <1>2

\* A sample enters the queue with the time stamp that was the limit.
LEMMA SensorSendChain ==
  ASSUME TypeOK, TypeOK', NEW i \in Sensors, ChainInv(i), SensorSend(i)
  PROVE  ChainInv(i)'
<1>1. /\ sensorItems'[i] = Append(sensorItems[i], sampled[i])
      /\ UNCHANGED <<filterItems, filterCount, filterData, filterPc, lastShown>>
      /\ sensorPc[i] = "sending" /\ sensorPc'[i] = "sampling"
      /\ sampled' = sampled
  BY DEF SensorSend, TypeOK, filterVars, controllerVars
<1>2. /\ sensorItems[i] \in Seq(Nat) /\ sampled[i] \in Nat /\ Newest(i) \in Nat
  BY ChainTypes DEF Samples
<1>3. /\ Newest(i)' = Newest(i)
      /\ Limit(i) = sampled[i] /\ Limit(i)' = sampled[i] + 1
  BY <1>1 DEF Newest, Limit
<1>4. /\ Increasing(sensorItems[i])
      /\ Newest(i) < sampled[i]
      /\ \A k \in 1 .. Len(sensorItems[i]) :
           Newest(i) < sensorItems[i][k] /\ sensorItems[i][k] < sampled[i]
  BY <1>3 DEF ChainInv, QueuedInv
<1>. DEFINE items == Append(sensorItems[i], sampled[i])
<1>5. /\ Increasing(items)
      /\ Len(items) = Len(sensorItems[i]) + 1 /\ Len(sensorItems[i]) \in Nat
      /\ \A k \in 1 .. Len(sensorItems[i]) : items[k] = sensorItems[i][k]
      /\ items[Len(sensorItems[i])+1] = sampled[i]
  BY <1>2, <1>4, IncreasingAppend
<1>. HIDE DEF items
<1>6. ASSUME NEW k \in 1 .. Len(items)
      PROVE  Newest(i) < items[k] /\ items[k] < sampled[i] + 1
  <2>1. CASE k = Len(sensorItems[i]) + 1
    BY <1>2, <1>4, <1>5, <2>1
  <2>2. CASE k # Len(sensorItems[i]) + 1
    <3>1. k \in 1 .. Len(sensorItems[i])
      BY <1>5, <2>2
    <3>2. sensorItems[i][k] \in Nat
      BY <3>1, <1>2, ElementOfSeq
    <3>. QED
      BY <1>2, <1>4, <1>5, <3>1, <3>2
  <2>. QED
    BY <2>1, <2>2
<1>7. sensorItems'[i] = items
  BY <1>1 DEF items
<1>8. QueuedInv(i)'
  <2>1. /\ Increasing(sensorItems'[i])
        /\ \A k \in 1 .. Len(sensorItems'[i]) :
             /\ Newest(i)' < sensorItems'[i][k]
             /\ sensorItems'[i][k] < Limit(i)'
        /\ Newest(i)' < Limit(i)'
    BY <1>2, <1>3, <1>4, <1>5, <1>6, <1>7
  <2>. QED
    BY <2>1 DEF QueuedInv, Increasing
<1>9. (PublishedInv(i) /\ ShownInv(i))'
  BY <1>1, <1>3 DEF ChainInv, PublishedInv, ShownInv, Increasing
<1>10. WindowInv(i)'
  BY <1>1 DEF ChainInv, WindowInv
<1>. QED
  BY <1>8, <1>9, <1>10 DEF ChainInv

LEMMA SensorChains ==
  ASSUME TypeOK, TypeOK', NEW s \in Sensors, SensorTask(s),
         NEW i \in Sensors, ChainInv(i)
  PROVE  ChainInv(i)'
<1>1. CASE s = i /\ SensorSend(s)
  BY <1>1, SensorSendChain
<1>2. CASE s # i \/ SensorSample(s) \/ SensorDrop(s)
  <2>1. /\ UNCHANGED <<filterItems, filterCount, filterData, filterPc, lastShown>>
        /\ sensorItems'[i] = sensorItems[i]
    BY <1>2 DEF SensorTask, SensorSample, SensorSend, SensorDrop, TypeOK,
       filterVars, controllerVars
  <2>2. \/ sensorPc'[i] = sensorPc[i] /\ sampled'[i] = sampled[i]
        \/ /\ sensorPc[i] = "sampling" /\ sensorPc'[i] = "sending"
           /\ sampled'[i] = sampled[i] + 1
        \/ /\ sensorPc[i] = "sending" /\ sensorPc'[i] = "sampling"
           /\ sampled'[i] = sampled[i]
    <3>0. /\ sensorPc \in [Sensors -> {"absent", "sampling", "sending"}]
          /\ sampled \in [Sensors -> Samples]
      BY DEF TypeOK
    <3>1. CASE SensorSample(s)
      BY <3>0, <3>1 DEF SensorSample
    <3>2. CASE SensorDrop(s)
      BY <3>0, <3>2 DEF SensorDrop
    <3>3. CASE s # i /\ SensorSend(s)
      BY <3>0, <3>3 DEF SensorSend
    <3>. QED
      BY <1>2, <3>1, <3>2, <3>3 DEF SensorTask
  <2>3. sampled[i] \in Nat
    BY DEF TypeOK, Samples
  <2>4. Limit(i) <= Limit(i)'
    BY <2>2, <2>3 DEF Limit
  <2>. QED
    BY <2>1, <2>4, ChainUnchanged
<1>. QED
  BY <1>1, <1>2 DEF SensorTask

\* The oldest sample of the queue becomes the newest of the vector, and a mean
\* is only made of a vector in which every sample was counted.
LEMMA FilterReceiveChain ==
  ASSUME TypeOK, TypeOK', NEW i \in Sensors, ChainInv(i), FilterReceive(i)
  PROVE  ChainInv(i)'
<1>. DEFINE sample == Head(sensorItems[i])
            inserted == insertValue(filterCount[i], sample)
            window == ByAge(filterCount[i])
            counted == filterCount[i].aforo
<1>1. /\ sensorItems[i] # <<>> /\ sensorItems'[i] = Tail(sensorItems[i])
      /\ filterCount'[i] = CountIn(inserted)
      /\ UNCHANGED <<filterItems, sensorPc, sampled, lastShown>>
  BY DEF FilterReceive, TypeOK, sensorVars, controllerVars
<1>2. filterPc'[i] = "sending" =>
        inserted.aforo >= inserted.aforoMax /\ filterData'[i] = sample
  BY DEF FilterReceive, TypeOK, IsFull
<1>3. /\ filterCount[i] \in VectorsOf(Samples) /\ window \in [Ages -> Samples]
      /\ Newest(i) \in Nat /\ Newest(i) = window[0]
      /\ sensorItems[i] \in Seq(Samples) /\ sensorItems[i] \in Seq(Nat)
      /\ Limit(i) \in Nat
  BY ChainTypes DEF Samples, Newest
<1>4. /\ Increasing(Tail(sensorItems[i]))
      /\ \A k \in 1 .. Len(Tail(sensorItems[i])) :
           /\ k + 1 \in 1 .. Len(sensorItems[i])
           /\ Tail(sensorItems[i])[k] = sensorItems[i][k+1]
           /\ sample < Tail(sensorItems[i])[k]
      /\ 1 \in 1 .. Len(sensorItems[i]) /\ sample = sensorItems[i][1]
  BY <1>1, <1>3, IncreasingTail DEF ChainInv, QueuedInv
<1>5. /\ sample \in Samples /\ sample \in Nat
      /\ Newest(i) < sample /\ sample < Limit(i)
  <2>1. sample \in Samples
    BY <1>3, <1>4, ElementOfSeq
  <2>. QED
    BY <1>4, <2>1 DEF ChainInv, QueuedInv, Samples
<1>6. /\ counted \in 0 .. NUM_WEIGHTING_COEFFICIENTS
      /\ inserted.aforo = counted
      /\ inserted.aforoMax = NUM_WEIGHTING_COEFFICIENTS
      /\ inserted \in VectorsOf(Samples)
  <2>1. inserted \in VectorsOf(Samples)
    BY <1>3, <1>5, InsertType
  <2>. QED
    BY <1>3, <2>1 DEF VectorsOf, insertValue
<1>7. ByAge(filterCount'[i]) =
        [age \in Ages |-> IF age = 0 THEN sample ELSE window[age-1]]
  <2>1. ByAge(inserted) =
          [age \in Ages |-> IF age = 0 THEN sample ELSE window[age-1]]
    BY <1>3, <1>5, InsertByAge
  <2>. HIDE DEF inserted
  <2>2. ByAge(CountIn(inserted)) = ByAge(inserted)
    BY <1>6, CountInByAge
  <2>. QED
    BY <1>1, <2>1, <2>2
<1>8. filterCount'[i].aforo =
        IF counted >= NUM_WEIGHTING_COEFFICIENTS THEN counted ELSE counted + 1
  BY <1>1, <1>6 DEF CountIn, IsFull, VectorsOf
<1>9. /\ \A age \in Ages : age < counted => window[age] > 0
      /\ \A age \in Ages \ {0} : age < counted => window[age-1] > window[age]
      /\ \A age \in Ages : window[age] \in Nat
  BY <1>3 DEF ChainInv, WindowInv, Samples
<1>. HIDE DEF sample, inserted, window, counted
<1>10. Newest(i)' = sample /\ Limit(i)' = Limit(i)
  BY <1>1, <1>7 DEF Newest, Limit, Ages
<1>11. PublishedInv(i)'
  <2>1. /\ Increasing(filterItems[i])
        /\ \A j \in 1 .. Len(filterItems[i]) :
             filterItems[i][j] <= Newest(i) /\ filterItems[i][j] \in Nat
    BY ChainTypes DEF ChainInv, PublishedInv
  <2>2. filterItems'[i] = filterItems[i]
    BY <1>1
  <2>3. \A j \in 1 .. Len(filterItems'[i]) : filterItems'[i][j] < Newest(i)'
    BY <1>3, <1>5, <1>10, <2>1, <2>2
  <2>4. \A j \in 1 .. Len(filterItems'[i]) : filterItems'[i][j] <= Newest(i)'
    BY <1>5, <1>10, <2>1, <2>2, <2>3
  <2>. QED
    BY <2>1, <2>2, <2>3, <2>4 DEF PublishedInv, Increasing
<1>12. ShownInv(i)'
  <2>. SUFFICES ASSUME lastShown # NULL, lastShown.sensor = i
                PROVE  /\ \A j \in 1 .. Len(filterItems[i]) :
                            lastShown.sample < filterItems[i][j]
                       /\ lastShown.sample < sample
                       /\ lastShown.sample <= sample
    BY <1>1, <1>10 DEF ShownInv
  <2>1. lastShown.sample \in Nat
    BY ChainTypes DEF Samples
  <2>. QED
    BY <1>3, <1>5, <2>1 DEF ChainInv, ShownInv
<1>13. QueuedInv(i)'
  <2>1. \A k \in 1 .. Len(Tail(sensorItems[i])) :
          Tail(sensorItems[i])[k] < Limit(i)
    BY <1>4 DEF ChainInv, QueuedInv
  <2>. QED
    BY <1>1, <1>4, <1>5, <1>10, <2>1 DEF QueuedInv, Increasing
<1>14. WindowInv(i)'
  <2>. DEFINE next == ByAge(filterCount'[i])
  <2>0. window[0] < sample
    BY <1>3, <1>5
  <2>1. ASSUME NEW age \in Ages, age < filterCount'[i].aforo
        PROVE  /\ next[age] > 0
               /\ age # 0 => next[age-1] > next[age]
    <3>1. CASE age = 0
      BY <1>3, <1>5, <1>7, <3>1
    <3>2. CASE age # 0
      <4>1. age - 1 \in Ages /\ age - 1 < counted
        BY <1>6, <1>8, <2>1, <3>2 DEF Ages
      <4>2. next[age] = window[age-1] /\ window[age-1] > 0
        BY <1>7, <1>9, <3>2, <4>1
      <4>3. CASE age = 1
        BY <1>7, <2>0, <4>1, <4>2, <4>3
      <4>4. CASE age # 1
        <5>1. age - 1 \in Ages \ {0} /\ age - 1 # 0
          BY <4>1, <4>4 DEF Ages
        <5>2. window[(age-1)-1] > window[age-1]
          BY <1>9, <4>1, <5>1
        <5>3. next[age-1] = window[(age-1)-1]
          BY <1>7, <5>1
        <5>. QED
          BY <4>2, <5>2, <5>3
      <4>. QED
        BY <4>3, <4>4
    <3>. QED
      BY <3>1, <3>2
  <2>2. next[0] = sample
    BY <1>7 DEF Ages
  <2>3. filterPc'[i] = "sending" =>
          /\ next[0] = filterData'[i]
          /\ filterCount'[i].aforo = NUM_WEIGHTING_COEFFICIENTS
    BY <1>2, <1>6, <1>8, <2>2
  <2>. HIDE DEF next
  <2>4. /\ \A age \in Ages : age < filterCount'[i].aforo => next[age] > 0
        /\ \A age \in Ages \ {0} :
             age < filterCount'[i].aforo => next[age-1] > next[age]
    BY <2>1
  <2>. QED
    BY <2>3, <2>4 DEF WindowInv, next
<1>. QED
  BY <1>11, <1>12, <1>13, <1>14 DEF ChainInv

\* A mean is published with the newest time stamp of the vector, which was
\* not published before.
LEMMA FilterSendChain ==
  ASSUME TypeOK, TypeOK', NEW i \in Sensors, ChainInv(i), FilterSend(i)
  PROVE  ChainInv(i)'
<1>1. /\ filterItems'[i] = Append(filterItems[i], filterData[i])
      /\ filterPc[i] = "sending" /\ filterPc'[i] = "receiving"
      /\ UNCHANGED <<sensorPc, sampled, sensorItems, filterCount, filterData,
                     lastShown>>
  BY DEF FilterSend, TypeOK, sensorVars, controllerVars
<1>2. /\ filterItems[i] \in Seq(Nat) /\ Newest(i) \in Nat
      /\ \A j \in 1 .. Len(filterItems[i]) : filterItems[i][j] \in Nat
      /\ lastShown # NULL => lastShown.sample \in Nat
  BY ChainTypes DEF Samples
<1>3. filterData[i] = Newest(i)
  BY <1>1 DEF ChainInv, WindowInv, Newest
<1>4. /\ Increasing(filterItems[i])
      /\ \A j \in 1 .. Len(filterItems[i]) : filterItems[i][j] < Newest(i)
  BY <1>1 DEF ChainInv, PublishedInv
<1>. DEFINE items == Append(filterItems[i], Newest(i))
<1>5. /\ Increasing(items)
      /\ Len(items) = Len(filterItems[i]) + 1 /\ Len(filterItems[i]) \in Nat
      /\ \A j \in 1 .. Len(filterItems[i]) : items[j] = filterItems[i][j]
      /\ items[Len(filterItems[i])+1] = Newest(i)
  BY <1>2, <1>4, IncreasingAppend
<1>6. filterItems'[i] = items
  BY <1>1, <1>3
<1>7. Newest(i)' = Newest(i) /\ Limit(i)' = Limit(i)
  BY <1>1 DEF Newest, Limit
<1>. HIDE DEF items
<1>8. ASSUME NEW j \in 1 .. Len(items)
      PROVE  /\ items[j] <= Newest(i)
             /\ lastShown # NULL /\ lastShown.sensor = i =>
                  lastShown.sample < items[j]
  <2>1. CASE j = Len(filterItems[i]) + 1
    <3>1. items[j] = Newest(i)
      BY <1>5, <2>1
    <3>. QED
      BY <1>1, <1>2, <3>1 DEF ChainInv, ShownInv
  <2>2. CASE j # Len(filterItems[i]) + 1
    <3>1. j \in 1 .. Len(filterItems[i])
      BY <1>5, <2>2
    <3>2. items[j] = filterItems[i][j] /\ items[j] \in Nat
      BY <1>2, <1>5, <3>1
    <3>. QED
      BY <1>2, <1>4, <3>1, <3>2 DEF ChainInv, ShownInv
  <2>. QED
    BY <2>1, <2>2
<1>9. PublishedInv(i)'
  BY <1>1, <1>5, <1>6, <1>7, <1>8 DEF PublishedInv, Increasing
<1>10. ShownInv(i)'
  <2>1. lastShown # NULL /\ lastShown.sensor = i => lastShown.sample <= Newest(i)
    BY DEF ChainInv, ShownInv
  <2>. QED
    BY <1>1, <1>6, <1>7, <1>8, <2>1 DEF ShownInv
<1>11. QueuedInv(i)'
  BY <1>1, <1>7 DEF ChainInv, QueuedInv, Increasing
<1>12. WindowInv(i)'
  BY <1>1 DEF ChainInv, WindowInv
<1>. QED
  BY <1>9, <1>10, <1>11, <1>12 DEF ChainInv

LEMMA FilterChains ==
  ASSUME TypeOK, TypeOK', NEW f \in Sensors, FilterTask(f),
         NEW i \in Sensors, ChainInv(i)
  PROVE  ChainInv(i)'
<1>1. CASE f = i /\ FilterReceive(f)
  BY <1>1, FilterReceiveChain
<1>2. CASE f = i /\ FilterSend(f)
  BY <1>2, FilterSendChain
<1>3. CASE f # i \/ FilterDrop(f)
  <2>0. /\ filterPc \in [Sensors -> {"absent", "receiving", "sending"}]
        /\ DOMAIN filterItems = Sensors /\ DOMAIN sensorItems = Sensors
        /\ DOMAIN filterCount = Sensors /\ DOMAIN filterData = Sensors
    BY DEF TypeOK
  <2>1. /\ UNCHANGED <<sensorPc, sampled, lastShown>>
        /\ filterItems'[i] = filterItems[i] /\ sensorItems'[i] = sensorItems[i]
        /\ filterCount'[i] = filterCount[i] /\ filterData'[i] = filterData[i]
        /\ filterPc'[i] = "sending" => filterPc[i] = "sending"
    <3>1. CASE FilterReceive(f) /\ f # i
      BY <2>0, <3>1 DEF FilterReceive, sensorVars, controllerVars
    <3>2. CASE FilterSend(f) /\ f # i
      BY <2>0, <3>2 DEF FilterSend, sensorVars, controllerVars
    <3>3. CASE FilterDrop(f)
      BY <2>0, <3>3 DEF FilterDrop, sensorVars, controllerVars
    <3>. QED
      BY <1>3, <3>1, <3>2, <3>3 DEF FilterTask
  <2>2. Limit(i) <= Limit(i)'
    <3>1. Limit(i)' = Limit(i) /\ Limit(i) \in Nat
      BY <2>1, ChainTypes DEF Limit
    <3>. QED
      BY <3>1
  <2>. QED
    BY <2>1, <2>2, ChainUnchanged
<1>. QED
  BY <1>1, <1>2, <1>3 DEF FilterTask

\* The oldest mean of the queue is shown: it is older than what it leaves.
LEMMA ControllerChains ==
  ASSUME TypeOK, TypeOK', ControllerTask, NEW i \in Sensors, ChainInv(i)
  PROVE  ChainInv(i)'
<1>1. UNCHANGED <<sensorPc, sampled, sensorItems, filterPc, filterCount,
                  filterData>>
  BY DEF ControllerTask, ControllerSelect, ControllerTimeout, ControllerReceive,
     sensorVars, filterVars
<1>2. Newest(i)' = Newest(i) /\ Limit(i)' = Limit(i)
  BY <1>1 DEF Newest, Limit
<1>3. CASE ControllerReceive /\ readingQueue = i /\ filterItems[i] # <<>>
  <2>1. /\ lastShown' = [sensor |-> i, sample |-> Head(filterItems[i])]
        /\ filterItems'[i] = Tail(filterItems[i])
    BY <1>3 DEF ControllerReceive, TypeOK
  <2>2. filterItems[i] \in Seq(Nat) /\ Newest(i) \in Nat
        /\ \A j \in 1 .. Len(filterItems[i]) : filterItems[i][j] \in Nat
    BY ChainTypes DEF Samples
  <2>3. /\ Increasing(Tail(filterItems[i]))
        /\ \A k \in 1 .. Len(Tail(filterItems[i])) :
             /\ k + 1 \in 1 .. Len(filterItems[i])
             /\ Tail(filterItems[i])[k] = filterItems[i][k+1]
             /\ Head(filterItems[i]) < Tail(filterItems[i])[k]
        /\ 1 \in 1 .. Len(filterItems[i])
        /\ Head(filterItems[i]) = filterItems[i][1]
    BY <1>3, <2>2, IncreasingTail DEF ChainInv, PublishedInv
  <2>4. PublishedInv(i)'
    BY <1>1, <1>2, <2>1, <2>3 DEF ChainInv, PublishedInv, Increasing
  <2>5. ShownInv(i)'
    <3>1. lastShown'.sample = Head(filterItems[i])
      BY <2>1
    <3>. QED
      BY <1>1, <1>2, <2>1, <2>3, <3>1 DEF ChainInv, PublishedInv, ShownInv
  <2>6. QueuedInv(i)'
    BY <1>1, <1>2 DEF ChainInv, QueuedInv, Increasing
  <2>7. WindowInv(i)'
    BY <1>1 DEF ChainInv, WindowInv
  <2>. QED
    BY <2>4, <2>5, <2>6, <2>7 DEF ChainInv
<1>4. CASE ~(ControllerReceive /\ readingQueue = i /\ filterItems[i] # <<>>)
  <2>1. /\ filterItems'[i] = filterItems[i]
        /\ lastShown' = lastShown \/ lastShown'.sensor # i
    <3>0. DOMAIN filterItems = Sensors
      BY DEF TypeOK
    <3>1. CASE ControllerSelect \/ ControllerTimeout
      BY <3>1 DEF ControllerSelect, ControllerTimeout
    <3>2. CASE ControllerReceive /\ readingQueue # i
      <4>1. CASE filterItems[readingQueue] = <<>>
        BY <3>2, <4>1 DEF ControllerReceive
      <4>2. CASE filterItems[readingQueue] # <<>>
        <5>1. lastShown'.sensor = readingQueue
          BY <3>2, <4>2 DEF ControllerReceive
        <5>. QED
          BY <3>0, <3>2, <4>2, <5>1 DEF ControllerReceive
      <4>. QED
        BY <4>1, <4>2
    <3>3. CASE ControllerReceive /\ filterItems[i] = <<>> /\ readingQueue = i
      BY <3>3 DEF ControllerReceive
    <3>. QED
      BY <1>4, <3>1, <3>2, <3>3 DEF ControllerTask
  <2>2. Limit(i) <= Limit(i)'
    BY <1>2, ChainTypes
  <2>. QED
    BY <1>1, <2>1, <2>2, ChainUnchanged
<1>. QED
  BY <1>3, <1>4

\* All chains are as described above.
ChainsInv == TypeOK /\ \A i \in Sensors : ChainInv(i)

LEMMA ChainsPreserved == ChainsInv /\ [Next]_vars => ChainsInv'
<1>. SUFFICES ASSUME ChainsInv, [Next]_vars, NEW i \in Sensors
              PROVE  ChainInv(i)'
  BY TypesPreserved DEF ChainsInv
<1>1. TypeOK /\ TypeOK' /\ ChainInv(i)
  BY TypesPreserved DEF ChainsInv
<1>2. CASE UNCHANGED vars
  <2>1. UNCHANGED <<sensorPc, sampled, sensorItems, filterPc, filterCount,
                    filterData, filterItems, lastShown>>
    BY <1>2 DEF vars, sensorVars, filterVars, controllerVars
  <2>2. Limit(i) <= Limit(i)'
    <3>1. Limit(i)' = Limit(i) /\ Limit(i) \in Nat
      BY <1>1, <2>1, ChainTypes DEF Limit
    <3>. QED
      BY <3>1
  <2>. QED
    BY <1>1, <2>1, <2>2, ChainUnchanged
<1>. QED
  BY <1>1, <1>2, AppMainChains, ControllerChains, SensorChains, FilterChains
     DEF Next

LEMMA Chains == Spec => []ChainsInv
<1>1. Init => ChainsInv
  BY InitialTypes, InitialChains DEF ChainsInv
<1>. QED
  BY <1>1, ChainsPreserved, PTL DEF Spec

\* A concatenation of two ordered parts, the first of which is earlier, is
\* ordered, and holds nothing else.
LEMMA IncreasingConcat ==
  ASSUME NEW front \in Seq(Nat), NEW back \in Seq(Nat),
         Increasing(front), Increasing(back),
         \A j \in 1 .. Len(front), k \in 1 .. Len(back) : front[j] < back[k]
  PROVE  /\ front \o back \in Seq(Nat)
         /\ Increasing(front \o back)
         /\ \A n \in 1 .. Len(front \o back) :
              \/ \E j \in 1 .. Len(front) : (front \o back)[n] = front[j]
              \/ \E k \in 1 .. Len(back) : (front \o back)[n] = back[k]
<1>1. /\ front \o back \in Seq(Nat)
      /\ Len(front \o back) = Len(front) + Len(back)
      /\ Len(front) \in Nat /\ Len(back) \in Nat
      /\ \A n \in 1 .. Len(front) + Len(back) : (front \o back)[n] =
           IF n <= Len(front) THEN front[n] ELSE back[n - Len(front)]
  BY ConcatProperties, LenProperties
<1>. DEFINE whole == front \o back
<1>. HIDE DEF whole
<1>2. ASSUME NEW j \in 1 .. Len(whole), NEW k \in 1 .. Len(whole), j < k
      PROVE  whole[j] < whole[k]
  <2>1. CASE k <= Len(front)
    BY <1>1, <1>2, <2>1 DEF Increasing, whole
  <2>2. CASE ~(k <= Len(front)) /\ j <= Len(front)
    <3>1. k - Len(front) \in 1 .. Len(back) /\ j \in 1 .. Len(front)
      BY <1>1, <2>2 DEF whole
    <3>. QED
      BY <1>1, <2>2, <3>1 DEF whole
  <2>3. CASE ~(k <= Len(front)) /\ ~(j <= Len(front))
    <3>1. /\ k - Len(front) \in 1 .. Len(back)
          /\ j - Len(front) \in 1 .. Len(back)
          /\ j - Len(front) < k - Len(front)
      BY <1>1, <1>2, <2>3 DEF whole
    <3>2. back[j - Len(front)] < back[k - Len(front)]
      BY <3>1 DEF Increasing
    <3>. QED
      BY <1>1, <2>3, <3>2 DEF whole
  <2>. QED
    BY <2>1, <2>2, <2>3
<1>3. ASSUME NEW n \in 1 .. Len(whole)
      PROVE  \/ \E j \in 1 .. Len(front) : whole[n] = front[j]
             \/ \E k \in 1 .. Len(back) : whole[n] = back[k]
  <2>1. CASE n <= Len(front)
    BY <1>1, <2>1 DEF whole
  <2>2. CASE ~(n <= Len(front))
    <3>1. n - Len(front) \in 1 .. Len(back)
      BY <1>1, <2>2 DEF whole
    <3>2. whole[n] = back[n - Len(front)]
      BY <1>1, <2>2 DEF whole
    <3>. QED
      BY <3>1, <3>2
  <2>. QED
    BY <2>1, <2>2
<1>4. Increasing(whole)
  BY <1>2 DEF Increasing
<1>. QED
  BY <1>1, <1>3, <1>4 DEF whole

\* The chain invariant orders the four parts of what is on the way, and puts
\* what was shown before all of them.
LEMMA ChainIsOrdered ==
  ASSUME TypeOK, NEW i \in Sensors, ChainInv(i)
  PROVE  /\ Increasing(OnTheWay(i))
         /\ lastShown # NULL /\ lastShown.sensor = i =>
              \A k \in 1 .. Len(OnTheWay(i)) : lastShown.sample < OnTheWay(i)[k]
<1>. DEFINE published == filterItems[i]
            mean == IF filterPc[i] = "sending" THEN <<filterData[i]>> ELSE <<>>
            queued == sensorItems[i]
            taken == IF sensorPc[i] = "sending" THEN <<sampled[i]>> ELSE <<>>
            newest == Newest(i)
            shownHere == lastShown # NULL /\ lastShown.sensor = i
            shown == lastShown.sample
<1>1. /\ published \in Seq(Nat) /\ queued \in Seq(Nat) /\ newest \in Nat
      /\ Limit(i) \in Nat /\ sampled[i] \in Nat
      /\ \A j \in 1 .. Len(published) : published[j] \in Nat
      /\ \A k \in 1 .. Len(queued) : queued[k] \in Nat
      /\ shownHere => shown \in Nat
  BY ChainTypes DEF Samples
<1>2. /\ Increasing(published)
      /\ \A j \in 1 .. Len(published) : published[j] <= newest
      /\ filterPc[i] = "sending" =>
           \A j \in 1 .. Len(published) : published[j] < newest
  BY DEF ChainInv, PublishedInv
<1>3. /\ Increasing(queued) /\ newest < Limit(i)
      /\ \A k \in 1 .. Len(queued) : newest < queued[k] /\ queued[k] < Limit(i)
  BY DEF ChainInv, QueuedInv
<1>4. shownHere =>
        /\ \A j \in 1 .. Len(published) : shown < published[j]
        /\ shown <= newest
        /\ filterPc[i] = "sending" => shown < newest
  BY DEF ChainInv, ShownInv
<1>5. /\ mean \in Seq(Nat) /\ Increasing(mean)
      /\ \A k \in 1 .. Len(mean) : filterPc[i] = "sending" /\ mean[k] = newest
  <2>1. filterPc[i] = "sending" => filterData[i] = newest
    BY DEF ChainInv, WindowInv, Newest
  <2>2. CASE filterPc[i] = "sending"
    BY <1>1, <2>1, <2>2 DEF Increasing
  <2>3. CASE filterPc[i] # "sending"
    BY <2>3 DEF Increasing
  <2>. QED
    BY <2>2, <2>3
<1>6. /\ taken \in Seq(Nat) /\ Increasing(taken)
      /\ \A k \in 1 .. Len(taken) : taken[k] = Limit(i)
  <2>1. CASE sensorPc[i] = "sending"
    BY <1>1, <2>1 DEF Increasing, Limit
  <2>2. CASE sensorPc[i] # "sending"
    BY <2>2 DEF Increasing
  <2>. QED
    BY <2>1, <2>2
<1>7. OnTheWay(i) = published \o mean \o queued \o taken
  BY DEF OnTheWay
<1>. HIDE DEF published, mean, queued, taken, newest, shownHere, shown
<1>8. /\ published \o mean \in Seq(Nat) /\ Increasing(published \o mean)
      /\ \A n \in 1 .. Len(published \o mean) :
           \/ \E j \in 1 .. Len(published) : (published \o mean)[n] = published[j]
           \/ \E k \in 1 .. Len(mean) : (published \o mean)[n] = mean[k]
  <2>1. \A j \in 1 .. Len(published), k \in 1 .. Len(mean) :
          published[j] < mean[k]
    BY <1>2, <1>5
  <2>. QED
    BY <1>1, <1>2, <1>5, <2>1, IncreasingConcat
<1>. DEFINE made == published \o mean
<1>. HIDE DEF made
<1>9. ASSUME NEW n \in 1 .. Len(made)
      PROVE  /\ made[n] \in Nat /\ made[n] <= newest
             /\ shownHere => shown < made[n]
  <2>1. CASE \E j \in 1 .. Len(published) : made[n] = published[j]
    BY <1>1, <1>2, <1>4, <2>1
  <2>2. CASE \E k \in 1 .. Len(mean) : made[n] = mean[k]
    BY <1>1, <1>4, <1>5, <2>2
  <2>. QED
    BY <1>8, <2>1, <2>2 DEF made
<1>10. /\ made \o queued \in Seq(Nat) /\ Increasing(made \o queued)
       /\ \A n \in 1 .. Len(made \o queued) :
            \/ \E j \in 1 .. Len(made) : (made \o queued)[n] = made[j]
            \/ \E k \in 1 .. Len(queued) : (made \o queued)[n] = queued[k]
  <2>1. \A j \in 1 .. Len(made), k \in 1 .. Len(queued) : made[j] < queued[k]
    BY <1>1, <1>3, <1>9
  <2>2. made \in Seq(Nat) /\ Increasing(made)
    BY <1>8 DEF made
  <2>. QED
    BY <1>1, <1>3, <2>1, <2>2, IncreasingConcat
<1>. DEFINE waiting == made \o queued
<1>. HIDE DEF waiting
<1>11. ASSUME NEW n \in 1 .. Len(waiting)
       PROVE  /\ waiting[n] \in Nat /\ waiting[n] < Limit(i)
              /\ shownHere => shown < waiting[n]
  BY <1>1, <1>3, <1>4, <1>9, <1>10 DEF waiting
<1>12. /\ Increasing(waiting \o taken)
       /\ \A n \in 1 .. Len(waiting \o taken) :
            \/ \E j \in 1 .. Len(waiting) : (waiting \o taken)[n] = waiting[j]
            \/ \E k \in 1 .. Len(taken) : (waiting \o taken)[n] = taken[k]
  <2>1. \A j \in 1 .. Len(waiting), k \in 1 .. Len(taken) : waiting[j] < taken[k]
    BY <1>1, <1>6, <1>11
  <2>2. waiting \in Seq(Nat) /\ Increasing(waiting)
    BY <1>10 DEF waiting
  <2>. QED
    BY <1>6, <2>1, <2>2, IncreasingConcat
<1>13. ASSUME NEW n \in 1 .. Len(waiting \o taken), shownHere
       PROVE  shown < (waiting \o taken)[n]
  <2>. DEFINE last == (waiting \o taken)[n]
  <2>1. CASE \E j \in 1 .. Len(waiting) : last = waiting[j]
    BY <1>11, <1>13, <2>1
  <2>2. CASE \E k \in 1 .. Len(taken) : last = taken[k]
    BY <1>1, <1>3, <1>4, <1>6, <1>13, <2>2
  <2>. HIDE DEF last
  <2>3. shown < last
    BY <1>12, <2>1, <2>2 DEF last
  <2>. QED
    BY <2>3 DEF last
<1>. QED
  BY <1>7, <1>12, <1>13 DEF made, waiting, shownHere, shown

\* Along every chain the time stamps grow towards the sensor, and what was shown
\* is older than all that is still to come.
THEOREM SamplesStayInOrder == Spec => []SampleOrder
<1>1. ChainsInv => SampleOrder
  BY ChainIsOrdered DEF ChainsInv, SampleOrder
<1>. QED
  BY <1>1, Chains, PTL

\* Every published mean is of a full window of real samples, newest first.
THEOREM WindowsAreWhole == Spec => []WholeWindow
<1>1. ChainsInv => WholeWindow
  <2>. SUFFICES ASSUME ChainsInv, NEW i \in Sensors, filterPc[i] = "sending"
                PROVE  LET window == ByAge(filterCount[i])
                       IN  /\ window[0] = filterData[i]
                           /\ window[NUM_WEIGHTING_COEFFICIENTS - 1] > 0
                           /\ \A age \in Ages \ {0} : window[age-1] > window[age]
    BY DEF WholeWindow
  <2>1. WindowInv(i)
    BY DEF ChainsInv, ChainInv
  <2>. QED
    BY <2>1 DEF WindowInv, Ages
<1>. QED
  BY <1>1, Chains, PTL

-----------------------------------------------------------------------------
(* The feed.  Because the set agrees with the queues, the k-th pending     *)
(* handle of a queue stands for the k-th message of that queue: a mean     *)
(* sent goes to the end of the feed, and what the controller shows is its  *)
(* first item.                                                             *)

Items == [sensor : Sensors, sample : Samples]

Contents == [Sensors -> Seq(Samples)]

\* The items that handles stand for when the queues hold contents.
FeedOf(handles, contents) ==
  [k \in 1 .. Len(handles) |->
     [sensor |-> handles[k],
      sample |-> contents[handles[k]][Rank(handles, k)]]]

\* A message sent to a queue, and one received.
Sent(contents, i, x) == [contents EXCEPT ![i] = Append(contents[i], x)]
Received(contents, i) == [contents EXCEPT ![i] = Tail(contents[i])]

\* A handle for every message, and no other.
Agree(handles, contents) ==
  \A i \in Sensors : Occurrences(handles, i) = Len(contents[i])

LEMMA UnshownIsFeed ==
  /\ Unshown = FeedOf(Pending, filterItems)
  /\ Unshown' = FeedOf(Pending', filterItems')
BY DEF Unshown, ItemOf, FeedOf

LEMMA FeedType ==
  ASSUME NEW handles \in Seq(Sensors), NEW contents \in Contents,
         Agree(handles, contents)
  PROVE  /\ Len(handles) \in Nat
         /\ FeedOf(handles, contents) \in Seq(Items)
         /\ Len(FeedOf(handles, contents)) = Len(handles)
         /\ \A k \in 1 .. Len(handles) :
              /\ handles[k] \in Sensors
              /\ Rank(handles, k) \in 1 .. Len(contents[handles[k]])
              /\ FeedOf(handles, contents)[k] =
                   [sensor |-> handles[k],
                    sample |-> contents[handles[k]][Rank(handles, k)]]
<1>1. Len(handles) \in Nat
  BY LenProperties
<1>2. ASSUME NEW k \in 1 .. Len(handles)
      PROVE  /\ handles[k] \in Sensors
             /\ Rank(handles, k) \in 1 .. Len(contents[handles[k]])
             /\ contents[handles[k]][Rank(handles, k)] \in Samples
  <2>1. handles[k] \in Sensors
    BY ElementOfSeq
  <2>2. Rank(handles, k) \in 1 .. Occurrences(handles, handles[k])
    BY RankBounds
  <2>3. Rank(handles, k) \in 1 .. Len(contents[handles[k]])
    BY <2>1, <2>2 DEF Agree
  <2>4. contents[handles[k]] \in Seq(Samples)
    BY <2>1 DEF Contents
  <2>. QED
    BY <2>1, <2>3, <2>4, ElementOfSeq
<1>3. FeedOf(handles, contents) \in [1 .. Len(handles) -> Items]
  BY <1>2 DEF FeedOf, Items
<1>4. FeedOf(handles, contents) \in Seq(Items)
      /\ Len(FeedOf(handles, contents)) = Len(handles)
  BY <1>1, <1>3
<1>. QED
  BY <1>1, <1>2, <1>4 DEF FeedOf

\* A message and its handle make one more item, behind the others.
LEMMA FeedAppend ==
  ASSUME NEW handles \in Seq(Sensors), NEW contents \in Contents,
         Agree(handles, contents), NEW i \in Sensors, NEW x \in Samples,
         Agree(Append(handles, i), Sent(contents, i, x))
  PROVE  FeedOf(Append(handles, i), Sent(contents, i, x)) =
           Append(FeedOf(handles, contents), [sensor |-> i, sample |-> x])
<1>. DEFINE after == Sent(contents, i, x)
            item == [sensor |-> i, sample |-> x]
            feed == FeedOf(handles, contents)
            longer == FeedOf(Append(handles, i), after)
<1>1. /\ Append(handles, i) \in Seq(Sensors)
      /\ Len(Append(handles, i)) = Len(handles) + 1
      /\ \A k \in 1 .. Len(handles) : Append(handles, i)[k] = handles[k]
      /\ Append(handles, i)[Len(handles) + 1] = i
  BY AppendProperties
<1>2. contents[i] \in Seq(Samples)
  BY DEF Contents
<1>3. /\ after[i] = Append(contents[i], x) /\ after[i] \in Seq(Samples)
      /\ Len(contents[i]) \in Nat
      /\ \A n \in 1 .. Len(contents[i]) : after[i][n] = contents[i][n]
      /\ after[i][Len(contents[i]) + 1] = x
  BY <1>2, AppendProperties, LenProperties DEF Contents, Sent
<1>4. after \in Contents /\ \A j \in Sensors : j # i => after[j] = contents[j]
  BY <1>3 DEF Contents, Sent
<1>5. /\ Len(handles) \in Nat
      /\ feed \in Seq(Items) /\ Len(feed) = Len(handles)
      /\ \A k \in 1 .. Len(handles) :
           /\ handles[k] \in Sensors
           /\ Rank(handles, k) \in 1 .. Len(contents[handles[k]])
           /\ feed[k] = [sensor |-> handles[k],
                         sample |-> contents[handles[k]][Rank(handles, k)]]
  BY FeedType
<1>6. /\ longer \in Seq(Items) /\ Len(longer) = Len(Append(handles, i))
      /\ \A k \in 1 .. Len(Append(handles, i)) :
           longer[k] =
             [sensor |-> Append(handles, i)[k],
              sample |-> after[Append(handles, i)[k]]
                              [Rank(Append(handles, i), k)]]
  BY <1>1, <1>4, FeedType
<1>7. item \in Items
  BY DEF Items
<1>. HIDE DEF after, item, feed, longer
<1>8. /\ Append(feed, item) \in Seq(Items)
      /\ Len(Append(feed, item)) = Len(feed) + 1
      /\ \A k \in 1 .. Len(feed) : Append(feed, item)[k] = feed[k]
      /\ Append(feed, item)[Len(feed) + 1] = item
  BY <1>5, <1>7, AppendProperties
<1>9. /\ \A k \in 1 .. Len(handles) : Rank(Append(handles, i), k) = Rank(handles, k)
      /\ Rank(Append(handles, i), Len(handles) + 1) = Occurrences(handles, i) + 1
  BY RankAppend
<1>10. ASSUME NEW k \in 1 .. Len(handles)
       PROVE  longer[k] = feed[k]
  <2>1. k \in 1 .. Len(Append(handles, i))
    BY <1>1, <1>5
  <2>2. longer[k] = [sensor |-> handles[k],
                     sample |-> after[handles[k]][Rank(handles, k)]]
    BY <1>1, <1>6, <1>9, <2>1
  <2>3. after[handles[k]][Rank(handles, k)] = contents[handles[k]][Rank(handles, k)]
    <3>1. CASE handles[k] = i
      <4>1. Rank(handles, k) \in 1 .. Len(contents[i])
        BY <1>5, <3>1
      <4>. QED
        BY <1>3, <3>1, <4>1
    <3>2. CASE handles[k] # i
      BY <1>4, <1>5, <3>2
    <3>. QED
      BY <3>1, <3>2
  <2>. QED
    BY <1>5, <2>2, <2>3
<1>11. longer[Len(handles) + 1] = item
  <2>1. Len(handles) + 1 \in 1 .. Len(Append(handles, i))
    BY <1>1, <1>5
  <2>2. Rank(Append(handles, i), Len(handles) + 1) = Len(contents[i]) + 1
    BY <1>9 DEF Agree
  <2>3. longer[Len(handles) + 1] =
          [sensor |-> i, sample |-> after[i][Len(contents[i]) + 1]]
    BY <1>1, <1>6, <2>1, <2>2
  <2>. QED
    BY <1>3, <2>3 DEF item
<1>12. Len(longer) = Len(Append(feed, item))
  BY <1>1, <1>5, <1>6, <1>8
<1>13. ASSUME NEW k \in 1 .. Len(longer) PROVE longer[k] = Append(feed, item)[k]
  <2>1. k \in 1 .. Len(handles) \/ k = Len(handles) + 1
    BY <1>1, <1>5, <1>6
  <2>2. CASE k \in 1 .. Len(handles)
    BY <1>5, <1>8, <1>10, <2>2
  <2>3. CASE k = Len(handles) + 1
    BY <1>5, <1>8, <1>11, <2>3
  <2>. QED
    BY <2>1, <2>2, <2>3
<1>14. longer = Append(feed, item)
  BY <1>6, <1>8, <1>12, <1>13, SeqEqual
<1>. QED
  BY <1>14 DEF after, longer, feed, item

\* The first handle with the first message of its queue is the first item; the
\* others stay.
LEMMA FeedTail ==
  ASSUME NEW handles \in Seq(Sensors), NEW contents \in Contents,
         Agree(handles, contents), handles # <<>>,
         NEW i \in Sensors, handles[1] = i, contents[i] # <<>>,
         Agree(Tail(handles), Received(contents, i))
  PROVE  /\ FeedOf(handles, contents) # <<>>
         /\ FeedOf(handles, contents)[1] =
              [sensor |-> i, sample |-> contents[i][1]]
         /\ FeedOf(Tail(handles), Received(contents, i)) =
              Tail(FeedOf(handles, contents))
<1>. DEFINE after == Received(contents, i)
            feed == FeedOf(handles, contents)
            shorter == FeedOf(Tail(handles), after)
<1>1. /\ Tail(handles) \in Seq(Sensors)
      /\ Len(Tail(handles)) = Len(handles) - 1
      /\ \A k \in 1 .. Len(Tail(handles)) : Tail(handles)[k] = handles[k + 1]
  BY HeadTailProperties
<1>2. contents[i] \in Seq(Samples)
  BY DEF Contents
<1>3. /\ after[i] = Tail(contents[i]) /\ after[i] \in Seq(Samples)
      /\ Len(after[i]) = Len(contents[i]) - 1
      /\ Len(contents[i]) \in Nat \ {0}
      /\ \A n \in 1 .. Len(after[i]) : after[i][n] = contents[i][n + 1]
  BY <1>2, HeadTailProperties, EmptySeq DEF Contents, Received
<1>4. after \in Contents /\ \A j \in Sensors : j # i => after[j] = contents[j]
  BY <1>3 DEF Contents, Received
<1>5. /\ Len(handles) \in Nat \ {0}
      /\ feed \in Seq(Items) /\ Len(feed) = Len(handles)
      /\ \A k \in 1 .. Len(handles) :
           feed[k] = [sensor |-> handles[k],
                      sample |-> contents[handles[k]][Rank(handles, k)]]
  BY FeedType, EmptySeq
<1>6. /\ shorter \in Seq(Items) /\ Len(shorter) = Len(Tail(handles))
      /\ \A k \in 1 .. Len(Tail(handles)) :
           /\ Tail(handles)[k] \in Sensors
           /\ Rank(Tail(handles), k) \in 1 .. Len(after[Tail(handles)[k]])
           /\ shorter[k] =
                [sensor |-> Tail(handles)[k],
                 sample |-> after[Tail(handles)[k]][Rank(Tail(handles), k)]]
  BY <1>1, <1>4, FeedType
<1>. HIDE DEF after, feed, shorter
<1>7. /\ Rank(handles, 1) = 1
      /\ \A k \in 1 .. Len(Tail(handles)) :
           Rank(handles, k + 1) =
             Rank(Tail(handles), k) + (IF handles[1] = handles[k + 1] THEN 1 ELSE 0)
  BY RankTail
<1>8. feed # <<>> /\ feed[1] = [sensor |-> i, sample |-> contents[i][1]]
  <2>1. 1 \in 1 .. Len(handles)
    BY <1>5
  <2>. QED
    BY <1>5, <1>7, <2>1, EmptySeq
<1>9. /\ Tail(feed) \in Seq(Items) /\ Len(Tail(feed)) = Len(feed) - 1
      /\ \A k \in 1 .. Len(Tail(feed)) : Tail(feed)[k] = feed[k + 1]
  BY <1>5, <1>8, HeadTailProperties
<1>10. Len(shorter) = Len(Tail(feed))
  BY <1>1, <1>5, <1>6, <1>9
<1>11. ASSUME NEW k \in 1 .. Len(shorter) PROVE shorter[k] = Tail(feed)[k]
  <2>1. /\ k \in 1 .. Len(Tail(handles)) /\ k + 1 \in 1 .. Len(handles)
        /\ k \in 1 .. Len(Tail(feed))
    BY <1>1, <1>5, <1>6, <1>10
  <2>2. /\ Tail(handles)[k] = handles[k + 1] /\ handles[k + 1] \in Sensors
        /\ shorter[k] = [sensor |-> handles[k + 1],
                         sample |-> after[handles[k + 1]][Rank(Tail(handles), k)]]
    BY <1>1, <1>6, <2>1
  <2>3. Tail(feed)[k] =
          [sensor |-> handles[k + 1],
           sample |-> contents[handles[k + 1]][Rank(handles, k + 1)]]
    BY <1>5, <1>9, <2>1
  <2>4. Rank(Tail(handles), k) \in 1 .. Len(after[handles[k + 1]])
    BY <1>6, <2>1, <2>2
  <2>5. after[handles[k + 1]][Rank(Tail(handles), k)] =
          contents[handles[k + 1]][Rank(handles, k + 1)]
    <3>1. CASE handles[k + 1] = i
      <4>1. Rank(handles, k + 1) = Rank(Tail(handles), k) + 1
        BY <1>7, <2>1, <3>1
      <4>2. Rank(Tail(handles), k) \in 1 .. Len(after[i])
        BY <2>4, <3>1
      <4>. QED
        BY <1>3, <3>1, <4>1, <4>2
    <3>2. CASE handles[k + 1] # i
      <4>1. Rank(handles, k + 1) = Rank(Tail(handles), k) + 0
        BY <1>7, <2>1, <3>2
      <4>2. Rank(handles, k + 1) = Rank(Tail(handles), k)
        BY <2>4, <4>1
      <4>. QED
        BY <1>4, <2>2, <3>2, <4>2
    <3>. QED
      BY <3>1, <3>2
  <2>. QED
    BY <2>2, <2>3, <2>5
<1>12. shorter = Tail(feed)
  BY <1>6, <1>9, <1>10, <1>11, SeqEqual
<1>. QED
  BY <1>8, <1>12 DEF after, feed, shorter

LEMMA FeedTypes ==
  ASSUME SetInv
  PROVE  /\ Pending \in Seq(Sensors) /\ filterItems \in Contents
         /\ Agree(Pending, filterItems)
BY PendingType DEF SetInv, OrderInv, TypeOK, CountInv, Contents, Agree

LEMMA SendPublishes ==
  ASSUME SetInv, CountInv', NEW i \in Sensors, FilterSend(i)
  PROVE  \E item \in Items : Feed!Publish(item)
<1>1. /\ filterData[i] \in Samples
      /\ Pending' = Append(Pending, i)
      /\ filterItems' = [filterItems EXCEPT ![i] =
                           Append(filterItems[i], filterData[i])]
  BY SendPending
<1>2. Agree(Pending', filterItems')
  BY DEF CountInv, Agree
<1>3. Unshown' = Append(Unshown, [sensor |-> i, sample |-> filterData[i]])
  <2>1. /\ Pending \in Seq(Sensors) /\ filterItems \in Contents
        /\ Agree(Pending, filterItems)
        /\ filterItems' = Sent(filterItems, i, filterData[i])
        /\ Agree(Append(Pending, i), Sent(filterItems, i, filterData[i]))
    BY <1>1, <1>2, FeedTypes DEF Sent
  <2>2. FeedOf(Append(Pending, i), Sent(filterItems, i, filterData[i])) =
          Append(FeedOf(Pending, filterItems),
                 [sensor |-> i, sample |-> filterData[i]])
    BY <1>1, <2>1, FeedAppend
  <2>. QED
    BY <1>1, <2>1, <2>2, UnshownIsFeed
<1>4. UNCHANGED lastShown
  BY DEF FilterSend, controllerVars
<1>5. [sensor |-> i, sample |-> filterData[i]] \in Items
  BY <1>1 DEF Items
<1>. QED
  BY <1>3, <1>4, <1>5 DEF Feed!Publish

LEMMA ReceiveShows ==
  ASSUME SetInv, CountInv', ControllerReceive
  PROVE  Feed!Show
<1>1. /\ readingQueue \in Sensors /\ Pending # <<>>
      /\ Pending[1] = readingQueue /\ Pending' = Tail(Pending)
      /\ filterItems[readingQueue] # <<>>
      /\ filterItems' = [filterItems EXCEPT ![readingQueue] =
                           Tail(filterItems[readingQueue])]
      /\ lastShown' = [sensor |-> readingQueue,
                       sample |-> Head(filterItems[readingQueue])]
  BY ReceivePending
<1>2. Agree(Pending', filterItems')
  BY DEF CountInv, Agree
<1>3. /\ Unshown # <<>>
      /\ Unshown[1] = [sensor |-> readingQueue,
                       sample |-> filterItems[readingQueue][1]]
      /\ Unshown' = Tail(Unshown)
  <2>1. /\ Pending \in Seq(Sensors) /\ filterItems \in Contents
        /\ Agree(Pending, filterItems)
        /\ filterItems' = Received(filterItems, readingQueue)
        /\ Agree(Tail(Pending), Received(filterItems, readingQueue))
    BY <1>1, <1>2, FeedTypes DEF Received
  <2>2. /\ FeedOf(Pending, filterItems) # <<>>
        /\ FeedOf(Pending, filterItems)[1] =
             [sensor |-> readingQueue, sample |-> filterItems[readingQueue][1]]
        /\ FeedOf(Tail(Pending), Received(filterItems, readingQueue)) =
             Tail(FeedOf(Pending, filterItems))
    BY <1>1, <2>1, FeedTail
  <2>. QED
    BY <1>1, <2>1, <2>2, UnshownIsFeed
<1>4. Unshown \in Seq(Items)
  BY FeedTypes, FeedType, UnshownIsFeed
<1>5. Head(Unshown) = Unshown[1]
  BY <1>3, <1>4, HeadTailProperties
<1>6. Head(filterItems[readingQueue]) = filterItems[readingQueue][1]
  <2>1. filterItems[readingQueue] \in Seq(Samples)
    BY <1>1, FeedTypes DEF Contents
  <2>. QED
    BY <1>1, <2>1, HeadTailProperties
<1>. QED
  BY <1>1, <1>3, <1>5, <1>6 DEF Feed!Show

\* Nothing is shown before app_main is done.
NothingShown == controllerPc = "absent" => lastShown = NULL

LEMMA NothingShownKept == NothingShown /\ [Next]_vars => NothingShown'
<1>. SUFFICES ASSUME NothingShown, [Next]_vars PROVE NothingShown'
  OBVIOUS
<1>1. CASE AppMain
  BY <1>1 DEF AppMain, CreateSet, CreateQueues, AddToSet, Restart, StartSensor,
     StartFilter, StartController, NothingShown, controllerVars
<1>2. CASE ControllerTask
  BY <1>2 DEF ControllerTask, ControllerSelect, ControllerTimeout,
     ControllerReceive, NothingShown
<1>3. ASSUME NEW i \in Sensors, SensorTask(i) \/ FilterTask(i)
      PROVE  NothingShown'
  BY <1>3 DEF SensorTask, SensorSample, SensorSend, SensorDrop, FilterTask,
     FilterReceive, FilterSend, FilterDrop, NothingShown, controllerVars
<1>4. CASE UNCHANGED vars
  BY <1>4 DEF vars, controllerVars, NothingShown
<1>. QED
  BY <1>1, <1>2, <1>3, <1>4 DEF Next

LEMMA AppMainFeeds ==
  ASSUME SetInv, NothingShown, AppMain
  PROVE  Feed!Restart \/ UNCHANGED Feed!feedVars
<1>1. CASE AddToSet /\ Restart
  <2>1. controllerPc = "absent"
    BY <1>1 DEF AddToSet, SetInv, OrderInv, BootInv
  <2>2. lastShown = NULL /\ lastShown' = NULL
    BY <1>1, <2>1 DEF NothingShown, Restart
  <2>3. Pending' = <<>>
    BY <1>1 DEF Restart, Pending
  <2>4. Unshown' = <<>>
    BY <2>3 DEF Unshown
  <2>. QED
    BY <2>2, <2>4 DEF Feed!Restart
<1>2. CASE ~(AddToSet /\ Restart)
  <2>1. /\ UNCHANGED <<filterItems, controllerQueues, readingQueue, lastShown>>
        /\ controllerPc = "receiving" <=> controllerPc' = "receiving"
    <3>1. boot = "startController" => controllerPc = "absent"
      BY DEF SetInv, OrderInv, BootInv
    <3>. QED
      BY <1>2, <3>1 DEF AppMain, CreateSet, CreateQueues, AddToSet, StartSensor,
         StartFilter, StartController, setVars, controllerVars
  <2>2. Pending' = Pending
    BY <2>1 DEF Pending
  <2>3. Unshown' = Unshown
    BY <2>1, <2>2, UnshownIsFeed
  <2>. QED
    BY <2>1, <2>3 DEF Feed!feedVars
<1>. QED
  BY <1>1, <1>2

\* Queue set, filter queues and controller implement one feed of all sensors:
\* what is published is shown once, in the order of publication.
THEOREM QueueSetIsAFeed == Spec => ImplementsFeed
<1>1. Init => Feed!Init /\ NothingShown
  <2>. SUFFICES ASSUME Init PROVE Feed!Init /\ NothingShown
    OBVIOUS
  <2>1. Pending = <<>> /\ lastShown = NULL
    BY DEF Init, Pending
  <2>2. Unshown = <<>>
    BY <2>1 DEF Unshown
  <2>. QED
    BY <2>1, <2>2 DEF Feed!Init, NothingShown
<1>2. SetInv /\ SetInv' /\ NothingShown /\ [Next]_vars
        => [Feed!Next]_Feed!feedVars
  <2>. SUFFICES ASSUME SetInv, SetInv', NothingShown, [Next]_vars
                PROVE  Feed!Next \/ UNCHANGED Feed!feedVars
    OBVIOUS
  <2>0. CountInv'
    BY DEF SetInv
  <2>1. CASE AppMain
    BY <2>1, AppMainFeeds DEF Feed!Next
  <2>2. CASE ControllerReceive
    BY <2>0, <2>2, ReceiveShows DEF Feed!Next
  <2>3. CASE ControllerSelect \/ ControllerTimeout
    <3>1. UNCHANGED <<Pending, filterItems>> /\ UNCHANGED lastShown
      BY <2>3, SelectPending DEF ControllerSelect, ControllerTimeout
    <3>. QED
      BY <3>1, UnshownIsFeed DEF Feed!feedVars
  <2>4. ASSUME NEW i \in Sensors, FilterSend(i)
        PROVE  Feed!Next
    <3>1. \E item \in Items : Feed!Publish(item)
      BY <2>0, <2>4, SendPublishes
    <3>. QED
      BY <3>1 DEF Feed!Next, Items
  <2>5. ASSUME NEW i \in Sensors, SensorTask(i) \/ FilterTask(i), ~FilterSend(i)
        PROVE  UNCHANGED Feed!feedVars
    <3>1. UNCHANGED <<filterItems, controllerQueues, readingQueue, controllerPc,
                      lastShown>>
      BY <2>5 DEF SensorTask, SensorSample, SensorSend, SensorDrop, FilterTask,
         FilterReceive, FilterDrop, setVars, controllerVars
    <3>2. Pending' = Pending
      BY <3>1 DEF Pending
    <3>. QED
      BY <3>1, <3>2, UnshownIsFeed DEF Feed!feedVars
  <2>6. CASE UNCHANGED vars
    <3>1. UNCHANGED <<filterItems, controllerQueues, readingQueue, controllerPc,
                      lastShown>>
      BY <2>6 DEF vars, setVars, controllerVars
    <3>2. Pending' = Pending
      BY <3>1 DEF Pending
    <3>. QED
      BY <3>1, <3>2, UnshownIsFeed DEF Feed!feedVars
  <2>. QED
    BY <2>1, <2>2, <2>3, <2>4, <2>5, <2>6 DEF Next, ControllerTask
<1>3. SetInv /\ [Next]_vars => SetInv'
  BY CountPreserved
<1>. QED
  BY <1>1, <1>2, <1>3, NothingShownKept, Count, PTL
     DEF Spec, ImplementsFeed, Feed!Spec

=============================================================================
