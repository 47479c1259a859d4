-------------------------- MODULE ChronometerProofs --------------------------
(***************************************************************************)
(* The chronometer for any length of the queue, any readings and any bound *)
(* on the count: its types, the race of app_main with the handler for the  *)
(* one-second timer, and the stopwatch that queue and handler implement.   *)
(***************************************************************************)
EXTENDS Chronometer, TLAPS

USE QueueLengthAssumption, ReadingsAssumption, CountAssumption

-----------------------------------------------------------------------------
(* Types.                                                                  *)

LEMMA SendTypes ==
  ASSUME queueOut \in Seq(Events), Len(queueOut) <= QUEUE_LENGTH,
         NEW event \in Events, send_machine_state(event)
  PROVE  queueOut' \in Seq(Events) /\ Len(queueOut') <= QUEUE_LENGTH
<1>1. CASE Len(queueOut) < QUEUE_LENGTH
  <2>1. queueOut' = Append(queueOut, event)
    BY <1>1 DEF send_machine_state
  <2>. QED
    BY <1>1, <2>1
<1>2. CASE ~(Len(queueOut) < QUEUE_LENGTH)
  BY <1>2 DEF send_machine_state
<1>. QED
  BY <1>1, <1>2

LEMMA InitialTypes == Init => TypeOK
<1>. SUFFICES ASSUME Init PROVE TypeOK
  OBVIOUS
<1>1. queueOut \in Seq(Events) /\ Len(queueOut) <= QUEUE_LENGTH
  BY DEF Init
<1>2. countTimer \in 0 .. MaxCount
  BY DEF Init
<1>3. status \in Events
  BY DEF Init, Events
<1>. QED
  BY <1>1, <1>2, <1>3 DEF Init, TypeOK

LEMMA AppMainTypes == TypeOK /\ AppMain => TypeOK'
<1>. SUFFICES ASSUME TypeOK, AppMain PROVE TypeOK'
  OBVIOUS
<1>1. CASE StartHandler
  BY <1>1 DEF StartHandler, TypeOK, touchVars, chronoVars
<1>2. CASE StartTouch
  BY <1>2 DEF StartTouch, TypeOK, handlerVars, chronoVars
<1>3. CASE StartSensor
  BY <1>3 DEF StartSensor, TypeOK, handlerVars, touchVars, chronoVars
<1>4. CASE CreateChrono
  BY <1>4 DEF CreateChrono, TypeOK, handlerVars, touchVars
<1>5. CASE StartChrono
  BY <1>5 DEF StartChrono, TypeOK, handlerVars, touchVars
<1>. QED
  BY <1>1, <1>2, <1>3, <1>4, <1>5 DEF AppMain

LEMMA TouchPadTypes == TypeOK /\ TouchPad => TypeOK'
<1>. SUFFICES ASSUME TypeOK, TouchPad PROVE TypeOK'
  OBVIOUS
<1>1. CASE Touch
  BY <1>1 DEF Touch, TypeOK, handlerVars, chronoVars
<1>2. CASE PadInterrupt
  BY <1>2 DEF PadInterrupt, TypeOK, handlerVars, chronoVars
<1>3. CASE CheckPad
  <2>1. queueOut' \in Seq(Events) /\ Len(queueOut') <= QUEUE_LENGTH
    <3>1. CASE padActivated
      BY <1>3, <3>1, SendTypes DEF CheckPad, TypeOK, Events
    <3>2. CASE ~padActivated
      BY <1>3, <3>2 DEF CheckPad, TypeOK
    <3>. QED
      BY <3>1, <3>2
  <2>2. touchPc' \in {"absent", "checking", "waiting"}
    BY <1>3 DEF CheckPad, TypeOK
  <2>. QED
    BY <1>3, <2>1, <2>2 DEF CheckPad, TypeOK, handlerVars, chronoVars
<1>4. CASE ClearPad
  BY <1>4 DEF ClearPad, Unpressed, TypeOK, handlerVars, chronoVars
<1>. QED
  BY <1>1, <1>2, <1>3, <1>4 DEF TouchPad

LEMMA TimerTaskTypes == TypeOK /\ TimerTask => TypeOK'
<1>. SUFFICES ASSUME TypeOK, TimerTask PROVE TypeOK'
  OBVIOUS
<1>1. CASE ChronoExpires
  BY <1>1 DEF ChronoExpires, TypeOK, handlerVars, touchVars, chronoVars
<1>2. CASE SensorExpires
  BY <1>2 DEF SensorExpires, TypeOK, handlerVars, touchVars, chronoVars
<1>3. CASE chronometer_timer_callback
  <2>1. queueOut' \in Seq(Events) /\ Len(queueOut') <= QUEUE_LENGTH
    BY <1>3, SendTypes DEF chronometer_timer_callback, TypeOK, Events
  <2>. QED
    BY <1>3, <2>1
    DEF chronometer_timer_callback, TypeOK, handlerVars, touchVars, chronoVars
<1>4. CASE sensor_hall_timer_callback
  <2>1. queueOut' \in Seq(Events) /\ Len(queueOut') <= QUEUE_LENGTH
    <3>1. PICK value \in Readings :
            IF value <= SENSOR_HALL_THRESHOLD
              THEN send_machine_state("RESET_TIMER") ELSE UNCHANGED queueOut
      BY <1>4 DEF sensor_hall_timer_callback
    <3>. QED
      BY <3>1, SendTypes DEF TypeOK, Events
  <2>. QED
    BY <1>4, <2>1
    DEF sensor_hall_timer_callback, TypeOK, handlerVars, touchVars, chronoVars
<1>. QED
  BY <1>1, <1>2, <1>3, <1>4 DEF TimerTask

LEMMA HandlerTypes == TypeOK /\ Handler => TypeOK'
<1>. SUFFICES ASSUME TypeOK, Handler PROVE TypeOK'
  OBVIOUS
<1>1. CASE Receive
  <2>1. Head(queueOut) \in Events /\ Tail(queueOut) \in Seq(Events)
    BY <1>1 DEF Receive, TypeOK
  <2>2. Len(Tail(queueOut)) <= QUEUE_LENGTH
    BY <1>1 DEF Receive, TypeOK
  <2>. QED
    BY <1>1, <2>1, <2>2 DEF Receive, TypeOK, touchVars, chronoVars
<1>2. CASE HandleCount
  <2>1. countTimer' \in 0 .. MaxCount
    BY <1>2 DEF HandleCount, Incremented, TypeOK
  <2>. QED
    BY <1>2, <2>1 DEF HandleCount, TypeOK, touchVars, chronoVars
<1>3. CASE HandleStartStop
  BY <1>3 DEF HandleStartStop, TypeOK, touchVars
<1>4. CASE HandleReset
  <2>1. countTimer' \in 0 .. MaxCount
    BY <1>4 DEF HandleReset
  <2>. QED
    BY <1>4, <2>1 DEF HandleReset, TypeOK, touchVars
<1>. QED
  BY <1>1, <1>2, <1>3, <1>4 DEF Handler

\* Every variable keeps its type and the queue its length, whatever the order
\* of the interrupts, the callbacks and the tasks.
THEOREM TypeCorrect == Spec => []TypeOK
<1>1. TypeOK /\ [Next]_vars => TypeOK'
  <2>1. TypeOK /\ UNCHANGED vars => TypeOK'
    BY DEF TypeOK, vars, handlerVars, touchVars, chronoVars
  <2>. QED
    BY <2>1, AppMainTypes, TouchPadTypes, TimerTaskTypes, HandlerTypes DEF Next
<1>. QED
  BY <1>1, InitialTypes, PTL DEF Spec

-----------------------------------------------------------------------------
(* The one-second timer.                                                   *)

\* app_main has created the timer before it starts it.
CreatedFirst == boot \in {"startChrono", "done"} => chronoCreated

ArmedInv == TypeOK /\ CreatedFirst /\ ActiveIsArmed

LEMMA CreatedFirstKept == TypeOK /\ CreatedFirst /\ [Next]_vars => CreatedFirst'
<1>. SUFFICES ASSUME TypeOK, CreatedFirst, [Next]_vars PROVE CreatedFirst'
  OBVIOUS
<1>1. CASE AppMain
  BY <1>1 DEF AppMain, StartHandler, StartTouch, StartSensor, CreateChrono,
              StartChrono, CreatedFirst, chronoVars
<1>2. CASE TouchPad
  BY <1>2 DEF TouchPad, Touch, PadInterrupt, CheckPad, ClearPad, CreatedFirst,
              chronoVars
<1>3. CASE TimerTask
  BY <1>3 DEF TimerTask, ChronoExpires, SensorExpires,
              chronometer_timer_callback, sensor_hall_timer_callback,
              CreatedFirst, chronoVars
<1>4. CASE Handler
  BY <1>4 DEF Handler, Receive, HandleCount, HandleStartStop, HandleReset,
              CreatedFirst, chronoVars
<1>5. CASE UNCHANGED vars
  BY <1>5 DEF vars, chronoVars, CreatedFirst
<1>. QED
  BY <1>1, <1>2, <1>3, <1>4, <1>5 DEF Next

LEMMA ActiveIsArmedKept == ArmedInv /\ [Next]_vars => ActiveIsArmed'
<1>. SUFFICES ASSUME ArmedInv, [Next]_vars, boot' = "done", isTimerActive'
              PROVE  chronoArmed'
  BY DEF ActiveIsArmed
<1>1. CASE AppMain
  BY <1>1 DEF AppMain, StartHandler, StartTouch, StartSensor, CreateChrono,
              StartChrono
<1>2. CASE TouchPad
  BY <1>2 DEF TouchPad, Touch, PadInterrupt, CheckPad, ClearPad, ArmedInv,
              ActiveIsArmed, chronoVars, handlerVars
<1>3. CASE TimerTask
  BY <1>3 DEF TimerTask, ChronoExpires, SensorExpires,
              chronometer_timer_callback, sensor_hall_timer_callback,
              ArmedInv, ActiveIsArmed, chronoVars, handlerVars
<1>4. CASE Handler
  <2>1. CASE Receive
    BY <1>4, <2>1 DEF Receive, ArmedInv, ActiveIsArmed, chronoVars
  <2>2. CASE HandleCount
    BY <1>4, <2>2 DEF HandleCount, ArmedInv, ActiveIsArmed, chronoVars
  <2>3. CASE HandleStartStop
    \* The timer exists, so the start that goes with the toggle takes effect.
    <3>1. chronoCreated
      BY <2>3 DEF HandleStartStop, ArmedInv, CreatedFirst
    <3>. QED
      BY <2>3, <3>1 DEF HandleStartStop
  <2>4. CASE HandleReset
    BY <2>4 DEF HandleReset
  <2>. QED
    BY <1>4, <2>1, <2>2, <2>3, <2>4 DEF Handler
<1>5. CASE UNCHANGED vars
  BY <1>5 DEF vars, handlerVars, chronoVars, ArmedInv, ActiveIsArmed
<1>. QED
  BY <1>1, <1>2, <1>3, <1>4, <1>5 DEF Next

\* Once app_main is done, a chronometer that is marked active has its timer
\* running: no order of Start/Stop and Reset events with the creation and the
\* start of the timer leaves it marked active and stopped.
THEOREM ActiveIsAlwaysArmed == Spec => []ActiveIsArmed
<1>1. Init => ArmedInv
  BY InitialTypes DEF Init, ArmedInv, CreatedFirst, ActiveIsArmed
<1>2. ArmedInv /\ [Next]_vars => CreatedFirst' /\ ActiveIsArmed'
  BY CreatedFirstKept, ActiveIsArmedKept DEF ArmedInv
<1>3. Init => CreatedFirst /\ ActiveIsArmed
  BY <1>1 DEF ArmedInv
<1>4. TypeOK /\ CreatedFirst /\ ActiveIsArmed <=> ArmedInv
  BY DEF ArmedInv
<1>. QED
  BY <1>2, <1>3, <1>4, TypeCorrect, PTL DEF Spec

-----------------------------------------------------------------------------
(* The stopwatch that queue and handler implement.  Course is a recursive  *)
(* function, and that its equation has one solution is not to be had by    *)
(* induction over the events here: it is an invariant, which every event   *)
(* that is sent or handled hands on.                                       *)

Chronos == [running : BOOLEAN, seconds : 0 .. MaxCount]

\* f satisfies the equation of Course.
IsCourse(f, chrono, events) ==
  f = [k \in 0 .. Len(events) |->
         IF k = 0 THEN chrono ELSE After(f[k-1], events[k])]

\* The equation of Course has one solution, and that one is of chronometers.
Determined(chrono, events) ==
  \E f \in [0 .. Len(events) -> Chronos] :
    /\ IsCourse(f, chrono, events)
    /\ \A g : IsCourse(g, chrono, events) => g = f

LEMMA AfterType ==
  ASSUME NEW chrono \in Chronos, NEW event \in Events
  PROVE  After(chrono, event) \in Chronos
<1>1. CASE event = "COUNT_TIMER"
  <2>1. After(chrono, event) =
          [chrono EXCEPT !.seconds =
             IF chrono.running THEN Incremented(@) ELSE @]
    BY <1>1 DEF After
  <2>2. Incremented(chrono.seconds) \in 0 .. MaxCount
    BY DEF Incremented, Chronos
  <2>. QED
    BY <2>1, <2>2 DEF Chronos
<1>2. CASE event = "START_STOP_TIMER"
  <2>1. After(chrono, event) = [chrono EXCEPT !.running = ~@]
    BY <1>2 DEF After
  <2>. QED
    BY <2>1 DEF Chronos
<1>3. CASE event = "RESET_TIMER"
  <2>1. After(chrono, event) = [running |-> FALSE, seconds |-> 0]
    BY <1>3 DEF After
  <2>. QED
    BY <2>1 DEF Chronos
<1>. QED
  BY <1>1, <1>2, <1>3 DEF Events

LEMMA CourseIsTheSolution ==
  ASSUME NEW chrono, NEW events, Determined(chrono, events)
  PROVE  /\ IsCourse(Course(chrono, events), chrono, events)
         /\ Course(chrono, events) \in [0 .. Len(events) -> Chronos]
         /\ \A g : IsCourse(g, chrono, events) => g = Course(chrono, events)
<1>1. PICK f \in [0 .. Len(events) -> Chronos] :
        /\ IsCourse(f, chrono, events)
        /\ \A g : IsCourse(g, chrono, events) => g = f
  BY DEF Determined
<1>2. IsCourse(Course(chrono, events), chrono, events)
  BY <1>1, Zenon DEF Course, IsCourse
<1>. QED
  BY <1>1, <1>2

\* No event leaves the chronometer as it is.
LEMMA CourseOfNothing ==
  ASSUME NEW chrono \in Chronos
  PROVE  Determined(chrono, <<>>) /\ Course(chrono, <<>>)[0] = chrono
<1>. DEFINE f == [k \in {0} |-> chrono]
<1>1. 0 .. Len(<<>>) = {0}
  OBVIOUS
<1>2. f \in [0 .. Len(<<>>) -> Chronos]
  BY <1>1
<1>3. ASSUME NEW g
      PROVE  IsCourse(g, chrono, <<>>) <=> g = f
  <2>1. [k \in 0 .. Len(<<>>) |->
           IF k = 0 THEN chrono ELSE After(g[k-1], <<>>[k])] = f
    BY <1>1
  <2>. QED
    BY <2>1 DEF IsCourse
<1>4. Determined(chrono, <<>>)
  BY <1>2, <1>3 DEF Determined
<1>5. Course(chrono, <<>>) = f
  BY <1>3, <1>4, CourseIsTheSolution
<1>. QED
  BY <1>4, <1>5

IsFunctionOn(f, S) == f = [x \in S |-> f[x]]

\* What the equation says point by point.
LEMMA CoursePoints ==
  ASSUME NEW f, NEW chrono, NEW events \in Seq(Events)
  PROVE  IsCourse(f, chrono, events) <=>
           /\ IsFunctionOn(f, 0 .. Len(events))
           /\ f[0] = chrono
           /\ \A k \in 1 .. Len(events) : f[k] = After(f[k-1], events[k])
<1>. DEFINE e == [k \in 0 .. Len(events) |->
                    IF k = 0 THEN chrono ELSE After(f[k-1], events[k])]
<1>1. ASSUME IsCourse(f, chrono, events)
      PROVE  /\ f = [k \in 0 .. Len(events) |-> f[k]]
             /\ f[0] = chrono
             /\ \A k \in 1 .. Len(events) : f[k] = After(f[k-1], events[k])
  <2>1. f = e
    BY <1>1 DEF IsCourse
  <2>2. \A k \in 0 .. Len(events) : f[k] = e[k]
    BY <2>1
  <2>3. \A k \in 1 .. Len(events) : k \in 0 .. Len(events) /\ k # 0
    OBVIOUS
  <2>4. 0 \in 0 .. Len(events)
    OBVIOUS
  <2>5. f = [k \in 0 .. Len(events) |-> f[k]]
    <3>. HIDE DEF e
    <3>1. DOMAIN e = 0 .. Len(events) /\ e = [k \in DOMAIN e |-> e[k]]
      BY DEF e
    <3>. QED
      BY <2>1, <3>1
  <2>. QED
    BY <2>2, <2>3, <2>4, <2>5
<1>2. ASSUME f = [k \in 0 .. Len(events) |-> f[k]],
             f[0] = chrono,
             \A k \in 1 .. Len(events) : f[k] = After(f[k-1], events[k])
      PROVE  IsCourse(f, chrono, events)
  <2>1. \A k \in 0 .. Len(events) : k # 0 => k \in 1 .. Len(events)
    OBVIOUS
  <2>2. \A k \in 0 .. Len(events) : e[k] = f[k]
    BY <1>2, <2>1
  <2>. QED
    BY <1>2, <2>2 DEF IsCourse
<1>. QED
  BY <1>1, <1>2 DEF IsFunctionOn

\* One event more: the courses agree up to it.
LEMMA CourseOfAppend ==
  ASSUME NEW chrono \in Chronos, NEW s \in Seq(Events), NEW event \in Events,
         Determined(chrono, s)
  PROVE  /\ Determined(chrono, Append(s, event))
         /\ Course(chrono, Append(s, event))[Len(Append(s, event))] =
              After(Course(chrono, s)[Len(s)], event)
<1>. DEFINE n == Len(s)
            t == Append(s, event)
            c == Course(chrono, s)
            f == [k \in 0 .. n + 1 |->
                    IF k = n + 1 THEN After(c[n], event) ELSE c[k]]
<1>1. n \in Nat /\ t \in Seq(Events) /\ Len(t) = n + 1
  OBVIOUS
<1>2. (\A k \in 1 .. n : t[k] = s[k]) /\ t[n + 1] = event
  OBVIOUS
<1>3. /\ IsCourse(c, chrono, s)
      /\ c \in [0 .. n -> Chronos]
      /\ \A g : IsCourse(g, chrono, s) => g = c
  BY CourseIsTheSolution
<1>4. c[0] = chrono /\ \A k \in 1 .. n : c[k] = After(c[k-1], s[k])
  BY <1>3, CoursePoints
<1>. HIDE DEF n, t, c
<1>5. f \in [0 .. Len(t) -> Chronos]
  <2>1. c[n] \in Chronos
    BY <1>1, <1>3
  <2>2. After(c[n], event) \in Chronos
    BY <2>1, AfterType
  <2>3. \A k \in 0 .. n + 1 : k # n + 1 => k \in 0 .. n
    BY <1>1
  <2>. QED
    BY <1>1, <1>3, <2>2, <2>3
<1>6. IsCourse(f, chrono, t)
  <2>1. IsFunctionOn(f, 0 .. Len(t))
    BY <1>1 DEF IsFunctionOn
  <2>2. f[0] = chrono
    BY <1>1, <1>4
  <2>3. ASSUME NEW k \in 1 .. Len(t)
        PROVE  f[k] = After(f[k-1], t[k])
    <3>1. k - 1 \in 0 .. n /\ f[k-1] = c[k-1]
      BY <1>1
    <3>2. CASE k = n + 1
      <4>1. f[k] = After(c[n], event) /\ k - 1 = n
        BY <1>1, <3>2
      <4>. QED
        BY <1>2, <3>1, <3>2, <4>1
    <3>3. CASE k # n + 1
      <4>1. k \in 1 .. n /\ f[k] = c[k]
        BY <1>1, <3>3
      <4>. QED
        BY <1>2, <1>4, <3>1, <4>1
    <3>. QED
      BY <3>2, <3>3
  <2>. HIDE DEF f
  <2>. QED
    BY <1>1, <2>1, <2>2, <2>3, CoursePoints
<1>7. ASSUME NEW g, IsCourse(g, chrono, t)
      PROVE  g = f
  <2>. DEFINE h == [k \in 0 .. n |-> g[k]]
  <2>1. /\ g = [k \in 0 .. n + 1 |-> g[k]]
        /\ g[0] = chrono
        /\ \A k \in 1 .. n + 1 : g[k] = After(g[k-1], t[k])
    <3>. HIDE DEF f, h
    <3>1. /\ IsFunctionOn(g, 0 .. Len(t))
          /\ g[0] = chrono
          /\ \A k \in 1 .. Len(t) : g[k] = After(g[k-1], t[k])
      BY <1>1, <1>7, CoursePoints
    <3>. QED
      BY <1>1, <3>1 DEF IsFunctionOn
  <2>2. h = c
    <3>1. IsFunctionOn(h, 0 .. n)
      BY DEF IsFunctionOn
    <3>2. h[0] = chrono
      BY <1>1, <2>1
    <3>3. ASSUME NEW k \in 1 .. n
          PROVE  h[k] = After(h[k-1], s[k])
      <4>1. k \in 0 .. n /\ k - 1 \in 0 .. n /\ k \in 1 .. n + 1
        BY <1>1
      <4>2. h[k] = g[k] /\ h[k-1] = g[k-1]
        BY <4>1
      <4>. QED
        BY <1>2, <2>1, <4>1, <4>2
    <3>. HIDE DEF h
    <3>4. IsCourse(h, chrono, s)
      BY <3>1, <3>2, <3>3, CoursePoints DEF n
    <3>. QED
      BY <1>3, <3>4
  <2>3. \A k \in 0 .. n : g[k] = c[k]
    BY <2>2
  <2>4. g[n + 1] = After(c[n], event)
    <3>1. n + 1 \in 1 .. n + 1 /\ (n + 1) - 1 = n /\ n \in 0 .. n
      BY <1>1
    <3>. QED
      BY <1>2, <2>1, <2>3, <3>1
  <2>5. \A k \in 0 .. n + 1 : g[k] = f[k]
    BY <1>1, <2>3, <2>4
  <2>. QED
    BY <2>1, <2>5
<1>8. Determined(chrono, t)
  BY <1>5, <1>6, <1>7 DEF Determined
<1>9. Course(chrono, t) = f
  BY <1>6, <1>8, CourseIsTheSolution, <1>7
<1>10. f[n + 1] = After(c[n], event)
  BY <1>1
<1>. QED
  BY <1>1, <1>8, <1>9, <1>10 DEF n, t, c

\* One event less: what follows the first event is the course from there.
LEMMA CourseOfRest ==
  ASSUME NEW chrono \in Chronos, NEW event \in Events, NEW s \in Seq(Events),
         Determined(chrono, <<event>> \o s)
  PROVE  /\ Determined(After(chrono, event), s)
         /\ Course(After(chrono, event), s)[Len(s)] =
              Course(chrono, <<event>> \o s)[Len(<<event>> \o s)]
<1>. DEFINE n == Len(s)
            t == <<event>> \o s
            c == Course(chrono, t)
            next == After(chrono, event)
            f == [k \in 0 .. n |-> c[k + 1]]
<1>1. n \in Nat /\ t \in Seq(Events) /\ Len(t) = n + 1
  OBVIOUS
<1>2. t[1] = event /\ \A k \in 1 .. n : t[k + 1] = s[k]
  OBVIOUS
<1>3. /\ IsCourse(c, chrono, t)
      /\ c \in [0 .. n + 1 -> Chronos]
      /\ \A g : IsCourse(g, chrono, t) => g = c
  BY <1>1, CourseIsTheSolution
<1>4. c[0] = chrono /\ \A k \in 1 .. n + 1 : c[k] = After(c[k-1], t[k])
  <2>. HIDE DEF n, t, c, next, f
  <2>1. c[0] = chrono /\ \A k \in 1 .. Len(t) : c[k] = After(c[k-1], t[k])
    <3>1. IsCourse(c, chrono, t) /\ t \in Seq(Events)
      BY <1>1, <1>3
    <3>. QED
      BY <3>1, CoursePoints
  <2>. QED
    BY <1>1, <2>1
<1>. HIDE DEF n, t, c
<1>5. f \in [0 .. Len(s) -> Chronos]
  <2>1. \A k \in 0 .. n : k + 1 \in 0 .. n + 1
    BY <1>1
  <2>. QED
    BY <1>3, <2>1 DEF n
<1>6. c[1] = next
  <2>1. 1 \in 1 .. n + 1 /\ 1 - 1 = 0
    BY <1>1
  <2>. QED
    BY <1>2, <1>4, <2>1
<1>7. IsCourse(f, next, s)
  <2>1. IsFunctionOn(f, 0 .. Len(s))
    BY DEF n, IsFunctionOn
  <2>2. f[0] = next
    BY <1>1, <1>6
  <2>3. ASSUME NEW k \in 1 .. Len(s)
        PROVE  f[k] = After(f[k-1], s[k])
    <3>1. k \in 0 .. n /\ k - 1 \in 0 .. n /\ k + 1 \in 1 .. n + 1
      BY <1>1 DEF n
    <3>2. (k - 1) + 1 = k /\ (k + 1) - 1 = k
      OBVIOUS
    <3>3. f[k] = c[k + 1] /\ f[k-1] = c[k]
      BY <3>1, <3>2
    <3>4. c[k + 1] = After(c[k], t[k + 1])
      BY <1>4, <3>1, <3>2
    <3>. QED
      BY <1>2, <3>3, <3>4 DEF n
  <2>. HIDE DEF f, next
  <2>. QED
    BY <2>1, <2>2, <2>3, CoursePoints
<1>8. ASSUME NEW g, IsCourse(g, next, s)
      PROVE  g = f
  <2>. DEFINE h == [k \in 0 .. n + 1 |-> IF k = 0 THEN chrono ELSE g[k - 1]]
  <2>. HIDE DEF next
  <2>1. /\ g = [k \in 0 .. n |-> g[k]]
        /\ g[0] = next
        /\ \A k \in 1 .. n : g[k] = After(g[k-1], s[k])
    BY <1>8, CoursePoints DEF n, IsFunctionOn
  <2>2. h = c
    <3>1. IsFunctionOn(h, 0 .. Len(t))
      BY <1>1 DEF IsFunctionOn
    <3>2. h[0] = chrono
      BY <1>1
    <3>3. ASSUME NEW k \in 1 .. Len(t)
          PROVE  h[k] = After(h[k-1], t[k])
      <4>1. h[k] = g[k - 1]
        BY <1>1
      <4>2. CASE k = 1
        <5>1. h[k - 1] = chrono
          BY <1>1, <4>2
        <5>2. g[k - 1] = next
          BY <2>1, <4>2
        <5>. QED
          BY <1>2, <4>1, <4>2, <5>1, <5>2 DEF next
      <4>3. CASE k # 1
        <5>1. PICK j \in 1 .. n : k = j + 1
          BY <1>1, <4>3
        <5>2. k - 1 = j /\ j \in 0 .. n + 1 /\ j # 0
          BY <1>1, <5>1
        <5>3. h[j] = g[j - 1]
          BY <5>2
        <5>4. g[j] = After(g[j - 1], s[j]) /\ t[k] = s[j]
          BY <1>2, <2>1, <5>1
        <5>. QED
          BY <4>1, <5>2, <5>3, <5>4
      <4>. QED
        BY <4>2, <4>3
    <3>. HIDE DEF h
    <3>4. IsCourse(h, chrono, t)
      BY <1>1, <3>1, <3>2, <3>3, CoursePoints
    <3>. QED
      BY <1>3, <3>4
  <2>3. ASSUME NEW k \in 0 .. n
        PROVE  g[k] = f[k]
    <3>1. k + 1 \in 0 .. n + 1 /\ k + 1 # 0 /\ (k + 1) - 1 = k
      BY <1>1
    <3>2. h[k + 1] = g[k]
      BY <3>1
    <3>. HIDE DEF h
    <3>. QED
      BY <2>2, <3>2
  <2>. HIDE DEF f
  <2>4. f = [k \in 0 .. n |-> f[k]]
    BY DEF f
  <2>. QED
    BY <2>1, <2>3, <2>4
<1>9. Determined(next, s)
  BY <1>5, <1>7, <1>8 DEF Determined
<1>10. Course(next, s) = f
  <2>. HIDE DEF f, next
  <2>. QED
    BY <1>7, <1>9, CourseIsTheSolution
<1>11. f[n] = c[n + 1]
  BY <1>1
<1>. QED
  BY <1>1, <1>9, <1>10, <1>11 DEF n, t, c

-----------------------------------------------------------------------------
(* Every step of the chronometer is one of the stopwatch or none.          *)

\* The handler is not there before it is started.
HandlerAbsent == boot = "startHandler" => handlerPc = "absent"

WatchInv == TypeOK /\ HandlerAbsent /\ Determined(Shown, Pending)

LEMMA PendingType ==
  ASSUME TypeOK
  PROVE  Pending \in Seq(Events) /\ Shown \in Chronos
<1>1. CASE handlerPc = "handling"
  BY <1>1 DEF TypeOK, Pending, Shown, Chronos
<1>2. CASE handlerPc # "handling"
  BY <1>2 DEF TypeOK, Pending, Shown, Chronos
<1>. QED
  BY <1>1, <1>2

LEMMA OutcomeType ==
  ASSUME WatchInv
  PROVE  Outcome \in Chronos
<1>1. Course(Shown, Pending) \in [0 .. Len(Pending) -> Chronos]
  BY CourseIsTheSolution DEF WatchInv
<1>2. Len(Pending) \in 0 .. Len(Pending)
  BY PendingType DEF WatchInv
<1>. QED
  BY <1>1, <1>2 DEF Outcome

\* A step that leaves the events and the chronometer alone.
LEMMA NothingShown ==
  ASSUME WatchInv, UNCHANGED <<Pending, Shown>>
  PROVE  Determined(Shown', Pending') /\ Outcome' = Outcome
BY DEF WatchInv, Outcome

\* An event that is sent is applied at once, one that is lost never.
LEMMA SendIsApplied ==
  ASSUME WatchInv, NEW event \in Events, send_machine_state(event),
         UNCHANGED handlerVars
  PROVE  /\ Determined(Shown', Pending')
         /\ Outcome' \in {Outcome, After(Outcome, event)}
<1>1. Shown' = Shown
  BY DEF Shown, handlerVars
<1>2. CASE Len(queueOut) < QUEUE_LENGTH
  <2>1. Pending' = Append(Pending, event)
    <3>1. queueOut' = Append(queueOut, event) /\ queueOut \in Seq(Events)
          /\ status \in Events
      BY <1>2 DEF send_machine_state, WatchInv, TypeOK
    <3>2. CASE handlerPc = "handling"
      BY <3>1, <3>2 DEF Pending, handlerVars
    <3>3. CASE handlerPc # "handling"
      BY <3>1, <3>3 DEF Pending, handlerVars
    <3>. QED
      BY <3>2, <3>3
  <2>2. Pending \in Seq(Events) /\ Shown \in Chronos
    BY PendingType DEF WatchInv
  <2>3. /\ Determined(Shown, Append(Pending, event))
        /\ Course(Shown, Append(Pending, event))[Len(Append(Pending, event))]
             = After(Course(Shown, Pending)[Len(Pending)], event)
    BY <2>2, CourseOfAppend DEF WatchInv
  <2>. QED
    BY <1>1, <2>1, <2>3 DEF Outcome
<1>3. CASE ~(Len(queueOut) < QUEUE_LENGTH)
  <2>1. Pending' = Pending
    BY <1>3 DEF send_machine_state, Pending, handlerVars
  <2>. QED
    BY <1>1, <2>1, NothingShown
<1>. QED
  BY <1>2, <1>3

LEMMA ReceiveShowsNothing ==
  ASSUME WatchInv, Receive
  PROVE  Determined(Shown', Pending') /\ Outcome' = Outcome
<1>1. Shown' = Shown
  BY DEF Receive, Shown
<1>2. Pending' = Pending
  <2>1. queueOut \in Seq(Events) /\ queueOut # <<>>
    BY DEF Receive, WatchInv, TypeOK
  <2>2. <<Head(queueOut)>> \o Tail(queueOut) = queueOut
    BY <2>1
  <2>3. <<>> \o queueOut = queueOut
    BY <2>1
  <2>4. Pending = <<>> \o queueOut
    BY DEF Receive, Pending
  <2>5. Pending' = <<Head(queueOut)>> \o Tail(queueOut)
    BY DEF Receive, Pending
  <2>. QED
    BY <2>2, <2>3, <2>4, <2>5
<1>. QED
  BY <1>1, <1>2, NothingShown

\* Handling an event makes of the chronometer what its sending promised.
LEMMA HandledAsSent ==
  ASSUME WatchInv, HandleCount \/ HandleStartStop \/ HandleReset
  PROVE  Determined(Shown', Pending') /\ Outcome' = Outcome
<1>1. /\ Pending = <<status>> \o queueOut
      /\ status \in Events /\ queueOut \in Seq(Events)
  BY DEF HandleCount, HandleStartStop, HandleReset, Pending, WatchInv, TypeOK
<1>2. Pending' = queueOut
  <2>1. handlerPc' = "receiving" /\ queueOut' = queueOut
    BY DEF HandleCount, HandleStartStop, HandleReset
  <2>2. Pending' = <<>> \o queueOut
    BY <2>1 DEF Pending
  <2>. QED
    BY <1>1, <2>2
<1>3. Shown' = After(Shown, status)
  <2>1. CASE HandleCount
    BY <2>1 DEF HandleCount, Shown, After
  <2>2. CASE HandleStartStop
    BY <2>2 DEF HandleStartStop, Shown, After
  <2>3. CASE HandleReset
    BY <2>3 DEF HandleReset, Shown, After
  <2>. QED
    BY <2>1, <2>2, <2>3
<1>4. Shown \in Chronos
  BY PendingType DEF WatchInv
<1>5. /\ Determined(After(Shown, status), queueOut)
      /\ Course(After(Shown, status), queueOut)[Len(queueOut)] =
           Course(Shown, <<status>> \o queueOut)[Len(<<status>> \o queueOut)]
  BY <1>1, <1>4, CourseOfRest DEF WatchInv
<1>. QED
  BY <1>1, <1>2, <1>3, <1>5 DEF Outcome

\* What an event makes of the outcome is a step of the stopwatch or none.
LEMMA AppliedIsAStep ==
  ASSUME WatchInv, NEW event \in Events, Outcome' = After(Outcome, event)
  PROVE  [Watch!Next]_(Watch!stopwatchVars)
<1>1. Outcome \in Chronos
  BY OutcomeType
<1>2. CASE event = "COUNT_TIMER"
  <2>1. CASE Outcome.running
    <3>1. /\ Outcome'.running = Outcome.running
          /\ Outcome'.seconds = Incremented(Outcome.seconds)
      BY <1>1, <1>2, <2>1 DEF After, Chronos
    <3>. QED
      BY <2>1, <3>1 DEF Watch!Next, Watch!Second, Incremented
  <2>2. CASE ~Outcome.running
    <3>1. /\ Outcome'.running = Outcome.running
          /\ Outcome'.seconds = Outcome.seconds
      BY <1>1, <1>2, <2>2 DEF After, Chronos
    <3>. QED
      BY <3>1 DEF Watch!stopwatchVars
  <2>. QED
    BY <2>1, <2>2
<1>3. CASE event = "START_STOP_TIMER"
  <2>1. /\ Outcome'.running = ~Outcome.running
        /\ Outcome'.seconds = Outcome.seconds
    BY <1>1, <1>3 DEF After, Chronos
  <2>. QED
    BY <2>1 DEF Watch!Next, Watch!StartStop
<1>4. CASE event = "RESET_TIMER"
  <2>1. Outcome'.running = FALSE /\ Outcome'.seconds = 0
    BY <1>4 DEF After
  <2>. QED
    BY <2>1 DEF Watch!Next, Watch!Reset
<1>. QED
  BY <1>2, <1>3, <1>4 DEF Events

\* The step of one event that is sent, or lost.
LEMMA SendIsAStep ==
  ASSUME WatchInv, NEW event \in Events, send_machine_state(event),
         UNCHANGED handlerVars
  PROVE  /\ Determined(Shown', Pending')
         /\ [Watch!Next]_(Watch!stopwatchVars)
<1>1. Outcome' = Outcome => [Watch!Next]_(Watch!stopwatchVars)
  BY DEF Watch!stopwatchVars
<1>. QED
  BY <1>1, SendIsApplied, AppliedIsAStep

LEMMA QuietStep ==
  ASSUME WatchInv, UNCHANGED <<handlerVars, queueOut>>
  PROVE  /\ Determined(Shown', Pending')
         /\ [Watch!Next]_(Watch!stopwatchVars)
<1>1. UNCHANGED <<Pending, Shown>>
  BY DEF Pending, Shown, handlerVars
<1>2. Determined(Shown', Pending') /\ Outcome' = Outcome
  BY <1>1, NothingShown
<1>. QED
  BY <1>2 DEF Watch!stopwatchVars

LEMMA NextIsAStep ==
  ASSUME WatchInv, [Next]_vars
  PROVE  /\ Determined(Shown', Pending')
         /\ [Watch!Next]_(Watch!stopwatchVars)
<1>1. CASE StartHandler
  <2>1. UNCHANGED <<Pending, Shown>>
    <3>1. handlerPc # "handling" /\ handlerPc' # "handling"
      BY <1>1 DEF StartHandler, WatchInv, HandlerAbsent
    <3>. QED
      BY <1>1, <3>1 DEF StartHandler, Pending, Shown
  <2>2. Determined(Shown', Pending') /\ Outcome' = Outcome
    BY <2>1, NothingShown
  <2>. QED
    BY <2>2 DEF Watch!stopwatchVars
<1>2. CASE StartTouch \/ StartSensor \/ CreateChrono \/ StartChrono
  <2>1. UNCHANGED <<handlerVars, queueOut>>
    BY <1>2 DEF StartTouch, StartSensor, CreateChrono, StartChrono
  <2>. QED
    BY <2>1, QuietStep
<1>3. CASE Touch \/ PadInterrupt \/ ClearPad \/ ChronoExpires \/ SensorExpires
  <2>1. UNCHANGED <<handlerVars, queueOut>>
    BY <1>3 DEF Touch, PadInterrupt, ClearPad, ChronoExpires, SensorExpires
  <2>. QED
    BY <2>1, QuietStep
<1>4. CASE CheckPad
  <2>1. CASE padActivated
    BY <1>4, <2>1, SendIsAStep DEF CheckPad, Events
  <2>2. CASE ~padActivated
    <3>1. UNCHANGED <<handlerVars, queueOut>>
      BY <1>4, <2>2 DEF CheckPad
    <3>. QED
      BY <3>1, QuietStep
  <2>. QED
    BY <2>1, <2>2
<1>5. CASE chronometer_timer_callback
  BY <1>5, SendIsAStep DEF chronometer_timer_callback, Events
<1>6. CASE sensor_hall_timer_callback
  <2>1. PICK value \in Readings :
          IF value <= SENSOR_HALL_THRESHOLD
            THEN send_machine_state("RESET_TIMER") ELSE UNCHANGED queueOut
    BY <1>6 DEF sensor_hall_timer_callback
  <2>2. UNCHANGED handlerVars
    BY <1>6 DEF sensor_hall_timer_callback
  <2>3. CASE value <= SENSOR_HALL_THRESHOLD
    BY <2>1, <2>2, <2>3, SendIsAStep DEF Events
  <2>4. CASE ~(value <= SENSOR_HALL_THRESHOLD)
    <3>1. UNCHANGED <<handlerVars, queueOut>>
      BY <2>1, <2>2, <2>4
    <3>. QED
      BY <3>1, QuietStep
  <2>. QED
    BY <2>3, <2>4
<1>7. CASE Handler
  <2>1. Determined(Shown', Pending') /\ Outcome' = Outcome
    BY <1>7, ReceiveShowsNothing, HandledAsSent DEF Handler
  <2>. QED
    BY <2>1 DEF Watch!stopwatchVars
<1>8. CASE UNCHANGED vars
  <2>1. UNCHANGED <<handlerVars, queueOut>>
    BY <1>8 DEF vars
  <2>. QED
    BY <2>1, QuietStep
<1>. QED
  BY <1>1, <1>2, <1>3, <1>4, <1>5, <1>6, <1>7, <1>8
  DEF Next, AppMain, TouchPad, TimerTask

LEMMA HandlerAbsentKept == HandlerAbsent /\ [Next]_vars => HandlerAbsent'
<1>. SUFFICES ASSUME HandlerAbsent, [Next]_vars PROVE HandlerAbsent'
  OBVIOUS
<1>1. CASE AppMain
  BY <1>1 DEF AppMain, StartHandler, StartTouch, StartSensor, CreateChrono,
              StartChrono, HandlerAbsent
<1>2. CASE TouchPad
  BY <1>2 DEF TouchPad, Touch, PadInterrupt, CheckPad, ClearPad, HandlerAbsent,
              handlerVars
<1>3. CASE TimerTask
  BY <1>3 DEF TimerTask, ChronoExpires, SensorExpires,
              chronometer_timer_callback, sensor_hall_timer_callback,
              HandlerAbsent, handlerVars
<1>4. CASE Handler
  BY <1>4 DEF Handler, Receive, HandleCount, HandleStartStop, HandleReset,
              HandlerAbsent
<1>5. CASE UNCHANGED vars
  BY <1>5 DEF vars, handlerVars, HandlerAbsent
<1>. QED
  BY <1>1, <1>2, <1>3, <1>4, <1>5 DEF Next

\* Queue and handler implement a stopwatch to which an event is applied at the
\* moment it is sent, or never when it is lost: no event overtakes another, and
\* no second that was sent before a Reset is counted after it.  One that was due
\* before and is sent after a new start is.
THEOREM QueueAndHandlerAreAStopwatch == Spec => ImplementsStopwatch
<1>1. Init => HandlerAbsent /\ Determined(Shown, Pending) /\ Watch!Init
  <2>. SUFFICES ASSUME Init
                PROVE  HandlerAbsent /\ Determined(Shown, Pending) /\ Watch!Init
    OBVIOUS
  <2>1. Shown = [running |-> TRUE, seconds |-> 0] /\ Shown \in Chronos
    BY DEF Init, Shown, Chronos
  <2>2. Pending = <<>>
    BY DEF Init, Pending
  <2>3. Determined(Shown, Pending) /\ Outcome = Shown
    BY <2>1, <2>2, CourseOfNothing DEF Outcome
  <2>. QED
    BY <2>1, <2>3 DEF Init, HandlerAbsent, Watch!Init
<1>2. WatchInv /\ [Next]_vars =>
        /\ HandlerAbsent'
        /\ Determined(Shown, Pending)'
        /\ [Watch!Next]_(Watch!stopwatchVars)
  BY NextIsAStep, HandlerAbsentKept DEF WatchInv
<1>3. TypeOK /\ HandlerAbsent /\ Determined(Shown, Pending) <=> WatchInv
  BY DEF WatchInv
<1>. QED
  BY <1>1, <1>2, <1>3, TypeCorrect, PTL
  DEF Spec, ImplementsStopwatch, Watch!Spec

=============================================================================
