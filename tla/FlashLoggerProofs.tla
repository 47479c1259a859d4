------------------------- MODULE FlashLoggerProofs -------------------------
(***************************************************************************)
(* The logger for any length of the queue, any periods and lengths of a    *)
(* reading, and any bounds: types, the order of the log whatever fails,    *)
(* and, in a run without failures, of which sample a line is and that a    *)
(* reading is whole.                                                       *)
(***************************************************************************)
EXTENDS FlashLogger, QueueSetProofs

USE LengthsAssumption, BoundsAssumption DEF Events, Timers, Tasks

-----------------------------------------------------------------------------
(* Types.                                                                  *)

Redirections == [at : {"outside", "clear", "open", "write"}, mode : {"wb", "a"},
                 line : Lines, base : Seq(Lines)]

LEMMA OutsideType ==
  /\ Outside \in Redirections /\ Outside.at = "outside" /\ Outside.base = <<>>
BY DEF Outside, Redirections, Lines

LEMMA InitialTypes == Init => TypeOK
<1>. SUFFICES ASSUME Init PROVE TypeOK
  OBVIOUS
<1>1. redirect \in [Tasks -> Redirections]
  BY OutsideType DEF Init
<1>2. queueOut \in Seq(Events) /\ Len(queueOut) <= QUEUE_LENGTH
      /\ file \in Seq(Lines)
  BY DEF Init
<1>3. due \in 0 .. SENSORS_PER_READ /\ value_sensor \in 0 .. MaxSamples
      /\ shown \in 0 .. NUM_LOGS_READ /\ run \in 1 .. MaxRuns
  BY DEF Init
<1>. QED
  BY <1>1, <1>2, <1>3 DEF Init, TypeOK, Redirections

LEMMA RestartTypes == TypeOK /\ Restart => TypeOK'
<1>. SUFFICES ASSUME TypeOK, Restart PROVE TypeOK'
  OBVIOUS
<1>1. redirect' \in [Tasks -> Redirections]
  BY OutsideType DEF Restart
<1>2. queueOut' \in Seq(Events) /\ Len(queueOut') <= QUEUE_LENGTH
      /\ file' \in Seq(Lines)
  BY DEF Restart, TypeOK
<1>3. due' \in 0 .. SENSORS_PER_READ /\ value_sensor' \in 0 .. MaxSamples
      /\ shown' \in 0 .. NUM_LOGS_READ /\ run' \in 1 .. MaxRuns
  BY DEF Restart, TypeOK
<1>. QED
  BY <1>1, <1>2, <1>3 DEF Restart, TypeOK, Redirections

\* A task enters redirect_log with a line of this run.
LEMMA EnterTypes ==
  ASSUME TypeOK, NEW task \in Tasks, NEW value \in 0 .. MaxSamples,
         Enter(task, value)
  PROVE  redirect' \in [Tasks -> Redirections]
<1>. DEFINE entry == [at   |-> IF is_first_time THEN "clear" ELSE "open",
                      mode |-> IF is_first_time THEN "wb" ELSE "a",
                      line |-> [run |-> run, value |-> value],
                      base |-> <<>>]
<1>1. [run |-> run, value |-> value] \in Lines
  BY DEF TypeOK, Lines
<1>2. entry \in Redirections
  BY <1>1 DEF Redirections
<1>. HIDE DEF entry
<1>3. redirect' = [redirect EXCEPT ![task] = entry]
  BY DEF Enter, entry
<1>. QED
  BY <1>2, <1>3 DEF TypeOK, Redirections

LEMMA RedirectLogTypes ==
  ASSUME TypeOK, NEW task \in Tasks, RedirectLog(task)
  PROVE  TypeOK'
<1>0. /\ redirect \in [Tasks -> Redirections] /\ file \in Seq(Lines)
      /\ redirect[task] \in Redirections
  BY DEF TypeOK, Redirections
<1>1. /\ UNCHANGED <<boot, run, queueOut, armed, due, dispatching, handlerPc,
                     mounted, shown, value_sensor>>
      /\ is_first_time' \in BOOLEAN /\ disturbed' \in BOOLEAN
  BY DEF RedirectLog, ClearFirstTime, OpenLog, OpenFails, WriteLog, Cleared,
     programVars, timerVars, handlerVars, TypeOK
<1>2. redirect' \in [Tasks -> Redirections] /\ file' \in Seq(Lines)
  <2>1. CASE ClearFirstTime(task)
    BY <1>0, <2>1 DEF ClearFirstTime, Redirections
  <2>2. CASE OpenLog(task)
    <3>1. file' \in Seq(Lines)
      BY <1>0, <2>2 DEF OpenLog, Opened
    <3>. QED
      BY <1>0, <2>2, <3>1 DEF OpenLog, Redirections
  <2>3. CASE OpenFails(task)
    BY <1>0, <2>3, OutsideType DEF OpenFails
  <2>4. CASE WriteLog(task)
    <3>1. file' \in Seq(Lines)
      <4>1. redirect[task].base \in Seq(Lines) /\ redirect[task].line \in Lines
        BY <1>0 DEF Redirections
      <4>2. Append(redirect[task].base, redirect[task].line) \in Seq(Lines)
        BY <4>1, AppendProperties
      <4>3. \/ file' = Append(redirect[task].base, redirect[task].line)
            \/ file' = redirect[task].base
        BY <2>4 DEF WriteLog, Written
      <4>. QED
        BY <4>1, <4>2, <4>3
    <3>. QED
      BY <1>0, <2>4, <3>1, OutsideType DEF WriteLog
  <2>. QED
    BY <2>1, <2>2, <2>3, <2>4 DEF RedirectLog
<1>. QED
  BY <1>1, <1>2 DEF TypeOK, Redirections

LEMMA AppMainTypes == TypeOK /\ AppMain => TypeOK'
BY DEF TypeOK, AppMain, StartHandler, StartTimers, timerVars, handlerVars,
   logVars

LEMMA TimerTypes == TypeOK /\ TimerTask => TypeOK'
<1>. SUFFICES ASSUME TypeOK, TimerTask PROVE TypeOK'
  OBVIOUS
<1>1. CASE SensorExpires
  <2>1. due' \in 0 .. SENSORS_PER_READ /\ value_sensor' \in 0 .. MaxSamples
    BY <1>1 DEF SensorExpires, TypeOK
  <2>. QED
    BY <1>1, <2>1 DEF SensorExpires, TypeOK, handlerVars, logVars
<1>2. CASE ReaderExpires
  <2>1. due' \in 0 .. SENSORS_PER_READ
    BY <1>2 DEF ReaderExpires
  <2>. QED
    BY <1>2, <2>1 DEF ReaderExpires, TypeOK, handlerVars, logVars
<1>3. CASE SendEvent
  <2>1. queueOut' \in Seq(Events) /\ Len(queueOut') <= QUEUE_LENGTH
    <3>1. dispatching \in Events /\ queueOut \in Seq(Events)
      BY <1>3 DEF SendEvent, TypeOK
    <3>2. /\ Append(queueOut, dispatching) \in Seq(Events)
          /\ Len(Append(queueOut, dispatching)) = Len(queueOut) + 1
          /\ Len(queueOut) \in Nat
      BY <3>1, AppendProperties, LenProperties
    <3>3. CASE Len(queueOut) < QUEUE_LENGTH
      BY <1>3, <3>2, <3>3 DEF SendEvent, HasRoom
    <3>4. CASE ~(Len(queueOut) < QUEUE_LENGTH)
      BY <1>3, <3>4 DEF SendEvent, HasRoom, TypeOK
    <3>. QED
      BY <3>3, <3>4
  <2>2. redirect' \in [Tasks -> Redirections]
    <3>1. \/ redirect' = redirect
          \/ Enter("timer", 0)
      BY <1>3 DEF SendEvent
    <3>. QED
      BY <3>1, EnterTypes DEF TypeOK, Redirections
  <2>. QED
    BY <1>3, <2>1, <2>2 DEF SendEvent, TypeOK, Redirections, handlerVars
<1>4. CASE RedirectLog("timer")
  BY <1>4, RedirectLogTypes
<1>. QED
  BY <1>1, <1>2, <1>3, <1>4 DEF TimerTask

LEMMA HandlerTypes == TypeOK /\ Handler => TypeOK'
<1>. SUFFICES ASSUME TypeOK, Handler PROVE TypeOK'
  OBVIOUS
<1>1. CASE Mount
  <2>1. file' \in Seq(Lines)
    <3>1. file' = file \/ file' = <<>>
      BY <1>1 DEF Mount
    <3>2. <<>> \in Seq(Lines) /\ file \in Seq(Lines)
      BY EmptySeq DEF TypeOK
    <3>. QED
      BY <3>1, <3>2
  <2>. QED
    BY <1>1, <2>1 DEF Mount, TypeOK, timerVars
<1>2. CASE Receive
  <2>1. /\ Head(queueOut) \in Events /\ Tail(queueOut) \in Seq(Events)
        /\ Len(Tail(queueOut)) = Len(queueOut) - 1 /\ Len(queueOut) \in Nat
    BY <1>2, HeadTailProperties, LenProperties DEF Receive, TypeOK
  <2>. QED
    BY <1>2, <2>1 DEF Receive, TypeOK, timerVars, logVars
<1>3. CASE HandleWrite
  <2>1. redirect' \in [Tasks -> Redirections]
    BY <1>3, EnterTypes DEF HandleWrite, TypeOK
  <2>. QED
    BY <1>3, <2>1 DEF HandleWrite, TypeOK, Redirections, timerVars
<1>4. CASE HandleRead
  <2>1. shown' \in 0 .. NUM_LOGS_READ
    <3>1. Len(file) \in Nat
      BY LenProperties DEF TypeOK
    <3>. QED
      BY <1>4, <3>1 DEF HandleRead, FirstLines
  <2>. QED
    BY <1>4, <2>1 DEF HandleRead, TypeOK, logVars
<1>5. CASE ReadFails
  BY <1>5, RestartTypes DEF ReadFails
<1>6. CASE RedirectLog("handler")
  BY <1>6, RedirectLogTypes
<1>. QED
  BY <1>1, <1>2, <1>3, <1>4, <1>5, <1>6 DEF Handler

LEMMA TypesPreserved == TypeOK /\ [Next]_vars => TypeOK'
<1>1. TypeOK /\ UNCHANGED vars => TypeOK'
  BY DEF TypeOK, vars, programVars, timerVars, handlerVars, logVars
<1>. QED
  BY <1>1, AppMainTypes, TimerTypes, HandlerTypes, RestartTypes DEF Next

\* The types, and the queue that is never overrun.
THEOREM TypeCorrect == Spec => []TypeOK
BY InitialTypes, TypesPreserved, PTL DEF Spec

-----------------------------------------------------------------------------
(* The order of the log, whatever fails.  A task writes on top of what the *)
(* file was when it opened it, so the order has to hold of these copies    *)
(* too; and the line the handler brings has to be newer than what is in    *)
(* any of them, for it may be the timer's copy that the file becomes       *)
(* before the handler opens it.                                            *)

Now == [run |-> run, value |-> value_sensor]

\* Every value in lines is older than line.
AllOlder(lines, line) ==
  \A k \in 1 .. Len(lines) : lines[k].value # 0 => Older(lines[k], line)

\* lines may become the file, at a moment now, while the handler is at log.
Fits(lines, now, log) ==
  /\ Ordered(lines) /\ AllOlder(lines, now)
  /\ log.at # "outside" => AllOlder(lines, log.line)

\* The timer task brings error messages only, the handler a value of the past.
LogOrderInv ==
  /\ Fits(file, Now, redirect["handler"])
  /\ \A task \in Tasks : Fits(redirect[task].base, Now, redirect["handler"])
  /\ redirect["timer"].at # "outside" => redirect["timer"].line.value = 0
  /\ redirect["handler"].at # "outside" => Older(redirect["handler"].line, Now)

LEMMA OlderIsTransitive ==
  ASSUME NEW a \in Lines, NEW b \in Lines, NEW c \in Lines,
         Older(a, b), Older(b, c)
  PROVE  Older(a, c)
BY DEF Older, Lines

LEMMA OlderThanLater ==
  ASSUME NEW lines \in Seq(Lines), NEW a \in Lines, NEW b \in Lines,
         AllOlder(lines, a), Older(a, b)
  PROVE  AllOlder(lines, b)
<1>. SUFFICES ASSUME NEW k \in 1 .. Len(lines), lines[k].value # 0
              PROVE  Older(lines[k], b)
  BY DEF AllOlder
<1>1. lines[k] \in Lines
  BY ElementOfSeq
<1>2. Older(lines[k], a)
  BY DEF AllOlder
<1>. QED
  BY <1>1, <1>2, OlderIsTransitive

\* An empty file fits.
LEMMA EmptyFits ==
  ASSUME NEW now, NEW log
  PROVE  Fits(<<>>, now, log)
<1>1. Len(<<>>) = 0
  OBVIOUS
<1>. QED
  BY <1>1 DEF Fits, Ordered, AllOlder

LEMMA AllOlderAppend ==
  ASSUME NEW lines \in Seq(Lines), NEW line \in Lines, NEW other,
         AllOlder(lines, other), line.value = 0 \/ Older(line, other)
  PROVE  AllOlder(Append(lines, line), other)
<1>1. /\ Len(Append(lines, line)) = Len(lines) + 1 /\ Len(lines) \in Nat
      /\ \A k \in 1 .. Len(lines) : Append(lines, line)[k] = lines[k]
      /\ Append(lines, line)[Len(lines) + 1] = line
  BY AppendProperties, LenProperties
<1>. SUFFICES ASSUME NEW k \in 1 .. Len(Append(lines, line)),
                     Append(lines, line)[k].value # 0
              PROVE  Older(Append(lines, line)[k], other)
  BY DEF AllOlder
<1>2. CASE k \in 1 .. Len(lines)
  BY <1>1, <1>2 DEF AllOlder
<1>3. CASE k = Len(lines) + 1
  BY <1>1, <1>3
<1>. QED
  BY <1>1, <1>2, <1>3

\* A line that is newer than the others goes at their end.
LEMMA OrderedAppend ==
  ASSUME NEW lines \in Seq(Lines), NEW line \in Lines,
         Ordered(lines), line.value = 0 \/ AllOlder(lines, line)
  PROVE  Ordered(Append(lines, line))
<1>1. /\ Len(Append(lines, line)) = Len(lines) + 1 /\ Len(lines) \in Nat
      /\ \A k \in 1 .. Len(lines) : Append(lines, line)[k] = lines[k]
      /\ Append(lines, line)[Len(lines) + 1] = line
  BY AppendProperties, LenProperties
<1>. SUFFICES ASSUME NEW j \in 1 .. Len(Append(lines, line)),
                     NEW k \in 1 .. Len(Append(lines, line)), j < k,
                     Append(lines, line)[j].value # 0,
                     Append(lines, line)[k].value # 0
              PROVE  Older(Append(lines, line)[j], Append(lines, line)[k])
  BY DEF Ordered
<1>2. j \in 1 .. Len(lines) /\ Append(lines, line)[j] = lines[j]
  BY <1>1
<1>3. CASE k \in 1 .. Len(lines)
  BY <1>1, <1>2, <1>3 DEF Ordered
<1>4. CASE k = Len(lines) + 1
  BY <1>1, <1>2, <1>4 DEF AllOlder
<1>. QED
  BY <1>1, <1>3, <1>4

\* Types of what the order is about.
LEMMA LogTypes ==
  ASSUME TypeOK
  PROVE  /\ Now \in Lines /\ file \in Seq(Lines)
         /\ redirect \in [Tasks -> Redirections]
         /\ \A task \in Tasks : /\ redirect[task].line \in Lines
                                /\ redirect[task].base \in Seq(Lines)
<1>1. Now \in Lines
  BY DEF TypeOK, Now, Lines
<1>2. redirect \in [Tasks -> Redirections] /\ file \in Seq(Lines)
  BY DEF TypeOK, Redirections
<1>. QED
  BY <1>1, <1>2 DEF Redirections

LEMMA InitialOrder == Init => LogOrderInv
<1>. SUFFICES ASSUME Init PROVE LogOrderInv
  OBVIOUS
<1>1. /\ file = <<>>
      /\ \A task \in Tasks : /\ redirect[task].at = "outside"
                             /\ redirect[task].base = <<>>
  BY OutsideType DEF Init
<1>. QED
  BY <1>1, EmptyFits DEF LogOrderInv

\* Only the run number grows, and nothing is on its way to the file.
LEMMA RestartOrder == TypeOK /\ LogOrderInv /\ Restart => LogOrderInv'
<1>. SUFFICES ASSUME TypeOK, LogOrderInv, Restart PROVE LogOrderInv'
  OBVIOUS
<1>1. \A task \in Tasks : /\ redirect'[task].at = "outside"
                          /\ redirect'[task].base = <<>>
  BY OutsideType DEF Restart
<1>2. Now \in Lines /\ Now' \in Lines /\ file \in Seq(Lines)
  BY LogTypes, RestartTypes DEF Restart, TypeOK, Now, Lines
<1>3. Older(Now, Now')
  BY DEF Restart, TypeOK, Older, Now
<1>4. file' = file /\ AllOlder(file, Now') /\ Ordered(file)
  BY <1>2, <1>3, OlderThanLater DEF Restart, LogOrderInv, Fits
<1>5. Fits(file', Now', redirect'["handler"])
  BY <1>1, <1>4 DEF Fits
<1>. QED
  BY <1>1, <1>5, EmptyFits DEF LogOrderInv

\* A task that neither samples, opens nor writes.
LEMMA OrderKept ==
  ASSUME TypeOK, LogOrderInv, UNCHANGED <<run, value_sensor>>,
         file' = file \/ file' = <<>>,
         \A task \in Tasks :
           /\ redirect'[task].base \in {redirect[task].base, file', <<>>}
           /\ redirect'[task].at # "outside" =>
                redirect[task].at # "outside"
                  /\ redirect'[task].line = redirect[task].line
  PROVE  LogOrderInv'
<1>1. Now' = Now
  BY DEF Now
<1>2. ASSUME NEW lines, Fits(lines, Now, redirect["handler"])
      PROVE  Fits(lines, Now', redirect'["handler"])
  BY <1>1, <1>2 DEF Fits
<1>3. Fits(file', Now', redirect'["handler"])
  BY <1>2, EmptyFits DEF LogOrderInv
<1>4. \A task \in Tasks : Fits(redirect'[task].base, Now', redirect'["handler"])
  BY <1>2, <1>3, EmptyFits DEF LogOrderInv
<1>. QED
  BY <1>1, <1>3, <1>4 DEF LogOrderInv

LEMMA RedirectOrder ==
  ASSUME TypeOK, LogOrderInv, NEW task \in Tasks, RedirectLog(task)
  PROVE  LogOrderInv'
<1>0. /\ redirect \in [Tasks -> Redirections] /\ Now \in Lines
      /\ \A t \in Tasks : /\ redirect[t].line \in Lines
                          /\ redirect[t].base \in Seq(Lines)
  BY LogTypes
<1>1. UNCHANGED <<run, value_sensor>>
  BY DEF RedirectLog, ClearFirstTime, OpenLog, OpenFails, WriteLog, programVars
<1>2. CASE ClearFirstTime(task)
  <2>1. \A t \in Tasks : /\ redirect'[t].base = redirect[t].base
                         /\ redirect'[t].line = redirect[t].line
                         /\ t # task => redirect'[t] = redirect[t]
    BY <1>0, <1>2 DEF ClearFirstTime, Redirections
  <2>2. redirect[task].at = "clear" /\ file' = file
    BY <1>2 DEF ClearFirstTime
  <2>. QED
    BY <1>1, <2>1, <2>2, OrderKept
<1>3. CASE OpenLog(task)
  <2>1. \A t \in Tasks : /\ redirect'[t].base \in {redirect[t].base, file'}
                         /\ redirect'[t].line = redirect[t].line
                         /\ t # task => redirect'[t] = redirect[t]
    BY <1>0, <1>3 DEF OpenLog, Redirections
  <2>2. redirect[task].at = "open" /\ (file' = file \/ file' = <<>>)
    BY <1>3 DEF OpenLog, Opened
  <2>. QED
    BY <1>1, <2>1, <2>2, OrderKept
<1>4. CASE OpenFails(task)
  <2>1. \A t \in Tasks : t # task => redirect'[t] = redirect[t]
    BY <1>0, <1>4 DEF OpenFails
  <2>2. /\ redirect'[task].base = <<>> /\ redirect'[task].at = "outside"
        /\ file' = file
    BY <1>0, <1>4, OutsideType DEF OpenFails
  <2>. QED
    BY <1>1, <2>1, <2>2, OrderKept
<1>5. CASE WriteLog(task)
  <2>. DEFINE log == redirect[task]
              handler == redirect["handler"]
  <2>1. \A t \in Tasks : t # task => redirect'[t] = redirect[t]
    BY <1>0, <1>5 DEF WriteLog
  <2>2. redirect'[task].base = <<>> /\ redirect'[task].at = "outside"
    BY <1>0, <1>5, OutsideType DEF WriteLog
  <2>3. log.at = "write"
        /\ (file' = Append(log.base, log.line) \/ file' = log.base)
    BY <1>5 DEF WriteLog, Written
  <2>4. Now' = Now
    BY <1>1 DEF Now
  <2>5. Fits(log.base, Now, handler) /\ log.base \in Seq(Lines)
        /\ log.line \in Lines
    BY <1>0 DEF LogOrderInv
  <2>6. /\ log.line.value = 0 \/ AllOlder(log.base, log.line)
        /\ log.line.value = 0 \/ Older(log.line, Now)
        /\ task # "handler" => log.line.value = 0
    BY <2>3, <2>5 DEF LogOrderInv, Fits
  <2>. HIDE DEF log
  <2>7. Ordered(Append(log.base, log.line))
    BY <2>5, <2>6, OrderedAppend DEF Fits
  <2>8. AllOlder(Append(log.base, log.line), Now)
    BY <2>5, <2>6, AllOlderAppend DEF Fits
  <2>9. task # "handler" /\ handler.at # "outside" =>
          AllOlder(Append(log.base, log.line), handler.line)
    BY <2>5, <2>6, AllOlderAppend DEF Fits
  <2>10. Fits(file', Now', redirect'["handler"])
    BY <2>1, <2>2, <2>3, <2>4, <2>5, <2>7, <2>8, <2>9 DEF Fits
  <2>11. ASSUME NEW lines, Fits(lines, Now, handler)
         PROVE  Fits(lines, Now', redirect'["handler"])
    BY <2>1, <2>2, <2>4, <2>11 DEF Fits
  <2>12. ASSUME NEW t \in Tasks
         PROVE  Fits(redirect'[t].base, Now', redirect'["handler"])
    BY <2>1, <2>2, <2>11, EmptyFits DEF LogOrderInv
  <2>. QED
    BY <2>1, <2>2, <2>4, <2>10, <2>12 DEF LogOrderInv
<1>. QED
  BY <1>2, <1>3, <1>4, <1>5 DEF RedirectLog

LEMMA TimerOrder == TypeOK /\ LogOrderInv /\ TimerTask => LogOrderInv'
<1>. SUFFICES ASSUME TypeOK, LogOrderInv, TimerTask PROVE LogOrderInv'
  OBVIOUS
<1>0. /\ redirect \in [Tasks -> Redirections] /\ Now \in Lines
      /\ file \in Seq(Lines)
      /\ \A t \in Tasks : /\ redirect[t].line \in Lines
                          /\ redirect[t].base \in Seq(Lines)
  BY LogTypes
<1>1. CASE SensorExpires
  <2>1. UNCHANGED <<redirect, file, run>>
    BY <1>1 DEF SensorExpires, logVars
  <2>2. Now' \in Lines /\ Older(Now, Now')
    BY <1>1, <2>1 DEF SensorExpires, TypeOK, Now, Lines, Older
  <2>3. ASSUME NEW lines \in Seq(Lines), Fits(lines, Now, redirect["handler"])
        PROVE  Fits(lines, Now', redirect["handler"])
    BY <1>0, <2>2, <2>3, OlderThanLater DEF Fits
  <2>4. redirect["handler"].at # "outside" =>
          Older(redirect["handler"].line, Now')
    BY <1>0, <2>2, OlderIsTransitive DEF LogOrderInv
  <2>. QED
    BY <1>0, <2>1, <2>3, <2>4 DEF LogOrderInv
<1>2. CASE ReaderExpires
  BY <1>2, OrderKept DEF ReaderExpires, logVars
<1>3. CASE SendEvent
  <2>1. UNCHANGED <<run, value_sensor, file>>
    BY <1>3 DEF SendEvent
  <2>2. CASE redirect' = redirect
    BY <2>1, <2>2, OrderKept
  <2>3. CASE Enter("timer", 0)
    <3>1. redirect'["handler"] = redirect["handler"]
      BY <1>0, <2>3 DEF Enter
    <3>2. redirect'["timer"].base = <<>> /\ redirect'["timer"].line.value = 0
      BY <1>0, <2>3 DEF Enter
    <3>3. Now' = Now
      BY <2>1 DEF Now
    <3>. QED
      BY <2>1, <3>1, <3>2, <3>3, EmptyFits DEF LogOrderInv
  <2>. QED
    BY <1>3, <2>2, <2>3 DEF SendEvent
<1>4. CASE RedirectLog("timer")
  BY <1>4, RedirectOrder
<1>. QED
  BY <1>1, <1>2, <1>3, <1>4 DEF TimerTask

LEMMA HandlerOrder == TypeOK /\ LogOrderInv /\ Handler => LogOrderInv'
<1>. SUFFICES ASSUME TypeOK, LogOrderInv, Handler PROVE LogOrderInv'
  OBVIOUS
<1>0. redirect \in [Tasks -> Redirections] /\ Now \in Lines
  BY LogTypes
<1>1. CASE Mount \/ Receive \/ HandleRead
  <2>1. UNCHANGED <<run, value_sensor, redirect>>
        /\ (file' = file \/ file' = <<>>)
    BY <1>1 DEF Mount, Receive, HandleRead, logVars
  <2>. QED
    BY <2>1, OrderKept
<1>2. CASE HandleWrite
  <2>1. UNCHANGED <<run, value_sensor, file>>
    BY <1>2 DEF HandleWrite
  <2>2. redirect'["timer"] = redirect["timer"]
    BY <1>0, <1>2 DEF HandleWrite, Enter
  <2>3. /\ redirect'["handler"].base = <<>>
        /\ redirect'["handler"].line = Now
    BY <1>0, <1>2 DEF HandleWrite, Enter, Now
  <2>4. Now' = Now
    BY <2>1 DEF Now
  <2>5. Older(Now, Now)
    BY DEF Older, Now, TypeOK
  <2>6. ASSUME NEW lines, Fits(lines, Now, redirect["handler"])
        PROVE  Fits(lines, Now', redirect'["handler"])
    BY <2>3, <2>4, <2>6 DEF Fits
  <2>7. Fits(<<>>, Now', redirect'["handler"])
    BY EmptyFits
  <2>. QED
    BY <2>1, <2>2, <2>3, <2>4, <2>5, <2>6, <2>7 DEF LogOrderInv
<1>3. CASE ReadFails
  BY <1>3, RestartOrder DEF ReadFails
<1>4. CASE RedirectLog("handler")
  BY <1>4, RedirectOrder
<1>. QED
  BY <1>1, <1>2, <1>3, <1>4 DEF Handler

LEMMA OrderPreserved == TypeOK /\ LogOrderInv /\ [Next]_vars => LogOrderInv'
<1>1. TypeOK /\ LogOrderInv /\ AppMain => LogOrderInv'
  BY OrderKept DEF AppMain, StartHandler, StartTimers, logVars
<1>2. TypeOK /\ LogOrderInv /\ UNCHANGED vars => LogOrderInv'
  BY OrderKept DEF vars, programVars, logVars
<1>. QED
  BY <1>1, <1>2, TimerOrder, HandlerOrder, RestartOrder DEF Next

\* Restarts, opens that fail, a full partition and the two tasks that write over
\* each other lose lines, but never disorder those that stay.
THEOREM LogStaysInOrder == Spec => []LogIsOrdered
<1>1. LogOrderInv => LogIsOrdered
  BY DEF LogOrderInv, Fits, LogIsOrdered
<1>. QED
  BY <1>1, TypeCorrect, InitialOrder, OrderPreserved, PTL DEF Spec

-----------------------------------------------------------------------------
(* The start of the program: no timer fires before app_main has started    *)
(* them, and nothing is logged to the file before it is mounted.           *)

BootInv ==
  /\ boot = "startHandler" => handlerPc = "absent"
  /\ boot # "done" =>
       /\ armed = {} /\ dispatching = "none" /\ queueOut = <<>>
       /\ value_sensor = 0 /\ due = 0 /\ handlerPc \notin Events
       /\ \A task \in Tasks : redirect[task].at = "outside"
  /\ armed \in {{}, Timers}
  /\ handlerPc \in {"absent", "mounting"} <=> ~mounted
  /\ ~mounted => /\ is_first_time
                 /\ \A task \in Tasks : redirect[task].at = "outside"
  /\ handlerPc # "receiving" => redirect["handler"].at = "outside"

LEMMA InitialBoot == Init => BootInv
BY OutsideType DEF Init, BootInv

LEMMA RestartBoot == Restart => BootInv'
BY OutsideType DEF Restart, BootInv

LEMMA RedirectBoot ==
  ASSUME TypeOK, BootInv, NEW task \in Tasks, RedirectLog(task)
  PROVE  BootInv'
<1>0. redirect \in [Tasks -> Redirections]
  BY LogTypes
<1>1. /\ UNCHANGED <<boot, armed, dispatching, queueOut, value_sensor, due,
                     handlerPc, mounted>>
      /\ redirect[task].at # "outside"
  BY DEF RedirectLog, ClearFirstTime, OpenLog, OpenFails, WriteLog,
     programVars, timerVars, handlerVars
<1>2. boot = "done" /\ mounted /\ (task = "handler" => handlerPc = "receiving")
  BY <1>1 DEF BootInv, TypeOK
<1>3. \A t \in Tasks : t # task => redirect'[t] = redirect[t]
  BY <1>0 DEF RedirectLog, ClearFirstTime, OpenLog, OpenFails, WriteLog
<1>. QED
  BY <1>1, <1>2, <1>3 DEF BootInv

LEMMA TimerBoot == TypeOK /\ BootInv /\ TimerTask => BootInv'
<1>. SUFFICES ASSUME TypeOK, BootInv, TimerTask PROVE BootInv'
  OBVIOUS
<1>0. redirect \in [Tasks -> Redirections]
  BY LogTypes
<1>1. CASE SensorExpires \/ ReaderExpires
  <2>1. /\ UNCHANGED <<boot, armed, queueOut, handlerPc, mounted,
                       is_first_time, redirect>>
        /\ armed # {}
    BY <1>1 DEF SensorExpires, ReaderExpires, handlerVars, logVars
  <2>. QED
    BY <2>1 DEF BootInv
<1>2. CASE SendEvent
  <2>1. /\ UNCHANGED <<boot, armed, handlerPc, mounted, is_first_time>>
        /\ dispatching # "none"
    BY <1>2 DEF SendEvent, handlerVars
  <2>2. boot = "done"
    BY <2>1 DEF BootInv
  <2>3. redirect' = redirect \/ (mounted /\ Enter("timer", 0))
    BY <1>2 DEF SendEvent
  <2>4. redirect'["handler"] = redirect["handler"]
        /\ (~mounted => redirect' = redirect)
    BY <1>0, <2>3 DEF Enter
  <2>. QED
    BY <2>1, <2>2, <2>4 DEF BootInv
<1>3. CASE RedirectLog("timer")
  BY <1>3, RedirectBoot
<1>. QED
  BY <1>1, <1>2, <1>3 DEF TimerTask

LEMMA HandlerBoot == TypeOK /\ BootInv /\ Handler => BootInv'
<1>. SUFFICES ASSUME TypeOK, BootInv, Handler PROVE BootInv'
  OBVIOUS
<1>0. redirect \in [Tasks -> Redirections]
  BY LogTypes
<1>1. CASE Mount
  BY <1>1 DEF Mount, BootInv, timerVars, Events
<1>2. CASE Receive
  <2>1. Head(queueOut) \in Events
    BY <1>2, HeadTailProperties DEF Receive, TypeOK
  <2>2. boot = "done" /\ mounted
    BY <1>2 DEF Receive, BootInv
  <2>. QED
    BY <1>2, <2>1, <2>2 DEF Receive, BootInv, timerVars, logVars, Events
<1>3. CASE HandleWrite
  <2>1. boot = "done" /\ mounted
    BY <1>3 DEF HandleWrite, BootInv, Events
  <2>. QED
    BY <1>3, <2>1 DEF HandleWrite, BootInv, timerVars
<1>4. CASE HandleRead
  <2>1. boot = "done" /\ mounted
    BY <1>4 DEF HandleRead, BootInv, Events
  <2>2. armed' \in {{}, Timers}
    BY <1>4 DEF HandleRead, BootInv, Stopped
  <2>. QED
    BY <1>4, <2>1, <2>2 DEF HandleRead, BootInv, logVars
<1>5. CASE ReadFails
  BY <1>5, RestartBoot DEF ReadFails
<1>6. CASE RedirectLog("handler")
  BY <1>6, RedirectBoot
<1>. QED
  BY <1>1, <1>2, <1>3, <1>4, <1>5, <1>6 DEF Handler

LEMMA BootPreserved == TypeOK /\ BootInv /\ [Next]_vars => BootInv'
<1>1. TypeOK /\ BootInv /\ AppMain => BootInv'
  <2>. SUFFICES ASSUME TypeOK, BootInv, AppMain PROVE BootInv'
    OBVIOUS
  <2>1. CASE StartHandler
    <3>1. handlerPc = "absent" /\ ~mounted
      BY <2>1 DEF StartHandler, BootInv
    <3>. QED
      BY <2>1, <3>1 DEF StartHandler, BootInv, timerVars, logVars
  <2>2. CASE StartTimers
    BY <2>2 DEF StartTimers, BootInv, handlerVars, logVars
  <2>. QED
    BY <2>1, <2>2 DEF AppMain
<1>2. BootInv /\ UNCHANGED vars => BootInv'
  BY DEF BootInv, vars, programVars, timerVars, handlerVars, logVars
<1>. QED
  BY <1>1, <1>2, TimerBoot, HandlerBoot, RestartBoot DEF Next

-----------------------------------------------------------------------------
(* What is behind a place of a queue.                                      *)

Behind(queue, k) == SubSeq(queue, k + 1, Len(queue))

LEMMA BehindElements ==
  ASSUME NEW S, NEW q \in Seq(S), NEW k \in Nat, k <= Len(q)
  PROVE  /\ Behind(q, k) \in Seq(S) /\ Len(Behind(q, k)) = Len(q) - k
         /\ \A i \in 1 .. Len(q) - k : Behind(q, k)[i] = q[k + i]
<1>1. Len(q) \in Nat
  BY LenProperties
<1>2. \A i \in k + 1 .. Len(q) : q[i] \in S
  BY <1>1, ElementOfSeq
<1>3. /\ Behind(q, k) \in Seq(S)
      /\ Len(Behind(q, k)) = IF k + 1 <= Len(q) THEN Len(q) - (k + 1) + 1 ELSE 0
      /\ \A i \in 1 .. Len(q) - (k + 1) + 1 : Behind(q, k)[i] = q[k + 1 + i - 1]
  BY <1>1, <1>2, SubSeqProperties DEF Behind
<1>4. Len(Behind(q, k)) = Len(q) - k
  <2>1. CASE k + 1 <= Len(q)
    BY <1>1, <1>3, <2>1
  <2>2. CASE k = Len(q)
    BY <1>1, <1>3, <2>2
  <2>. QED
    BY <1>1, <2>1, <2>2
<1>5. ASSUME NEW i \in 1 .. Len(q) - k PROVE Behind(q, k)[i] = q[k + i]
  <2>1. i \in 1 .. Len(q) - (k + 1) + 1 /\ k + 1 + i - 1 = k + i
    BY <1>1
  <2>. QED
    BY <1>3, <2>1
<1>. QED
  BY <1>3, <1>4, <1>5

\* A new event is behind all others.
LEMMA BehindAppend ==
  ASSUME NEW S, NEW q \in Seq(S), NEW x \in S
  PROVE  /\ Behind(Append(q, x), Len(q) + 1) = <<>>
         /\ \A k \in 1 .. Len(q) :
              Behind(Append(q, x), k) = Append(Behind(q, k), x)
<1>0. Append(q, x) \in Seq(S)
  BY AppendProperties
<1>1. /\ Append(q, x) \in Seq(S) /\ Len(Append(q, x)) = Len(q) + 1
      /\ Len(q) \in Nat
      /\ \A k \in 1 .. Len(q) : Append(q, x)[k] = q[k]
      /\ Append(q, x)[Len(q) + 1] = x
  BY AppendProperties, LenProperties
<1>2. Behind(Append(q, x), Len(q) + 1) = <<>>
  BY <1>1, SubSeqEmpty DEF Behind
<1>3. ASSUME NEW k \in 1 .. Len(q)
      PROVE  Behind(Append(q, x), k) = Append(Behind(q, k), x)
  <2>. DEFINE s == Behind(Append(q, x), k)
              t == Behind(q, k)
  <2>0. /\ k \in Nat /\ Len(q) \in Nat
        /\ k <= Len(q) /\ k <= Len(Append(q, x))
    BY <1>1
  <2>1. /\ s \in Seq(S) /\ Len(s) = Len(q) + 1 - k
        /\ \A i \in 1 .. Len(q) + 1 - k : s[i] = Append(q, x)[k + i]
    <3>1. /\ s \in Seq(S) /\ Len(s) = Len(Append(q, x)) - k
          /\ \A i \in 1 .. Len(Append(q, x)) - k : s[i] = Append(q, x)[k + i]
      BY <1>0, <2>0, BehindElements
    <3>2. Len(Append(q, x)) = Len(q) + 1
      BY <1>1
    <3>3. Len(s) = Len(q) + 1 - k
      BY <3>1, <3>2
    <3>4. ASSUME NEW i \in 1 .. Len(q) + 1 - k
          PROVE  s[i] = Append(q, x)[k + i]
      <4>1. i \in 1 .. Len(Append(q, x)) - k
        BY <3>2
      <4>. HIDE DEF s
      <4>. QED
        BY <3>1, <4>1
    <3>. QED
      BY <3>1, <3>3, <3>4
  <2>2. /\ t \in Seq(S) /\ Len(t) = Len(q) - k
        /\ \A i \in 1 .. Len(q) - k : t[i] = q[k + i]
    BY <2>0, BehindElements
  <2>. HIDE DEF s, t
  <2>3. /\ Append(t, x) \in Seq(S) /\ Len(Append(t, x)) = Len(t) + 1
        /\ \A i \in 1 .. Len(t) : Append(t, x)[i] = t[i]
        /\ Append(t, x)[Len(t) + 1] = x
    <3>1. t \in Seq(S)
      BY <2>2
    <3>. QED
      BY <3>1, AppendProperties
  <2>4. ASSUME NEW i \in 1 .. Len(s) PROVE s[i] = Append(t, x)[i]
    <3>0. i \in 1 .. Len(q) + 1 - k /\ i \in Int
      BY <2>1
    <3>1. CASE i <= Len(q) - k
      <4>1. i \in 1 .. Len(q) - k /\ i \in 1 .. Len(t) /\ k + i \in 1 .. Len(q)
        BY <1>1, <2>2, <3>0, <3>1
      <4>. QED
        BY <1>1, <2>1, <2>2, <2>3, <3>0, <4>1
    <3>2. CASE ~(i <= Len(q) - k)
      <4>1. i = Len(q) + 1 - k
        BY <2>0, <3>0, <3>2
      <4>2. i = Len(t) + 1 /\ k + i = Len(q) + 1
        BY <2>0, <2>2, <4>1
      <4>. QED
        BY <1>1, <2>1, <2>3, <3>0, <4>2
    <3>. QED
      BY <3>1, <3>2
  <2>5. Len(s) = Len(Append(t, x))
    BY <1>1, <2>1, <2>2, <2>3
  <2>6. s = Append(t, x)
    BY <2>1, <2>3, <2>4, <2>5, SeqEqual
  <2>. QED
    BY <2>6 DEF s, t
<1>. QED
  BY <1>2, <1>3

\* Receiving an event leaves the same behind each of the others.
LEMMA BehindTail ==
  ASSUME NEW S, NEW q \in Seq(S), q # <<>>
  PROVE  /\ Behind(q, 1) = Tail(q)
         /\ \A k \in 1 .. Len(Tail(q)) : Behind(Tail(q), k) = Behind(q, k + 1)
<1>1. /\ Tail(q) \in Seq(S) /\ Len(Tail(q)) = Len(q) - 1
      /\ Len(q) \in Nat \ {0}
      /\ \A i \in 1 .. Len(Tail(q)) : Tail(q)[i] = q[i + 1]
  BY HeadTailProperties, EmptySeq
<1>0. Tail(q) \in Seq(S)
  BY <1>1
<1>2. Behind(q, 1) = Tail(q)
  <2>1. /\ Behind(q, 1) \in Seq(S) /\ Len(Behind(q, 1)) = Len(q) - 1
        /\ \A i \in 1 .. Len(q) - 1 : Behind(q, 1)[i] = q[1 + i]
    <3>1. 1 \in Nat /\ 1 <= Len(q)
      BY <1>1
    <3>. QED
      BY <3>1, BehindElements
  <2>2. Len(Behind(q, 1)) = Len(Tail(q))
    BY <1>1, <2>1
  <2>3. \A i \in 1 .. Len(Behind(q, 1)) : Behind(q, 1)[i] = Tail(q)[i]
    BY <1>1, <2>1
  <2>. QED
    BY <1>1, <2>1, <2>2, <2>3, SeqEqual
<1>3. ASSUME NEW k \in 1 .. Len(Tail(q))
      PROVE  Behind(Tail(q), k) = Behind(q, k + 1)
  <2>. DEFINE s == Behind(Tail(q), k)
              t == Behind(q, k + 1)
  <2>0. /\ k \in Nat /\ k <= Len(Tail(q)) /\ k + 1 \in Nat /\ k + 1 <= Len(q)
    BY <1>1
  <2>1. /\ s \in Seq(S) /\ Len(s) = Len(Tail(q)) - k
        /\ \A i \in 1 .. Len(Tail(q)) - k : s[i] = Tail(q)[k + i]
    BY <1>0, <2>0, BehindElements
  <2>2. /\ t \in Seq(S) /\ Len(t) = Len(q) - (k + 1)
        /\ \A i \in 1 .. Len(q) - (k + 1) : t[i] = q[k + 1 + i]
    BY <2>0, BehindElements
  <2>. HIDE DEF s, t
  <2>3. Len(s) = Len(t)
    BY <1>1, <2>0, <2>1, <2>2
  <2>4. ASSUME NEW i \in 1 .. Len(s) PROVE s[i] = t[i]
    <3>0. i \in 1 .. Len(Tail(q)) - k /\ i \in Int
      BY <2>1
    <3>1. /\ i \in 1 .. Len(q) - (k + 1)
          /\ k + i \in 1 .. Len(Tail(q)) /\ k + i + 1 = k + 1 + i
      BY <1>1, <2>0, <3>0
    <3>. QED
      BY <1>1, <2>1, <2>2, <3>0, <3>1
  <2>5. s = t
    BY <2>1, <2>2, <2>3, <2>4, SeqEqual
  <2>. QED
    BY <2>5 DEF s, t
<1>. QED
  BY <1>2, <1>3

-----------------------------------------------------------------------------
(* Runs without failures.  While a reading is on its way the timers go on  *)
(* for as many samples as there are events behind it (PaceInv), so no      *)
(* sample of a run is beyond MaxSamples; all samples of its period are in  *)
(* front of it (ReadInv); each of them is an event or a line (CountInv).   *)

Writes(event) == IF event = "WRITE_LOG" THEN 1 ELSE 0

Writing == IF redirect["handler"].at # "outside" THEN 1 ELSE 0

Logged == IF Begun THEN Len(file) ELSE 0

\* Only the handler redirects the log, and what it opened is what the file is.
RedirectInv ==
  LET log == redirect["handler"]
  IN  /\ redirect["timer"].at = "outside"
      /\ log.at = "clear" => is_first_time /\ log.mode = "wb"
      /\ log.at \in {"open", "write"} => ~is_first_time
      /\ log.at = "write" => log.base = file
      /\ log.at # "outside" => log.line.run = run

PaceInv ==
  /\ value_sensor >= due
  /\ armed # {} =>
       \/ value_sensor = due
       \/ dispatching = "READ_LOG" /\ value_sensor <= SENSORS_PER_READ
       \/ \E k \in 1 .. Len(queueOut) :
            /\ queueOut[k] = "READ_LOG"
            /\ value_sensor <= SENSORS_PER_READ + (Len(queueOut) - k)
                                 + Writes(dispatching)
       \/ /\ handlerPc = "READ_LOG"
          /\ value_sensor <= SENSORS_PER_READ + Len(queueOut)
                               + Writes(dispatching)

\* The WRITE_LOG events on their way to the file.
InHand ==
  (IF dispatching = "WRITE_LOG" THEN 1 ELSE 0)
    + Occurrences(queueOut, "WRITE_LOG")
    + (IF handlerPc = "WRITE_LOG" THEN 1 ELSE 0)
    + (IF redirect["handler"].at # "outside" THEN 1 ELSE 0)

CountInv == Logged + InHand = value_sensor

LinesInv ==
  /\ Begun => \A k \in 1 .. Len(file) : /\ file[k].run = run
                                        /\ file[k].value \in k .. value_sensor
  /\ redirect["handler"].at # "outside" =>
       redirect["handler"].line.value \in Logged + 1 .. value_sensor

\* The samples logged or to be logged before a reading, events behind it being
\* of later samples.
ReadInv ==
  /\ dispatching = "READ_LOG" => value_sensor >= SENSORS_PER_READ
  /\ \A k \in 1 .. Len(queueOut) : queueOut[k] = "READ_LOG" =>
       value_sensor >= SENSORS_PER_READ + Writes(dispatching)
                         + Occurrences(Behind(queueOut, k), "WRITE_LOG")
  /\ handlerPc = "READ_LOG" =>
       value_sensor >= SENSORS_PER_READ + Writes(dispatching)
                         + Occurrences(queueOut, "WRITE_LOG")

Calm == RedirectInv /\ PaceInv /\ CountInv /\ LinesInv /\ ReadInv

CalmInv == ~disturbed => Calm

\* The numbers Calm is about.
LEMMA CalmTypes ==
  ASSUME TypeOK
  PROVE  /\ Len(queueOut) \in Nat /\ Len(file) \in Nat /\ Logged \in Nat
         /\ value_sensor \in Nat /\ due \in Nat
         /\ Occurrences(queueOut, "WRITE_LOG") \in Nat
         /\ redirect \in [Tasks -> Redirections]
         /\ InHand = Writes(dispatching) + Occurrences(queueOut, "WRITE_LOG")
                       + Writes(handlerPc) + Writing
<1>1. Len(queueOut) \in Nat /\ Len(file) \in Nat
      /\ Occurrences(queueOut, "WRITE_LOG") \in Nat
  BY LenProperties, PlacesFinite DEF TypeOK
<1>2. Logged \in Nat
  BY <1>1 DEF Logged
<1>3. value_sensor \in Nat /\ due \in Nat
  BY DEF TypeOK
<1>4. InHand = Writes(dispatching) + Occurrences(queueOut, "WRITE_LOG")
                 + Writes(handlerPc) + Writing
  BY DEF InHand, Writes, Writing
<1>. QED
  BY <1>1, <1>2, <1>3, <1>4, LogTypes

\* Samples go on, and nobody touches the log.
LEMMA LogKept ==
  ASSUME TypeOK, RedirectInv, LinesInv,
         UNCHANGED <<is_first_time, redirect, file, run>>,
         value_sensor' \in Int, value_sensor <= value_sensor'
  PROVE  /\ RedirectInv' /\ LinesInv'
         /\ Logged' = Logged /\ Writing' = Writing
<1>1. RedirectInv'
  BY DEF RedirectInv
<1>2. Begun' = Begun /\ Writing' = Writing
  BY DEF Begun, Writing
<1>3. Logged' = Logged
  BY <1>2 DEF Logged
<1>4. value_sensor \in Int /\ Len(file) \in Nat /\ Logged \in Nat
  BY CalmTypes
<1>5. LinesInv'
  <2>1. ASSUME Begun', NEW k \in 1 .. Len(file')
        PROVE  file'[k].run = run' /\ file'[k].value \in k .. value_sensor'
    <3>1. file[k].run = run /\ file[k].value \in k .. value_sensor
      BY <1>2, <2>1 DEF LinesInv
    <3>. QED
      BY <1>4, <3>1
  <2>2. redirect'["handler"].at # "outside" =>
          redirect'["handler"].line.value \in Logged' + 1 .. value_sensor'
    <3>1. redirect["handler"].at # "outside" =>
            redirect["handler"].line.value \in Logged + 1 .. value_sensor
      BY DEF LinesInv
    <3>. QED
      BY <1>3, <1>4, <3>1
  <2>. QED
    BY <2>1, <2>2 DEF LinesInv
<1>. QED
  BY <1>1, <1>2, <1>3, <1>5

\* The events and the samples stay as they are, or the timers are stopped.
LEMMA PaceKept ==
  ASSUME PaceInv, ReadInv,
         UNCHANGED <<queueOut, value_sensor, due, dispatching>>,
         armed' # {} => armed # {} /\ (handlerPc = "READ_LOG" =>
                                         handlerPc' = "READ_LOG"),
         handlerPc' = "READ_LOG" => handlerPc = "READ_LOG"
  PROVE  PaceInv' /\ ReadInv'
<1>1. PaceInv'
  BY DEF PaceInv
<1>2. ReadInv'
  BY DEF ReadInv
<1>. QED
  BY <1>1, <1>2

LEMMA SensorCalm ==
  ASSUME TypeOK, BootInv, Calm, SensorExpires
  PROVE  Calm'
<1>0. /\ Len(queueOut) \in Nat /\ value_sensor \in Nat /\ due \in Nat
      /\ Occurrences(queueOut, "WRITE_LOG") \in Nat /\ Logged \in Nat
      /\ Len(queueOut) <= QUEUE_LENGTH
  BY CalmTypes DEF TypeOK
<1>1. /\ armed # {} /\ armed = Timers
      /\ UNCHANGED <<armed, queueOut, handlerPc, is_first_time, redirect, file,
                     run>>
      /\ dispatching = "none" /\ dispatching' = "WRITE_LOG"
  BY DEF SensorExpires, TimerIdle, BootInv, handlerVars, logVars
<1>2. due < SENSORS_PER_READ /\ due' = due + 1
  BY <1>1 DEF SensorExpires
<1>3. Writes(dispatching) = 0 /\ Writes(dispatching') = 1
  BY <1>1 DEF Writes
<1>4. value_sensor < MaxSamples
  <2>1. CASE value_sensor = due
    BY <1>0, <1>2, <2>1
  <2>2. CASE \E k \in 1 .. Len(queueOut) :
               value_sensor <= SENSORS_PER_READ + (Len(queueOut) - k)
                                 + Writes(dispatching)
    BY <1>0, <1>3, <2>2
  <2>3. CASE value_sensor <= SENSORS_PER_READ + Len(queueOut)
                               + Writes(dispatching)
    BY <1>0, <1>3, <2>3
  <2>. QED
    BY <1>1, <2>1, <2>2, <2>3 DEF Calm, PaceInv
<1>5. value_sensor' = value_sensor + 1
  BY <1>4 DEF SensorExpires
<1>6. PaceInv'
  <2>1. value_sensor >= due
    BY DEF Calm, PaceInv
  <2>2. value_sensor' >= due'
    BY <1>0, <1>2, <1>5, <2>1
  <2>3. CASE value_sensor = due
    BY <1>2, <1>5, <2>2, <2>3 DEF PaceInv
  <2>4. CASE \E k \in 1 .. Len(queueOut) :
               /\ queueOut[k] = "READ_LOG"
               /\ value_sensor <= SENSORS_PER_READ + (Len(queueOut) - k)
                                    + Writes(dispatching)
    <3>1. PICK k \in 1 .. Len(queueOut) :
               /\ queueOut[k] = "READ_LOG"
               /\ value_sensor <= SENSORS_PER_READ + (Len(queueOut) - k)
                                    + Writes(dispatching)
      BY <2>4
    <3>2. value_sensor' <= SENSORS_PER_READ + (Len(queueOut) - k)
                             + Writes(dispatching')
      BY <1>0, <1>3, <1>5, <3>1
    <3>. QED
      BY <1>1, <2>2, <3>1, <3>2 DEF PaceInv
  <2>5. CASE /\ handlerPc = "READ_LOG"
             /\ value_sensor <= SENSORS_PER_READ + Len(queueOut)
                                  + Writes(dispatching)
    <3>1. value_sensor' <= SENSORS_PER_READ + Len(queueOut)
                             + Writes(dispatching')
      BY <1>0, <1>3, <1>5, <2>5
    <3>. QED
      BY <1>1, <2>2, <2>5, <3>1 DEF PaceInv
  <2>. QED
    BY <1>1, <2>3, <2>4, <2>5 DEF Calm, PaceInv
<1>7. ReadInv'
  <2>1. ASSUME NEW k \in 1 .. Len(queueOut), queueOut[k] = "READ_LOG"
        PROVE  value_sensor' >= SENSORS_PER_READ + Writes(dispatching')
                         + Occurrences(Behind(queueOut, k), "WRITE_LOG")
    <3>1. value_sensor >= SENSORS_PER_READ + Writes(dispatching)
                         + Occurrences(Behind(queueOut, k), "WRITE_LOG")
      BY <2>1 DEF Calm, ReadInv
    <3>2. k \in Nat /\ k <= Len(queueOut)
      BY <1>0
    <3>3. Occurrences(Behind(queueOut, k), "WRITE_LOG") \in Nat
      BY <3>2, BehindElements, PlacesFinite DEF TypeOK
    <3>. QED
      BY <1>0, <1>3, <1>5, <3>1, <3>3
  <2>2. handlerPc = "READ_LOG" =>
          value_sensor' >= SENSORS_PER_READ + Writes(dispatching')
                             + Occurrences(queueOut, "WRITE_LOG")
    <3>1. handlerPc = "READ_LOG" =>
          value_sensor >= SENSORS_PER_READ + Writes(dispatching)
                             + Occurrences(queueOut, "WRITE_LOG")
      BY DEF Calm, ReadInv
    <3>. QED
      BY <1>0, <1>3, <1>5, <3>1
  <2>. QED
    BY <1>1, <2>1, <2>2 DEF ReadInv
<1>8. value_sensor' \in Int /\ value_sensor <= value_sensor'
  BY <1>0, <1>5
<1>9. RedirectInv' /\ LinesInv' /\ Logged' = Logged /\ Writing' = Writing
  BY <1>1, <1>8, LogKept DEF Calm
<1>10. CountInv'
  <2>1. InHand = Writes(dispatching) + Occurrences(queueOut, "WRITE_LOG")
                   + Writes(handlerPc) + Writing
    BY CalmTypes
  <2>2. InHand' = Writes(dispatching') + Occurrences(queueOut, "WRITE_LOG")
                    + Writes(handlerPc) + Writing
    BY <1>1 DEF InHand, Writes, Writing
  <2>3. Writes(handlerPc) \in Nat /\ Writing \in Nat
    BY DEF Writes, Writing
  <2>4. InHand' = InHand + 1 /\ InHand \in Nat
    BY <1>0, <1>3, <2>1, <2>2, <2>3
  <2>5. Logged + InHand = value_sensor
    BY DEF Calm, CountInv
  <2>6. Logged + InHand' = value_sensor'
    BY <1>0, <1>5, <2>4, <2>5
  <2>. QED
    BY <1>9, <2>6 DEF CountInv
<1>. QED
  BY <1>6, <1>7, <1>9, <1>10 DEF Calm

\* The reader's alarm comes with the samples of one period behind it.
LEMMA ReaderCalm ==
  ASSUME TypeOK, BootInv, Calm, ReaderExpires
  PROVE  Calm'
<1>0. /\ Len(queueOut) \in Nat /\ value_sensor \in Nat /\ due \in Nat
  BY CalmTypes
<1>1. /\ armed # {} /\ armed = Timers
      /\ UNCHANGED <<armed, queueOut, handlerPc, is_first_time, redirect, file,
                     run, value_sensor>>
      /\ dispatching = "none" /\ dispatching' = "READ_LOG" /\ due' = 0
  BY DEF ReaderExpires, TimerIdle, BootInv, handlerVars, logVars
<1>2. due = SENSORS_PER_READ
  BY <1>1 DEF ReaderExpires
<1>3. Writes(dispatching') = Writes(dispatching)
  BY <1>1 DEF Writes
<1>4. value_sensor >= SENSORS_PER_READ
  BY <1>2 DEF Calm, PaceInv
<1>5. PaceInv'
  <2>1. value_sensor' >= due'
    BY <1>0, <1>1
  <2>2. CASE value_sensor = due
    <3>1. dispatching' = "READ_LOG" /\ value_sensor' <= SENSORS_PER_READ
      BY <1>1, <1>2, <2>2
    <3>. QED
      BY <2>1, <3>1 DEF PaceInv
  <2>3. CASE value_sensor # due
    BY <1>1, <1>3, <2>1, <2>3 DEF Calm, PaceInv
  <2>. QED
    BY <2>2, <2>3
<1>6. ReadInv'
  BY <1>1, <1>3, <1>4 DEF Calm, ReadInv
<1>7. RedirectInv' /\ LinesInv' /\ Logged' = Logged /\ Writing' = Writing
  BY <1>0, <1>1, LogKept DEF Calm
<1>8. CountInv'
  <2>1. InHand' = InHand
    BY <1>1 DEF InHand
  <2>. QED
    BY <1>1, <1>7, <2>1 DEF Calm, CountInv
<1>. QED
  BY <1>5, <1>6, <1>7, <1>8 DEF Calm

LEMMA SendCalm ==
  ASSUME TypeOK, Calm, SendEvent, ~disturbed'
  PROVE  Calm'
<1>0. /\ Len(queueOut) \in Nat /\ value_sensor \in Nat /\ due \in Nat
      /\ Occurrences(queueOut, "WRITE_LOG") \in Nat /\ Logged \in Nat
      /\ queueOut \in Seq(Events) /\ dispatching \in Events
  BY CalmTypes DEF TypeOK, SendEvent
<1>1. /\ UNCHANGED <<armed, handlerPc, is_first_time, redirect, file,
                     run, value_sensor, due>>
      /\ dispatching' = "none" /\ queueOut' = Append(queueOut, dispatching)
  BY DEF SendEvent, handlerVars
<1>2. /\ queueOut' \in Seq(Events) /\ Len(queueOut') = Len(queueOut) + 1
      /\ \A k \in 1 .. Len(queueOut) : queueOut'[k] = queueOut[k]
      /\ queueOut'[Len(queueOut) + 1] = dispatching
  BY <1>0, <1>1, AppendProperties
<1>3. Writes(dispatching') = 0 /\ Writes(dispatching) \in 0 .. 1
  BY <1>1 DEF Writes
<1>4. Occurrences(queueOut', "WRITE_LOG") =
        Occurrences(queueOut, "WRITE_LOG") + Writes(dispatching)
  BY <1>0, <1>1, OccurrencesAppend DEF Writes
<1>5. PaceInv'
  <2>1. value_sensor' >= due'
    BY <1>1 DEF Calm, PaceInv
  <2>2. CASE value_sensor = due
    BY <1>1, <2>1, <2>2 DEF PaceInv
  <2>3. CASE dispatching = "READ_LOG" /\ value_sensor <= SENSORS_PER_READ
    <3>1. Len(queueOut) + 1 \in 1 .. Len(queueOut')
      BY <1>0, <1>2
    <3>2. value_sensor' <= SENSORS_PER_READ
                 + (Len(queueOut') - (Len(queueOut) + 1)) + Writes(dispatching')
      BY <1>0, <1>1, <1>2, <1>3, <2>3
    <3>. QED
      BY <1>2, <2>1, <2>3, <3>1, <3>2 DEF PaceInv
  <2>4. CASE \E k \in 1 .. Len(queueOut) :
               /\ queueOut[k] = "READ_LOG"
               /\ value_sensor <= SENSORS_PER_READ + (Len(queueOut) - k)
                                    + Writes(dispatching)
    <3>1. PICK k \in 1 .. Len(queueOut) :
               /\ queueOut[k] = "READ_LOG"
               /\ value_sensor <= SENSORS_PER_READ + (Len(queueOut) - k)
                                    + Writes(dispatching)
      BY <2>4
    <3>2. k \in 1 .. Len(queueOut') /\ queueOut'[k] = "READ_LOG"
      BY <1>0, <1>2, <3>1
    <3>3. value_sensor' <= SENSORS_PER_READ + (Len(queueOut') - k)
                             + Writes(dispatching')
      BY <1>0, <1>1, <1>2, <1>3, <3>1
    <3>. QED
      BY <2>1, <3>2, <3>3 DEF PaceInv
  <2>5. CASE /\ handlerPc = "READ_LOG"
             /\ value_sensor <= SENSORS_PER_READ + Len(queueOut)
                                  + Writes(dispatching)
    <3>1. value_sensor' <= SENSORS_PER_READ + Len(queueOut')
                             + Writes(dispatching')
      BY <1>0, <1>1, <1>2, <1>3, <2>5
    <3>. QED
      BY <1>1, <2>1, <2>5, <3>1 DEF PaceInv
  <2>6. CASE armed = {}
    BY <1>1, <2>1, <2>6 DEF PaceInv
  <2>. QED
    BY <2>2, <2>3, <2>4, <2>5, <2>6 DEF Calm, PaceInv
<1>6. ReadInv'
  <2>1. ASSUME NEW k \in 1 .. Len(queueOut), queueOut[k] = "READ_LOG"
        PROVE  value_sensor' >= SENSORS_PER_READ + Writes(dispatching')
                         + Occurrences(Behind(queueOut', k), "WRITE_LOG")
    <3>1. value_sensor >= SENSORS_PER_READ + Writes(dispatching)
                         + Occurrences(Behind(queueOut, k), "WRITE_LOG")
      BY <2>1 DEF Calm, ReadInv
    <3>2. k \in Nat /\ k <= Len(queueOut)
      BY <1>0
    <3>3. Behind(queueOut, k) \in Seq(Events)
      BY <1>0, <3>2, BehindElements
    <3>4. Occurrences(Behind(queueOut, k), "WRITE_LOG") \in Nat
      BY <3>3, PlacesFinite
    <3>5. Behind(queueOut', k) = Append(Behind(queueOut, k), dispatching)
      BY <1>0, <1>1, BehindAppend
    <3>6. Occurrences(Behind(queueOut', k), "WRITE_LOG") =
            Occurrences(Behind(queueOut, k), "WRITE_LOG") + Writes(dispatching)
      BY <1>0, <3>3, <3>5, OccurrencesAppend DEF Writes
    <3>. QED
      BY <1>0, <1>1, <1>3, <3>1, <3>4, <3>6
  <2>2. dispatching = "READ_LOG" =>
          value_sensor' >= SENSORS_PER_READ + Writes(dispatching')
            + Occurrences(Behind(queueOut', Len(queueOut) + 1), "WRITE_LOG")
    <3>1. Behind(queueOut', Len(queueOut) + 1) = <<>>
      BY <1>0, <1>1, BehindAppend
    <3>2. Occurrences(Behind(queueOut', Len(queueOut) + 1), "WRITE_LOG") = 0
      BY <3>1, OccurrencesEmpty
    <3>3. dispatching = "READ_LOG" => value_sensor >= SENSORS_PER_READ
      BY DEF Calm, ReadInv
    <3>. QED
      BY <1>0, <1>1, <1>3, <3>2, <3>3
  <2>3. handlerPc = "READ_LOG" =>
          value_sensor' >= SENSORS_PER_READ + Writes(dispatching')
                             + Occurrences(queueOut', "WRITE_LOG")
    <3>1. handlerPc = "READ_LOG" =>
          value_sensor >= SENSORS_PER_READ + Writes(dispatching)
                             + Occurrences(queueOut, "WRITE_LOG")
      BY DEF Calm, ReadInv
    <3>. QED
      BY <1>0, <1>1, <1>3, <1>4, <3>1
  <2>4. ASSUME NEW k \in 1 .. Len(queueOut'), queueOut'[k] = "READ_LOG"
        PROVE  value_sensor' >= SENSORS_PER_READ + Writes(dispatching')
                         + Occurrences(Behind(queueOut', k), "WRITE_LOG")
    <3>1. k \in 1 .. Len(queueOut) \/ k = Len(queueOut) + 1
      BY <1>0, <1>2
    <3>2. CASE k \in 1 .. Len(queueOut)
      BY <1>2, <2>1, <2>4, <3>2
    <3>3. CASE k = Len(queueOut) + 1
      BY <1>2, <2>2, <2>4, <3>3
    <3>. QED
      BY <3>1, <3>2, <3>3
  <2>. QED
    BY <1>1, <2>3, <2>4 DEF ReadInv
<1>7. RedirectInv' /\ LinesInv' /\ Logged' = Logged /\ Writing' = Writing
  BY <1>0, <1>1, LogKept DEF Calm
<1>8. CountInv'
  <2>1. InHand = Writes(dispatching) + Occurrences(queueOut, "WRITE_LOG")
                   + Writes(handlerPc) + Writing
    BY CalmTypes
  <2>2. InHand' = Writes(dispatching') + Occurrences(queueOut', "WRITE_LOG")
                    + Writes(handlerPc) + Writing
    BY <1>1 DEF InHand, Writes, Writing
  <2>3. Writes(handlerPc) \in Nat /\ Writing \in Nat
    BY DEF Writes, Writing
  <2>4. InHand' = InHand
    BY <1>0, <1>3, <1>4, <2>1, <2>2, <2>3
  <2>. QED
    BY <1>1, <1>7, <2>4 DEF Calm, CountInv
<1>. QED
  BY <1>5, <1>6, <1>7, <1>8 DEF Calm

LEMMA ReceiveCalm ==
  ASSUME TypeOK, Calm, Receive
  PROVE  Calm'
<1>0. /\ Len(queueOut) \in Nat /\ value_sensor \in Nat /\ due \in Nat
      /\ Occurrences(queueOut, "WRITE_LOG") \in Nat /\ Logged \in Nat
      /\ queueOut \in Seq(Events) /\ queueOut # <<>>
  BY CalmTypes DEF TypeOK, Receive
<1>1. /\ UNCHANGED <<armed, is_first_time, redirect, file, run, value_sensor,
                     due, dispatching>>
      /\ handlerPc = "receiving" /\ handlerPc' = queueOut[1]
      /\ queueOut' = Tail(queueOut)
  BY <1>0 DEF Receive, timerVars, logVars
<1>2. /\ queueOut' \in Seq(Events) /\ Len(queueOut') = Len(queueOut) - 1
      /\ \A k \in 1 .. Len(queueOut') : queueOut'[k] = queueOut[k + 1]
  BY <1>0, <1>1, HeadTailProperties
<1>3. Writes(dispatching') = Writes(dispatching)
      /\ Writes(dispatching) \in 0 .. 1
      /\ Writes(handlerPc) = 0 /\ Writes(handlerPc') \in 0 .. 1
  BY <1>1 DEF Writes
<1>4. Occurrences(queueOut, "WRITE_LOG") =
        Occurrences(queueOut', "WRITE_LOG") + Writes(handlerPc')
      /\ Occurrences(queueOut', "WRITE_LOG") \in Nat
  BY <1>0, <1>1, <1>2, OccurrencesTail, PlacesFinite DEF Writes
<1>5. PaceInv'
  <2>1. value_sensor' >= due'
    BY <1>1 DEF Calm, PaceInv
  <2>2. CASE value_sensor = due
             \/ (dispatching = "READ_LOG" /\ value_sensor <= SENSORS_PER_READ)
    BY <1>1, <2>1, <2>2 DEF PaceInv
  <2>4. CASE \E k \in 1 .. Len(queueOut) :
               /\ queueOut[k] = "READ_LOG"
               /\ value_sensor <= SENSORS_PER_READ + (Len(queueOut) - k)
                                    + Writes(dispatching)
    <3>1. PICK k \in 1 .. Len(queueOut) :
               /\ queueOut[k] = "READ_LOG"
               /\ value_sensor <= SENSORS_PER_READ + (Len(queueOut) - k)
                                    + Writes(dispatching)
      BY <2>4
    <3>2. CASE k = 1
      <4>1. value_sensor' <= SENSORS_PER_READ + Len(queueOut')
                               + Writes(dispatching')
        BY <1>0, <1>1, <1>2, <1>3, <3>1, <3>2
      <4>. QED
        BY <1>1, <2>1, <3>1, <3>2, <4>1 DEF PaceInv
    <3>3. CASE k # 1
      <4>1. k - 1 \in 1 .. Len(queueOut') /\ (k - 1) + 1 = k
        BY <1>0, <1>2, <3>3
      <4>2. queueOut'[k - 1] = "READ_LOG"
        BY <1>2, <3>1, <4>1
      <4>3. value_sensor' <= SENSORS_PER_READ + (Len(queueOut') - (k - 1))
                               + Writes(dispatching')
        BY <1>0, <1>1, <1>2, <1>3, <3>1
      <4>. QED
        BY <2>1, <4>1, <4>2, <4>3 DEF PaceInv
    <3>. QED
      BY <3>2, <3>3
  <2>6. CASE armed = {}
    BY <1>1, <2>1, <2>6 DEF PaceInv
  <2>. QED
    BY <1>1, <2>2, <2>4, <2>6 DEF Calm, PaceInv
<1>6. ReadInv'
  <2>0. /\ Behind(queueOut, 1) = queueOut'
        /\ \A k \in 1 .. Len(queueOut') :
             Behind(queueOut', k) = Behind(queueOut, k + 1)
    BY <1>0, <1>1, BehindTail
  <2>1. ASSUME NEW k \in 1 .. Len(queueOut'), queueOut'[k] = "READ_LOG"
        PROVE  value_sensor' >= SENSORS_PER_READ + Writes(dispatching')
                         + Occurrences(Behind(queueOut', k), "WRITE_LOG")
    <3>1. k + 1 \in 1 .. Len(queueOut) /\ queueOut[k + 1] = "READ_LOG"
      BY <1>0, <1>2, <2>1
    <3>2. value_sensor >= SENSORS_PER_READ + Writes(dispatching)
                         + Occurrences(Behind(queueOut, k + 1), "WRITE_LOG")
      BY <3>1 DEF Calm, ReadInv
    <3>. QED
      BY <1>1, <2>0, <3>2
  <2>2. handlerPc' = "READ_LOG" =>
          value_sensor' >= SENSORS_PER_READ + Writes(dispatching')
                             + Occurrences(queueOut', "WRITE_LOG")
    <3>1. 1 \in 1 .. Len(queueOut)
      BY <1>0, EmptySeq
    <3>2. queueOut[1] = "READ_LOG" =>
            value_sensor >= SENSORS_PER_READ + Writes(dispatching)
                              + Occurrences(Behind(queueOut, 1), "WRITE_LOG")
      BY <3>1 DEF Calm, ReadInv
    <3>. QED
      BY <1>1, <2>0, <3>2
  <2>3. dispatching' = "READ_LOG" => value_sensor' >= SENSORS_PER_READ
    BY <1>1 DEF Calm, ReadInv
  <2>. QED
    BY <2>1, <2>2, <2>3 DEF ReadInv
<1>7. RedirectInv' /\ LinesInv' /\ Logged' = Logged /\ Writing' = Writing
  BY <1>0, <1>1, LogKept DEF Calm
<1>8. CountInv'
  <2>1. InHand = Writes(dispatching) + Occurrences(queueOut, "WRITE_LOG")
                   + Writes(handlerPc) + Writing
    BY CalmTypes
  <2>2. InHand' = Writes(dispatching) + Occurrences(queueOut', "WRITE_LOG")
                    + Writes(handlerPc') + Writing
    BY <1>1 DEF InHand, Writes, Writing
  <2>3. Writing \in Nat
    BY DEF Writing
  <2>4. InHand' = InHand
    BY <1>0, <1>3, <1>4, <2>1, <2>2, <2>3
  <2>. QED
    BY <1>1, <1>7, <2>4 DEF Calm, CountInv
<1>. QED
  BY <1>5, <1>6, <1>7, <1>8 DEF Calm

\* The value of the moment is newer than any line: the event is still to be
\* counted.
LEMMA HandleWriteCalm ==
  ASSUME TypeOK, BootInv, Calm, HandleWrite
  PROVE  Calm'
<1>0. /\ value_sensor \in Nat /\ Logged \in Nat
      /\ Occurrences(queueOut, "WRITE_LOG") \in Nat
      /\ redirect \in [Tasks -> Redirections]
  BY CalmTypes
<1>1. /\ UNCHANGED <<armed, due, dispatching, queueOut, is_first_time, file, run,
                     value_sensor>>
      /\ handlerPc = "WRITE_LOG" /\ handlerPc' = "receiving"
      /\ redirect["handler"].at = "outside"
  BY DEF HandleWrite, timerVars, BootInv
<1>2. /\ redirect'["timer"] = redirect["timer"]
      /\ redirect'["handler"] =
           [at   |-> IF is_first_time THEN "clear" ELSE "open",
            mode |-> IF is_first_time THEN "wb" ELSE "a",
            line |-> [run |-> run, value |-> value_sensor],
            base |-> <<>>]
  BY <1>0 DEF HandleWrite, Enter
<1>3. Begun' = Begun
  BY <1>1, <1>2 DEF Begun
<1>4. Logged' = Logged
  BY <1>1, <1>3 DEF Logged
<1>5. PaceInv' /\ ReadInv'
  BY <1>1, PaceKept DEF Calm
<1>6. RedirectInv'
  BY <1>1, <1>2 DEF Calm, RedirectInv
<1>7. InHand' = InHand /\ InHand \in Nat /\ InHand >= 1
  <2>1. InHand = Writes(dispatching) + Occurrences(queueOut, "WRITE_LOG")
                   + Writes(handlerPc) + Writing
    BY CalmTypes
  <2>2. InHand' = Writes(dispatching) + Occurrences(queueOut, "WRITE_LOG")
                    + Writes(handlerPc') + Writing'
    BY <1>1 DEF InHand, Writes, Writing
  <2>3. /\ Writes(handlerPc) = 1 /\ Writing = 0
        /\ Writes(handlerPc') = 0 /\ Writing' = 1
        /\ Writes(dispatching) \in Nat
    BY <1>1, <1>2 DEF Writes, Writing
  <2>. QED
    BY <1>0, <2>1, <2>2, <2>3
<1>8. CountInv'
  BY <1>1, <1>4, <1>7 DEF Calm, CountInv
<1>9. LinesInv'
  <2>1. Logged + InHand = value_sensor
    BY DEF Calm, CountInv
  <2>2. redirect'["handler"].line.value = value_sensor
    BY <1>2
  <2>3. value_sensor \in Logged + 1 .. value_sensor
    BY <1>0, <1>7, <2>1
  <2>. QED
    BY <1>1, <1>3, <1>4, <2>2, <2>3 DEF Calm, LinesInv
<1>. QED
  BY <1>5, <1>6, <1>8, <1>9 DEF Calm

\* What the handler does besides, and app_main.
LEMMA OtherCalm ==
  ASSUME TypeOK, BootInv, Calm, Mount \/ HandleRead \/ AppMain
  PROVE  Calm'
<1>0. value_sensor \in Nat /\ Logged \in Nat
  BY CalmTypes
<1>1. UNCHANGED <<due, dispatching, queueOut, is_first_time, redirect, run,
                  value_sensor>>
  BY DEF Mount, HandleRead, AppMain, StartHandler, StartTimers, timerVars,
     handlerVars, logVars
<1>2. Begun' = Begun /\ Writing' = Writing
  BY <1>1 DEF Begun, Writing
<1>3. /\ handlerPc' = "READ_LOG" => handlerPc = "READ_LOG"
      /\ handlerPc' = "WRITE_LOG" <=> handlerPc = "WRITE_LOG"
  BY DEF Mount, HandleRead, AppMain, StartHandler, StartTimers, handlerVars,
     BootInv
<1>4. PaceInv' /\ ReadInv'
  <2>1. CASE StartTimers
    <3>1. value_sensor = 0 /\ due = 0
      BY <2>1 DEF StartTimers, BootInv
    <3>2. PaceInv'
      BY <1>1, <3>1 DEF PaceInv
    <3>3. ReadInv'
      BY <1>1, <2>1 DEF StartTimers, Calm, ReadInv, handlerVars
    <3>. QED
      BY <3>2, <3>3
  <2>2. CASE ~StartTimers
    <3>1. armed' # {} => armed # {} /\ (handlerPc = "READ_LOG" =>
                                          handlerPc' = "READ_LOG")
      BY <2>2 DEF Mount, HandleRead, AppMain, StartHandler, timerVars, BootInv,
         Stopped
    <3>. QED
      BY <1>1, <1>3, <3>1, PaceKept DEF Calm
  <2>. QED
    BY <2>1, <2>2
<1>5. CASE file' = file
  <2>1. RedirectInv' /\ LinesInv' /\ Logged' = Logged
    BY <1>0, <1>1, <1>5, LogKept DEF Calm
  <2>2. CountInv'
    <3>1. InHand' = InHand
      BY <1>1, <1>3 DEF InHand
    <3>. QED
      BY <1>1, <2>1, <3>1 DEF Calm, CountInv
  <2>. QED
    BY <1>4, <2>1, <2>2 DEF Calm
<1>6. CASE file' # file
  <2>1. Mount
    BY <1>6 DEF HandleRead, AppMain, StartHandler, StartTimers, logVars
  <2>2. is_first_time /\ redirect["handler"].at = "outside"
    BY <2>1 DEF Mount, BootInv
  <2>3. ~Begun /\ ~Begun'
    BY <1>2, <2>2 DEF Begun
  <2>4. Logged' = Logged
    BY <2>3 DEF Logged
  <2>5. RedirectInv' /\ LinesInv'
    BY <1>1, <2>2, <2>3 DEF Calm, RedirectInv, LinesInv
  <2>6. CountInv'
    <3>1. InHand' = InHand
      BY <1>1, <1>3 DEF InHand
    <3>. QED
      BY <1>1, <2>4, <3>1 DEF Calm, CountInv
  <2>. QED
    BY <1>4, <2>5, <2>6 DEF Calm
<1>. QED
  BY <1>5, <1>6

\* The handler in redirect_log: the first line of a run replaces the file, the
\* others go to its end.
LEMMA RedirectCalm ==
  ASSUME TypeOK, Calm, NEW task \in Tasks, RedirectLog(task), ~disturbed'
  PROVE  Calm'
<1>. DEFINE log == redirect["handler"]
<1>0. /\ value_sensor \in Nat /\ Logged \in Nat /\ Len(file) \in Nat
      /\ Occurrences(queueOut, "WRITE_LOG") \in Nat
      /\ redirect \in [Tasks -> Redirections]
      /\ log.line \in Lines /\ log.base \in Seq(Lines) /\ file \in Seq(Lines)
  BY CalmTypes, LogTypes
<1>1. UNCHANGED <<armed, due, dispatching, queueOut, handlerPc, run,
                  value_sensor>>
  BY DEF RedirectLog, ClearFirstTime, OpenLog, OpenFails, WriteLog, programVars,
     timerVars, handlerVars
<1>2. redirect[task].at # "outside"
  BY DEF RedirectLog, ClearFirstTime, OpenLog, OpenFails, WriteLog
<1>3. task = "handler"
  BY <1>2 DEF Calm, RedirectInv
<1>4. redirect'["timer"] = redirect["timer"]
  BY <1>0, <1>3 DEF RedirectLog, ClearFirstTime, OpenLog, OpenFails, WriteLog
<1>5. PaceInv' /\ ReadInv'
  BY <1>1, PaceKept DEF Calm
<1>6. InHand = Writes(dispatching) + Occurrences(queueOut, "WRITE_LOG")
                 + Writes(handlerPc) + Writing
  BY CalmTypes
<1>7. InHand' = Writes(dispatching) + Occurrences(queueOut, "WRITE_LOG")
                  + Writes(handlerPc) + Writing'
  BY <1>1 DEF InHand, Writes, Writing
<1>8. /\ Writes(dispatching) \in Nat /\ Writes(handlerPc) \in Nat
      /\ Writing = 1
  BY <1>2, <1>3 DEF Writes, Writing
<1>9. /\ log.line.run = run /\ log.line.value \in Logged + 1 .. value_sensor
      /\ Logged + InHand = value_sensor
  BY <1>2, <1>3 DEF Calm, RedirectInv, LinesInv, CountInv
<1>10. CASE ClearFirstTime("handler")
  <2>1. /\ log.at = "clear" /\ file' = file /\ ~is_first_time'
        /\ is_first_time /\ log.mode = "wb"
    BY <1>10 DEF ClearFirstTime, Cleared, Calm, RedirectInv
  <2>2. /\ redirect'["handler"].at = "open" /\ redirect'["handler"].mode = "wb"
        /\ redirect'["handler"].line = log.line
    BY <1>0, <1>10, <2>1 DEF ClearFirstTime, Redirections
  <2>3. ~Begun /\ ~Begun'
    BY <2>1, <2>2 DEF Begun
  <2>4. Logged' = Logged
    BY <2>3 DEF Logged
  <2>5. RedirectInv'
    BY <1>1, <1>4, <1>9, <2>1, <2>2 DEF Calm, RedirectInv
  <2>6. LinesInv'
    BY <1>1, <1>9, <2>2, <2>3, <2>4 DEF LinesInv
  <2>7. Writing' = 1
    BY <2>2 DEF Writing
  <2>8. CountInv'
    BY <1>1, <1>6, <1>7, <1>8, <1>9, <2>4, <2>7 DEF CountInv
  <2>. QED
    BY <1>5, <2>5, <2>6, <2>8 DEF Calm
<1>11. CASE OpenLog("handler")
  <2>1. /\ log.at = "open" /\ ~is_first_time /\ ~is_first_time'
        /\ file' = Opened(log.mode)
    BY <1>11 DEF OpenLog, Calm, RedirectInv
  <2>2. /\ redirect'["handler"].at = "write" /\ redirect'["handler"].base = file'
        /\ redirect'["handler"].line = log.line
    BY <1>0, <1>11, <2>1 DEF OpenLog, Redirections
  <2>3. Begun'
    BY <2>1, <2>2 DEF Begun
  <2>6. Logged' = Logged
    <3>1. CASE log.mode = "wb"
      <4>1. file' = <<>> /\ Len(file') = 0
        BY <2>1, <3>1 DEF Opened
      <4>. QED
        BY <2>1, <2>3, <3>1, <4>1 DEF Logged, Begun
    <3>2. CASE log.mode # "wb"
      <4>1. file' = file /\ Begun
        BY <2>1, <3>2 DEF Opened, Begun
      <4>. QED
        BY <2>3, <4>1 DEF Logged
    <3>. QED
      BY <3>1, <3>2
  <2>7. RedirectInv'
    BY <1>1, <1>4, <1>9, <2>1, <2>2 DEF Calm, RedirectInv
  <2>8. \A k \in 1 .. Len(file') : /\ file'[k].run = run'
                                   /\ file'[k].value \in k .. value_sensor'
    <3>1. CASE log.mode = "wb"
      <4>1. Len(file') = 0
        BY <2>1, <3>1 DEF Opened
      <4>. QED
        BY <4>1
    <3>2. CASE log.mode # "wb"
      <4>1. file' = file /\ Begun
        BY <2>1, <3>2 DEF Opened, Begun
      <4>. QED
        BY <1>1, <4>1 DEF Calm, LinesInv
    <3>. QED
      BY <3>1, <3>2
  <2>9. LinesInv'
    BY <1>1, <1>9, <2>2, <2>6, <2>8 DEF LinesInv
  <2>10. Writing' = 1
    BY <2>2 DEF Writing
  <2>11. CountInv'
    BY <1>1, <1>6, <1>7, <1>8, <1>9, <2>6, <2>10 DEF CountInv
  <2>. QED
    BY <1>5, <2>7, <2>9, <2>11 DEF Calm
<1>12. CASE OpenFails("handler")
  BY <1>12 DEF OpenFails
<1>13. CASE WriteLog("handler")
  <2>1. log.at = "write" /\ log.base = file /\ ~is_first_time
    BY <1>13 DEF WriteLog, Calm, RedirectInv
  <2>2. /\ file' = Append(file, log.line) /\ is_first_time' = is_first_time
        /\ redirect'["handler"].at = "outside"
    BY <1>0, <1>13, <2>1, OutsideType DEF WriteLog, Written
  <2>3. /\ Len(file') = Len(file) + 1
        /\ \A k \in 1 .. Len(file) : file'[k] = file[k]
        /\ file'[Len(file) + 1] = log.line
    BY <1>0, <2>2, AppendProperties
  <2>4. Begun /\ Begun'
    BY <2>1, <2>2 DEF Begun
  <2>5. Logged = Len(file) /\ Logged' = Logged + 1
    BY <2>3, <2>4 DEF Logged
  <2>6. RedirectInv'
    BY <1>4, <2>2 DEF Calm, RedirectInv
  <2>7. ASSUME NEW k \in 1 .. Len(file')
        PROVE  file'[k].run = run' /\ file'[k].value \in k .. value_sensor'
    <3>1. CASE k \in 1 .. Len(file)
      BY <1>1, <2>3, <2>4, <3>1 DEF Calm, LinesInv
    <3>2. CASE k = Len(file) + 1
      BY <1>1, <1>9, <2>3, <2>5, <3>2
    <3>. QED
      BY <1>0, <2>3, <3>1, <3>2
  <2>8. LinesInv'
    BY <2>2, <2>7 DEF LinesInv
  <2>9. Writing' = 0
    BY <2>2 DEF Writing
  <2>10. CountInv'
    <3>1. InHand' = InHand - 1 /\ InHand \in Nat
      BY <1>0, <1>6, <1>7, <1>8, <2>9
    <3>. QED
      BY <1>0, <1>1, <1>9, <2>5, <3>1 DEF CountInv
  <2>. QED
    BY <1>5, <2>6, <2>8, <2>10 DEF Calm
<1>. QED
  BY <1>3, <1>10, <1>11, <1>12, <1>13 DEF RedirectLog

LEMMA InitialCalm == Init => Calm
<1>. SUFFICES ASSUME Init PROVE Calm
  OBVIOUS
<1>1. /\ redirect["handler"].at = "outside" /\ redirect["timer"].at = "outside"
      /\ Len(queueOut) = 0
  BY OutsideType DEF Init
<1>2. ~Begun /\ Logged = 0
  BY DEF Init, Begun, Logged
<1>3. Occurrences(queueOut, "WRITE_LOG") = 0
  BY OccurrencesEmpty DEF Init
<1>4. InHand = 0
  BY <1>1, <1>3 DEF Init, InHand
<1>5. RedirectInv /\ PaceInv /\ LinesInv /\ ReadInv
  BY <1>1, <1>2 DEF Init, RedirectInv, PaceInv, LinesInv, ReadInv
<1>6. CountInv
  BY <1>2, <1>4 DEF Init, CountInv
<1>. QED
  BY <1>5, <1>6 DEF Calm

\* A new run has logged nothing, whatever the file holds.
LEMMA RestartCalm == Restart => Calm'
<1>. SUFFICES ASSUME Restart PROVE Calm'
  OBVIOUS
<1>1. /\ redirect'["handler"].at = "outside"
      /\ redirect'["timer"].at = "outside" /\ Len(queueOut') = 0
  BY OutsideType DEF Restart
<1>2. ~Begun' /\ Logged' = 0
  BY DEF Restart, Begun, Logged
<1>3. Occurrences(queueOut', "WRITE_LOG") = 0
  BY OccurrencesEmpty DEF Restart
<1>4. InHand' = 0
  BY <1>1, <1>3 DEF Restart, InHand
<1>5. RedirectInv' /\ PaceInv' /\ LinesInv' /\ ReadInv'
  BY <1>1, <1>2 DEF Restart, RedirectInv, PaceInv, LinesInv, ReadInv
<1>6. CountInv'
  BY <1>2, <1>4 DEF Restart, CountInv
<1>. QED
  BY <1>5, <1>6 DEF Calm

LEMMA StutterCalm == Calm /\ UNCHANGED vars => Calm'
<1>. SUFFICES ASSUME Calm, UNCHANGED vars PROVE Calm'
  OBVIOUS
<1>1. UNCHANGED <<armed, due, dispatching, queueOut, handlerPc, is_first_time,
                  redirect, file, run, value_sensor>>
  BY DEF vars, programVars, timerVars, handlerVars, logVars
<1>2. RedirectInv' /\ PaceInv' /\ ReadInv'
  BY <1>1 DEF Calm, RedirectInv, PaceInv, ReadInv
<1>3. Begun' = Begun /\ InHand' = InHand
  BY <1>1 DEF Begun, InHand
<1>4. Logged' = Logged
  BY <1>1, <1>3 DEF Logged
<1>5. CountInv' /\ LinesInv'
  BY <1>1, <1>3, <1>4 DEF Calm, CountInv, LinesInv
<1>. QED
  BY <1>2, <1>5 DEF Calm

LEMMA CalmPreserved ==
  TypeOK /\ BootInv /\ CalmInv /\ [Next]_vars => CalmInv'
<1>. SUFFICES ASSUME TypeOK, BootInv, CalmInv, [Next]_vars, ~disturbed'
              PROVE  Calm'
  BY DEF CalmInv
<1>1. CASE Restart \/ ReadFails
  BY <1>1, RestartCalm DEF ReadFails
<1>2. CASE ~(Restart \/ ReadFails)
  <2>1. ~disturbed
    BY <1>2 DEF Next, AppMain, StartHandler, StartTimers, TimerTask,
       SensorExpires, ReaderExpires, SendEvent, Handler, Mount, Receive,
       HandleWrite, HandleRead, RedirectLog, ClearFirstTime, OpenLog, OpenFails,
       WriteLog, vars, logVars
  <2>2. Calm
    BY <2>1 DEF CalmInv
  <2>3. CASE AppMain \/ Mount \/ HandleRead
    BY <2>2, <2>3, OtherCalm
  <2>4. CASE SensorExpires
    BY <2>2, <2>4, SensorCalm
  <2>5. CASE ReaderExpires
    BY <2>2, <2>5, ReaderCalm
  <2>6. CASE SendEvent
    BY <2>2, <2>6, SendCalm
  <2>7. CASE RedirectLog("timer") \/ RedirectLog("handler")
    BY <2>2, <2>7, RedirectCalm
  <2>8. CASE Receive
    BY <2>2, <2>8, ReceiveCalm
  <2>9. CASE HandleWrite
    BY <2>2, <2>9, HandleWriteCalm
  <2>10. CASE UNCHANGED vars
    BY <2>2, <2>10, StutterCalm
  <2>. QED
    BY <1>2, <2>3, <2>4, <2>5, <2>6, <2>7, <2>8, <2>9, <2>10
       DEF Next, TimerTask, Handler
<1>. QED
  BY <1>1, <1>2

LEMMA CalmIsKept == Spec => [](TypeOK /\ BootInv /\ CalmInv)
<1>1. Init => CalmInv
  BY InitialCalm DEF CalmInv
<1>. QED
  BY <1>1, TypeCorrect, InitialBoot, BootPreserved, CalmPreserved, PTL DEF Spec

\* In a run without failures the value of a line is its number and the events
\* that wait behind its own: the handler logs the last sample there is, and there
\* are as many samples as lines and events.
THEOREM LinesLag == Spec => LinesLagByBacklog
<1>1. TypeOK /\ BootInv /\ CalmInv /\ [Next]_vars
        => [HandleWrite /\ ~disturbed =>
              redirect'["handler"].line.value =
                (IF Begun THEN Len(file) ELSE 0) + 1 + Backlog]_vars
  <2>. SUFFICES ASSUME TypeOK, BootInv, CalmInv, HandleWrite, ~disturbed
                PROVE  redirect'["handler"].line.value = Logged + 1 + Backlog
    BY DEF Logged
  <2>1. /\ Logged \in Nat /\ value_sensor \in Nat
        /\ Occurrences(queueOut, "WRITE_LOG") \in Nat
        /\ redirect \in [Tasks -> Redirections]
        /\ InHand = Writes(dispatching) + Occurrences(queueOut, "WRITE_LOG")
                      + Writes(handlerPc) + Writing
    BY CalmTypes
  <2>2. redirect'["handler"].line.value = value_sensor
    BY <2>1 DEF HandleWrite, Enter
  <2>3. /\ Writes(handlerPc) = 1 /\ Writing = 0 /\ Writes(dispatching) \in Nat
        /\ Backlog = Writes(dispatching) + Occurrences(queueOut, "WRITE_LOG")
    BY DEF HandleWrite, BootInv, Writes, Writing, Backlog
  <2>4. Logged + InHand = value_sensor
    BY DEF CalmInv, Calm, CountInv
  <2>. QED
    BY <2>1, <2>2, <2>3, <2>4
<1>. QED
  BY <1>1, CalmIsKept, PTL DEF Spec, LinesLagByBacklog

\* In a run without failures the first line replaces the file of the run before,
\* and the k-th line is of the k-th sample or a newer one.
THEOREM RunReplacesTheLog == Spec => []LogIsOfThisRun
<1>1. CalmInv => LogIsOfThisRun
  BY DEF CalmInv, Calm, LinesInv, LogIsOfThisRun
<1>. QED
  BY <1>1, CalmIsKept, PTL

\* In a run without failures a reading finds the samples of its period in the
\* file: it shows all the lines it is to show.
THEOREM ReadingShowsItsLines == Spec => ReadingIsWhole
<1>1. TypeOK /\ BootInv /\ CalmInv /\ [Next]_vars
        => [HandleRead /\ ~disturbed => shown' = NUM_LOGS_READ]_vars
  <2>. SUFFICES ASSUME TypeOK, BootInv, CalmInv, HandleRead, ~disturbed
                PROVE  shown' = NUM_LOGS_READ
    OBVIOUS
  <2>1. /\ Logged \in Nat /\ Len(file) \in Nat /\ value_sensor \in Nat
        /\ Occurrences(queueOut, "WRITE_LOG") \in Nat
        /\ InHand = Writes(dispatching) + Occurrences(queueOut, "WRITE_LOG")
                      + Writes(handlerPc) + Writing
    BY CalmTypes
  <2>2. /\ Writes(handlerPc) = 0 /\ Writing = 0 /\ Writes(dispatching) \in Nat
    BY DEF HandleRead, BootInv, Writes, Writing
  <2>3. /\ value_sensor >= SENSORS_PER_READ + Writes(dispatching)
                             + Occurrences(queueOut, "WRITE_LOG")
        /\ Logged + InHand = value_sensor
    BY DEF HandleRead, CalmInv, Calm, ReadInv, CountInv
  <2>4. Logged >= NUM_LOGS_READ
    BY <2>1, <2>2, <2>3
  <2>5. Len(file) >= NUM_LOGS_READ
    BY <2>1, <2>4 DEF Logged
  <2>. QED
    BY <2>1, <2>5 DEF HandleRead, FirstLines
<1>. QED
  BY <1>1, CalmIsKept, PTL DEF Spec, ReadingIsWhole

=============================================================================
