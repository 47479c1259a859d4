----------------------------- MODULE Stopwatch -----------------------------
(***************************************************************************)
(* The chronometer as its user knows it: seconds pass, Start/Stop toggles  *)
(* it, Reset zeroes and stops it.                                          *)
(***************************************************************************)
EXTENDS Integers

CONSTANT MaxCount      \* bound: the count stops growing here

VARIABLES
  running,
  seconds

stopwatchVars == <<running, seconds>>

Init ==
  /\ running = TRUE
  /\ seconds = 0

Second ==
  /\ running
  /\ seconds' = IF seconds < MaxCount THEN seconds + 1 ELSE seconds
  /\ UNCHANGED running

StartStop ==
  /\ running' = ~running
  /\ UNCHANGED seconds

Reset ==
  /\ running' = FALSE
  /\ seconds' = 0

Next == Second \/ StartStop \/ Reset

Spec == Init /\ [][Next]_stopwatchVars

=============================================================================
