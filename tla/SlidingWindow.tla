---------------------------- MODULE SlidingWindow ----------------------------
(***************************************************************************)
(* What the filter of practice 2 promises: it remembers the last           *)
(* NUM_WEIGHTING_COEFFICIENTS samples, newest first, and, once WarmUp      *)
(* samples went by without a result, answers every further sample with the *)
(* weighted mean of the window.                                            *)
(***************************************************************************)
EXTENDS Weighting

CONSTANTS
  Samples,    \* values a sensor can produce
  WarmUp,     \* number of first samples that produce no mean
  NoMean      \* output of a sample that produces no mean

VARIABLES
  window,     \* window[age]: the sample that is `age' samples old
  taken,      \* samples taken so far, counted up to WarmUp
  mean        \* answer to the last sample

windowVars == <<window, taken, mean>>

\* The window after one more sample: it is the newest, the oldest is forgotten.
Shifted(sample) == [age \in Ages |-> IF age = 0 THEN sample ELSE window[age-1]]

Init ==
  /\ window = [age \in Ages |-> 0]
  /\ taken = 0
  /\ mean = NoMean

Push(sample) ==
  /\ window' = Shifted(sample)
  /\ IF taken < WarmUp
       THEN taken' = taken + 1 /\ mean' = NoMean
       ELSE taken' = taken /\ mean' = WeightedSum(Shifted(sample))

Next == \E sample \in Samples : Push(sample)

Spec == Init /\ [][Next]_windowVars

=============================================================================
