----------------------------- MODULE FilterStage -----------------------------
(***************************************************************************)
(* The computation of filterTask for one sensor, in isolation: every       *)
(* sample received is inserted into the circular vector, and a mean is     *)
(* computed when the vector was already full.  The queues around it are    *)
(* in module Pipeline.                                                     *)
(***************************************************************************)
EXTENDS CircularVector

CONSTANTS
  Samples,    \* values readSensor can return (0 .. 99 in the code)
  NoMean      \* filterTask sends nothing for this sample

ASSUME SamplesAssumption == Samples \subseteq Int
ASSUME NoMeanAssumption == NoMean \notin Int

VARIABLES
  filterCount,    \* sensor->filterCount
  weightedMean    \* mean sent for the last sample, or NoMean

filterVars == <<filterCount, weightedMean>>

Init ==
  /\ filterCount = EmptyVector
  /\ weightedMean = NoMean

ProcessSample(sample) ==
  LET inserted == insertValue(filterCount, sample)
  IN  /\ filterCount' = CountIn(inserted)
      /\ weightedMean' = IF IsFull(inserted)
                           THEN getWeightedMean(inserted) ELSE NoMean

Next == \E sample \in Samples : ProcessSample(sample)

Spec == Init /\ [][Next]_filterVars

-----------------------------------------------------------------------------

\* The vector stays well formed and a mean is always that of real samples or
\* of the zeroes of init(); filterTask updates both for every sample.
TypeOK ==
  /\ filterCount \in [values : [Slots -> Samples \union {0}], index : Slots,
                      aforo : 0 .. NUM_WEIGHTING_COEFFICIENTS,
                      aforoMax : {NUM_WEIGHTING_COEFFICIENTS}]
  /\ \/ weightedMean = NoMean
     \/ \E samples \in [Ages -> Samples \union {0}] :
          weightedMean = WeightedSum(samples)

\* The ring implements the sliding window: whatever the position of `index',
\* the loops of getWeightedMean see the last samples newest first, and the mean
\* is computed for every sample but the first NUM_WEIGHTING_COEFFICIENTS.
Window ==
  INSTANCE SlidingWindow WITH
    window <- ByAge(filterCount),
    taken  <- filterCount.aforo,
    mean   <- weightedMean,
    WarmUp <- NUM_WEIGHTING_COEFFICIENTS

ImplementsWindow == Window!Spec

\* What the practice asks for: "Durante las primeras cuatro muestras no
\* realizara ningun computo" - only the first four samples, with a window of
\* five, go without a mean.
PromisedWindow ==
  INSTANCE SlidingWindow WITH
    window <- ByAge(filterCount),
    taken  <- IF IsFull(filterCount) THEN filterCount.aforo - 1
                                     ELSE filterCount.aforo,
    mean   <- weightedMean,
    WarmUp <- NUM_WEIGHTING_COEFFICIENTS - 1

FirstMeanAtFullWindow == PromisedWindow!Spec

=============================================================================
