-------------------------- MODULE FilterStageProofs --------------------------
(***************************************************************************)
(* The ring of filterTask is correct for every window length, every        *)
(* coefficients and every set of samples: it stays well formed and it      *)
(* implements the sliding window.                                          *)
(***************************************************************************)
EXTENDS FilterStage, CircularVectorProofs

USE WindowAssumption, SamplesAssumption, NoMeanAssumption DEF Ages, Slots

-----------------------------------------------------------------------------

\* The ring stays inside its array and holds only samples, in every reachable
\* state of filterTask.
THEOREM TypeCorrect == Spec => []TypeOK
<1>1. Init => TypeOK
  BY EmptyByAge DEF Init, TypeOK, VectorsOf
<1>2. TypeOK /\ [Next]_filterVars => TypeOK'
  <2>. SUFFICES ASSUME TypeOK, [Next]_filterVars PROVE TypeOK'
    OBVIOUS
  <2>1. ASSUME NEW sample \in Samples, ProcessSample(sample) PROVE TypeOK'
    <3>. DEFINE inserted == insertValue(filterCount, sample)
    <3>1. inserted \in VectorsOf(Samples)
      BY InsertType DEF TypeOK, VectorsOf
    <3>2. filterCount' \in VectorsOf(Samples)
      BY <2>1, <3>1, CountInType DEF ProcessSample
    <3>3. \/ weightedMean' = NoMean
          \/ weightedMean' = WeightedSum(ByAge(inserted))
      BY <2>1 DEF ProcessSample, getWeightedMean
    <3>4. ByAge(inserted) \in [Ages -> Samples \union {0}]
      BY <3>1, ByAgeType
    <3>. QED
      BY <3>2, <3>3, <3>4, Zenon DEF TypeOK, VectorsOf
  <2>2. CASE UNCHANGED filterVars
    BY <2>2 DEF TypeOK, filterVars
  <2>. QED
    BY <2>1, <2>2 DEF Next
<1>. QED
  BY <1>1, <1>2, PTL DEF Spec

\* A mean computed by the loops is the window's weighted mean.
LEMMA SameMean ==
  ASSUME NEW samples
  PROVE  WeightedSum(samples) = Window!WeightedSum(samples)
BY Zenon DEF WeightedSum, Window!WeightedSum

\* filterTask implements the sliding window: whatever the position of the
\* index, the loops pair each sample with the coefficient of its age.
THEOREM RingIsWindow == Spec => ImplementsWindow
<1>1. Init => Window!Init
  BY EmptyByAge DEF Init, Window!Init, EmptyVector, Window!Ages
<1>2. TypeOK /\ [Next]_filterVars => [Window!Next]_Window!windowVars
  <2>. SUFFICES ASSUME TypeOK, [Next]_filterVars
                PROVE  [Window!Next]_Window!windowVars
    OBVIOUS
  <2>1. ASSUME NEW sample \in Samples, ProcessSample(sample)
        PROVE  Window!Push(sample)
    <3>. DEFINE inserted == insertValue(filterCount, sample)
    <3>1. filterCount \in VectorsOf(Samples) /\ inserted \in VectorsOf(Samples)
      BY InsertType DEF TypeOK, VectorsOf
    <3>2. ByAge(inserted) = Window!Shifted(sample)
      BY <3>1, InsertByAge DEF Window!Shifted, Window!Ages
    <3>3. ByAge(filterCount)' = Window!Shifted(sample)
      <4>1. ByAge(CountIn(inserted)) = ByAge(inserted)
        BY <3>1, CountInByAge
      <4>2. ByAge(filterCount)' = ByAge(CountIn(inserted))
        BY <2>1 DEF ProcessSample, ByAge, SlotOfAge
      <4>. QED
        BY <3>2, <4>1, <4>2
    <3>4. inserted.aforo = filterCount.aforo /\ inserted.aforoMax = filterCount.aforoMax
      BY <3>1 DEF insertValue, VectorsOf
    <3>5. CASE IsFull(inserted)
      <4>1. filterCount.aforo' = filterCount.aforo
        BY <2>1, <3>4, <3>5 DEF ProcessSample, CountIn
      <4>2. weightedMean' = Window!WeightedSum(Window!Shifted(sample))
        BY <2>1, <3>2, <3>5, SameMean DEF ProcessSample, getWeightedMean
      <4>3. ~(filterCount.aforo < NUM_WEIGHTING_COEFFICIENTS)
        BY <3>1, <3>4, <3>5 DEF IsFull, VectorsOf
      <4>. QED
        BY <3>3, <4>1, <4>2, <4>3 DEF Window!Push
    <3>6. CASE ~IsFull(inserted)
      <4>1. filterCount.aforo' = filterCount.aforo + 1
        BY <2>1, <3>1, <3>4, <3>6 DEF ProcessSample, CountIn, VectorsOf
      <4>2. weightedMean' = NoMean
        BY <2>1, <3>6 DEF ProcessSample
      <4>3. filterCount.aforo < NUM_WEIGHTING_COEFFICIENTS
        BY <3>1, <3>4, <3>6 DEF IsFull, VectorsOf
      <4>. QED
        BY <3>3, <4>1, <4>2, <4>3 DEF Window!Push
    <3>. QED
      BY <3>5, <3>6
  <2>2. CASE UNCHANGED filterVars
    BY <2>2 DEF filterVars, Window!windowVars, ByAge, SlotOfAge
  <2>. QED
    BY <2>1, <2>2 DEF Next, Window!Next
<1>. QED
  BY <1>1, <1>2, TypeCorrect, PTL DEF Spec, ImplementsWindow, Window!Spec

=============================================================================
