--------------------------- MODULE CircularVector ---------------------------
(***************************************************************************)
(* CircularVector_t of practice 2: the ring in which filterTask keeps the  *)
(* last samples of one sensor, and the operations on it.  The ring is      *)
(* filled downwards, so `index' is the slot of the newest sample and the   *)
(* samples age upwards from it, wrapping at aforoMax.                      *)
(***************************************************************************)
EXTENDS Weighting

Slots == 0 .. NUM_WEIGHTING_COEFFICIENTS - 1

\* The vector as init() leaves it.
EmptyVector ==
  [values   |-> [slot \in Slots |-> 0],
   index    |-> NUM_WEIGHTING_COEFFICIENTS - 1,
   aforo    |-> 0,
   aforoMax |-> NUM_WEIGHTING_COEFFICIENTS]

\* The newest sample goes to the slot below the previous one.
insertValue(vector, value) ==
  LET at == (IF vector.index = 0 THEN vector.aforoMax ELSE vector.index) - 1
  IN  [vector EXCEPT !.index = at, !.values = [@ EXCEPT ![at] = value]]

\* Fault: the loops start one slot after the newest sample.
SlotOfAgeShifted(vector, age) ==
  IF vector.index + age + 1 < vector.aforoMax
    THEN vector.index + age + 1
    ELSE vector.index + age + 1 - vector.aforoMax

\* The slot the two loops of getWeightedMean pair with coefficient number
\* `age': first index .. aforoMax-1, then 0 .. index-1.
SlotOfAge(vector, age) ==
  IF vector.index + age < vector.aforoMax
    THEN vector.index + age
    ELSE vector.index + age - vector.aforoMax

\* The samples in the order in which the loops visit them.
ByAge(vector) == [age \in Ages |-> vector.values[SlotOfAge(vector, age)]]

getWeightedMean(vector) == WeightedSum(ByAge(vector))

\* Fault: the fill level is not tested.
IsFullAlways(vector) == TRUE

\* filterTask tests the fill level after the insertion and before counting it,
\* so the sample that fills the vector still produces no mean.
IsFull(vector) == vector.aforo >= vector.aforoMax

\* Fault: the fill level is counted beyond the capacity.
CountInAlways(vector) == [vector EXCEPT !.aforo = @ + 1]

CountIn(vector) ==
  IF IsFull(vector) THEN vector ELSE [vector EXCEPT !.aforo = @ + 1]

=============================================================================
