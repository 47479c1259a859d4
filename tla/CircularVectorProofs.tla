------------------------- MODULE CircularVectorProofs -------------------------
(***************************************************************************)
(* Facts about the ring, for every window length and every set of samples. *)
(***************************************************************************)
EXTENDS CircularVector, TLAPS

USE WindowAssumption DEF Ages, Slots

\* Well-formed vectors of samples taken from a set.
VectorsOf(Values) ==
  [values : [Slots -> Values \union {0}], index : Slots,
   aforo : 0 .. NUM_WEIGHTING_COEFFICIENTS,
   aforoMax : {NUM_WEIGHTING_COEFFICIENTS}]

\* The two loops of getWeightedMean never leave the array.
LEMMA SlotOfAgeType ==
  ASSUME NEW Values, NEW vector \in VectorsOf(Values), NEW age \in Ages
  PROVE  SlotOfAge(vector, age) \in Slots
BY DEF VectorsOf, SlotOfAge

\* insertValue keeps the vector well formed, counted or not.
LEMMA InsertType ==
  ASSUME NEW Values, NEW vector \in VectorsOf(Values), NEW sample \in Values
  PROVE  insertValue(vector, sample) \in VectorsOf(Values)
<1>. DEFINE at == (IF vector.index = 0 THEN vector.aforoMax ELSE vector.index) - 1
            values == [vector.values EXCEPT ![at] = sample]
<1>1. at \in Slots
  BY DEF VectorsOf
<1>2. values \in [Slots -> Values \union {0}]
  BY DEF VectorsOf
<1>. HIDE DEF at, values
<1>3. [vector EXCEPT !.index = at, !.values = values] \in VectorsOf(Values)
  BY <1>1, <1>2 DEF VectorsOf
<1>. QED
  BY <1>3 DEF insertValue, at, values

LEMMA CountInType ==
  ASSUME NEW Values, NEW vector \in VectorsOf(Values)
  PROVE  CountIn(vector) \in VectorsOf(Values)
BY DEF VectorsOf, CountIn, IsFull

\* The samples read back from the vector are samples or initial zeroes.
LEMMA ByAgeType ==
  ASSUME NEW Values, NEW vector \in VectorsOf(Values)
  PROVE  ByAge(vector) \in [Ages -> Values \union {0}]
BY SlotOfAgeType DEF VectorsOf, ByAge

\* The vector of init() reads back as zeroes.
LEMMA EmptyByAge ==
  ASSUME NEW Values
  PROVE  /\ EmptyVector \in VectorsOf(Values)
         /\ ByAge(EmptyVector) = [age \in Ages |-> 0]
<1>1. EmptyVector \in VectorsOf(Values)
  BY DEF EmptyVector, VectorsOf
<1>2. \A age \in Ages : ByAge(EmptyVector)[age] = 0
  BY <1>1, SlotOfAgeType DEF EmptyVector, ByAge
<1>. QED
  BY <1>1, <1>2 DEF ByAge

\* An insertion makes the sample the newest and every other one sample older,
\* wherever the index is and whether or not it wraps.
LEMMA InsertByAge ==
  ASSUME NEW Values, NEW vector \in VectorsOf(Values), NEW sample \in Values
  PROVE  ByAge(insertValue(vector, sample)) =
           [age \in Ages |-> IF age = 0 THEN sample ELSE ByAge(vector)[age-1]]
<1>. DEFINE inserted == insertValue(vector, sample)
            at == (IF vector.index = 0 THEN vector.aforoMax ELSE vector.index) - 1
<1>1. inserted \in VectorsOf(Values)
  BY InsertType
<1>2. /\ vector.index \in Slots
      /\ vector.aforoMax = NUM_WEIGHTING_COEFFICIENTS
      /\ at \in Slots
  BY DEF VectorsOf
<1>3. /\ inserted.index = at
      /\ inserted.aforoMax = vector.aforoMax
      /\ inserted.values = [vector.values EXCEPT ![at] = sample]
  BY DEF insertValue, VectorsOf
<1>. HIDE DEF inserted
<1>4. ASSUME NEW age \in Ages
      PROVE  inserted.values[SlotOfAge(inserted, age)] =
               IF age = 0 THEN sample ELSE ByAge(vector)[age-1]
  <2>1. CASE age = 0
    <3>1. SlotOfAge(inserted, age) = at
      BY <1>1, <1>2, <1>3, <2>1 DEF SlotOfAge, VectorsOf
    <3>. QED
      BY <1>1, <1>2, <1>3, <2>1, <3>1 DEF VectorsOf
  <2>2. CASE age # 0
    <3>1. age - 1 \in Ages
      BY <2>2
    <3>2. SlotOfAge(inserted, age) = SlotOfAge(vector, age - 1)
      BY <1>1, <1>2, <1>3, <2>2 DEF SlotOfAge, VectorsOf
    <3>3. SlotOfAge(inserted, age) # at
      BY <1>1, <1>2, <1>3, <2>2 DEF SlotOfAge, VectorsOf
    <3>4. SlotOfAge(vector, age - 1) \in Slots
      BY <3>1, SlotOfAgeType
    <3>. QED
      BY <1>1, <1>2, <1>3, <2>2, <3>1, <3>2, <3>3, <3>4 DEF ByAge, VectorsOf
  <2>. QED
    BY <2>1, <2>2
<1>. QED
  BY <1>4 DEF ByAge, inserted

\* Counting a sample in does not change what is read back.
LEMMA CountInByAge ==
  ASSUME NEW Values, NEW vector \in VectorsOf(Values)
  PROVE  ByAge(CountIn(vector)) = ByAge(vector)
<1>1. /\ CountIn(vector).values = vector.values
      /\ CountIn(vector).index = vector.index
      /\ CountIn(vector).aforoMax = vector.aforoMax
  BY DEF CountIn, VectorsOf
<1>. QED
  BY <1>1 DEF ByAge, SlotOfAge

=============================================================================
