------------------------------ MODULE Weighting ------------------------------
(***************************************************************************)
(* The weighted sum both descriptions of the filter are built on: the      *)
(* accumulation loop of p2/src/main.c (weightedMean += value * coef).      *)
(* Coefficients are hundredths, so 0.45 is 45 and a mean of 54.2 is 5420;  *)
(* the rounding of 32-bit floats is left out.                              *)
(***************************************************************************)
EXTENDS Integers

CONSTANTS
  NUM_WEIGHTING_COEFFICIENTS,  \* length of the window (5 in the code)
  weightingCoefficients        \* coefficient of each age, 0 = newest

Ages == 0 .. NUM_WEIGHTING_COEFFICIENTS - 1

ASSUME WindowAssumption == NUM_WEIGHTING_COEFFICIENTS \in Nat \ {0}
ASSUME CoefficientsAssumption == weightingCoefficients \in [Ages -> Int]

\* Sum over the ages of samples[age] * weightingCoefficients[age], accumulated
\* in the order of the loops' indCoeficientes.
WeightedSum(samples) ==
  LET sum[n \in 0 .. NUM_WEIGHTING_COEFFICIENTS] ==
        IF n = 0 THEN 0
        ELSE sum[n-1] + samples[n-1] * weightingCoefficients[n-1]
  IN  sum[NUM_WEIGHTING_COEFFICIENTS]

=============================================================================
