---------------------------- MODULE MCFilterStage ----------------------------
(* The filter with the window and the coefficients of types.h.             *)
EXTENDS FilterStage

\* types.h, weightingCoefficients, in hundredths.
MCCoefficients ==
  [age \in 0 .. 4 |-> CASE age = 0 -> 45 [] age = 1 -> 25 [] age = 2 -> 15
                        [] age = 3 -> 10 [] age = 4 -> 5]

=============================================================================
