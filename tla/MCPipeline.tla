----------------------------- MODULE MCPipeline -----------------------------
(* The pipeline with a window of two: the weights play no part in it.      *)
EXTENDS PipelineEndless

MCCoefficients == [age \in Ages |-> 1]

=============================================================================
