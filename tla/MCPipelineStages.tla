-------------------------- MODULE MCPipelineStages --------------------------
(* A small instance of PipelineStages: two token values, texts that extend,  *)
(* shorten, contradict and outgrow one another, one malformed reply.         *)
EXTENDS PipelineStages, TLC

CONSTANTS a, b

MCToken == {a, b}
MCTexts == {<<a>>, <<b, a>>, <<a, b, b, a, a>>}
MCRuns  == {<<b>>, <<a, b>>}
MCBad   == {<<b>>}
MCError == <<a>>
=============================================================================
