-------------------------------- MODULE MCReset --------------------------------
(***************************************************************************)
(* An instance of the pipeline with reset for TLC, on the words and the    *)
(* encodings of MCPipeline.                                                *)
(***************************************************************************)
EXTENDS MCPipeline, PipelineReset

\* Reset comes while these run: a load and its reader, a store over the
\* program, a jump and a trap in the first three words, a branch behind them.
ResetPrograms == Programs(3, {{3, 5, 7, 9, 14}}, Rest)
ResetImages   == ResetPrograms
===============================================================================
