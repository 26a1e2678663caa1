--------------------------- MODULE MCPipelineThreads ---------------------------
(***************************************************************************)
(* Instances of PipelineThreads for TLC.                                   *)
(***************************************************************************)
EXTENDS PipelineThreads

\* A stage on its own thread and two database stages on the database thread.
TwoDbStages == <<1, 2, 2>>

\* The SimplePipeline example: a compressor thread and a database thread.
CompressAndWrite == <<1, 2>>
================================================================================
