---------------------------- MODULE MCDatabaseThread ----------------------------
(***************************************************************************)
(* Instances of DatabaseThread for TLC.                                    *)
(***************************************************************************)
EXTENDS DatabaseThread

CONSTANTS stage, main

\* A stage thread and the application's main thread.
StageAndMain == {stage, main}
================================================================================
