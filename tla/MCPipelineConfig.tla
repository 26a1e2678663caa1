---------------------------- MODULE MCPipelineConfig ----------------------------
(***************************************************************************)
(* A source, a stage that passes on, one that polls at another interval    *)
(* and a database stage, in up to two pipelines of two apps.  A pipeline   *)
(* is begun when the ones before it have their queues, and merging and     *)
(* disabling are asked for when all have theirs: pipelines share nothing   *)
(* before they are opened.                                                 *)
(***************************************************************************)
EXTENDS PipelineConfig, TLC

MCIns == [s \in StageName |-> IF s \in {"source", "slow"} THEN {} ELSE {"in"}]
MCOuts == [s \in StageName |-> IF s \in {"writer", "slow"} THEN {} ELSE {"out"}]
MCInterval == [s \in StageName |-> IF s = "slow" THEN 2 ELSE 1]

OneAtATime == \A p \in DOMAIN pipes : p < Len(pipes) => pipes[p].state \notin
                  {"ACCEPTING_STAGES", "ACCEPTING_BINDINGS"}

LateSettings == live = "building" /\ (disabler.alive \/ merger.made) =>
                    \A p \in DOMAIN pipes : pipes[p].state = "BINDINGS_COMPLETE"

Apps == Permutations(App)

================================================================================
