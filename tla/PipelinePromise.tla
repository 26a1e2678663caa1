---------------------------- MODULE PipelinePromise ----------------------------
(***************************************************************************)
(* What a pipeline promises the application that feeds it, without         *)
(* threads, queues or locks: items come out (as database rows) in the      *)
(* order they were submitted, none lost, none twice; while the owner holds *)
(* the whole pipeline frozen (PipelineManager::scopedDisableAll) no row    *)
(* appears unless the owner flushes; a flush of a frozen pipeline, and     *)
(* postSimLoopTeardown, end only when every submitted item is a row.       *)
(*                                                                         *)
(* PipelineThreads.tla is shown to implement this specification.           *)
(***************************************************************************)
EXTENDS Naturals, Sequences

VARIABLES
    sent,      \* number of items submitted so far; item k is the k-th one
    rows,      \* the rows of the sink table, in insertion order
    phase      \* what the owner is doing with the pipeline

promiseVars == <<sent, rows, phase>>

Phases == {"open", "frozen", "flushing", "closed"}

\* Every submitted item is a row.
Complete == Len(rows) = sent

PromiseInit ==
    /\ sent = 0
    /\ rows = <<>>
    /\ phase = "open"

Submit ==
    /\ phase \in {"open", "frozen"}
    /\ sent' = sent + 1
    /\ UNCHANGED <<rows, phase>>

\* The next item in submission order becomes a row.
Write ==
    /\ phase \in {"open", "flushing"}
    /\ Len(rows) < sent
    /\ rows' = Append(rows, Len(rows) + 1)
    /\ UNCHANGED <<sent, phase>>

Freeze ==
    /\ phase = "open"
    /\ phase' = "frozen"
    /\ UNCHANGED <<sent, rows>>

Thaw ==
    /\ phase = "frozen"
    /\ phase' = "open"
    /\ UNCHANGED <<sent, rows>>

BeginFlush ==
    /\ phase = "frozen"
    /\ phase' = "flushing"
    /\ UNCHANGED <<sent, rows>>

EndFlush ==
    /\ phase = "flushing"
    /\ Complete
    /\ phase' = "frozen"
    /\ UNCHANGED <<sent, rows>>

Close ==
    /\ phase = "open"
    /\ Complete
    /\ phase' = "closed"
    /\ UNCHANGED <<sent, rows>>

PromiseNext ==
    \/ Submit
    \/ Write
    \/ Freeze
    \/ Thaw
    \/ BeginFlush
    \/ EndFlush
    \/ Close

PromiseSpec == PromiseInit /\ [][PromiseNext]_promiseVars
================================================================================
