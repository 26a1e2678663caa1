---------------------------- MODULE PipelineConfig ----------------------------
(***************************************************************************)
(* How pipelines are put together before they run: stages and their ports  *)
(* (Pipeline.hpp, Stage.hpp), queues from bindings (QueueRepo.hpp), threads *)
(* with or without merging (ThreadMerger.hpp), and what PipelineManager    *)
(* hands out before, while and after they run.  PipelineThreads begins     *)
(* where this module's OpenPipelines ends.                                 *)
(*                                                                         *)
(* A port is <<stage name, port name>>; a stage is <<pipeline, position>>.  *)
(* An exception ends the set-up ("failed").                                *)
(***************************************************************************)
EXTENDS Integers, Sequences, FiniteSets

CONSTANTS
    App,                \* apps that own pipelines
    StageName,
    Ins, Outs,          \* the ports the constructor of a stage adds
    DbStages,           \* the stages that are DatabaseStages
    Interval,           \* interval_milliseconds_ of a stage
    DefaultInterval,    \* that of a PollingThread
    MaxPipelines, MaxStages,    \* bounds on how much is built
    Own                 \* a queue of a port that is not bound

ASSUME ConfigAssumption ==
    /\ DbStages \subseteq StageName /\ IsFiniteSet(StageName) /\ IsFiniteSet(App)
    /\ Own \notin UNION {{s} \X Outs[s] : s \in StageName}
    /\ Interval \in [StageName -> Nat] /\ DefaultInterval \in Nat
    /\ MaxPipelines \in Nat /\ MaxStages \in Nat

VARIABLES
    pipes,      \* pipelines_
    merger,     \* thread_merger_: made, merge_all_apps_, apps_to_merge_
    threads,    \* polling_threads_
    live,       \* "building", "open", "failed" or "closed"
    accessors,  \* stages that were given the AsyncDatabaseAccessor
    disabler,   \* whether a disabler is alive, and what it switched off
    cached      \* disabler_runnables_

vars == << pipes, merger, threads, live, accessors, disabler, cached >>

--------------------------------------------------------------------------------
(***************************************************************************)
(* Ports and stages.                                                       *)
(***************************************************************************)
Named(p) == {p.stages[i] : i \in DOMAIN p.stages}
InPorts(p) == UNION {{s} \X Ins[s] : s \in Named(p)}
OutPorts(p) == UNION {{s} \X Outs[s] : s \in Named(p)}
AnyIn == UNION {{s} \X Ins[s] : s \in StageName}
AnyOut == UNION {{s} \X Outs[s] : s \in StageName}

\* port_bindings_: the outputs bound to an input, and whether every port exists.
BoundTo(p, in) == {o \in DOMAIN p.bound : p.bound[o] = in}
Resolves(p) == \A o \in DOMAIN p.bound : o \in OutPorts(p) /\ p.bound[o] \in InPorts(p)

\* Mutant: every input makes its own queue, as if no binding had been given.
FeedsOwn(p) == {[i \in InPorts(p) |-> Own]}

\* Whose queue each input reads: an output bound to it (the last one of port_bindings_'s
\* unordered iteration, if several are), or a queue of its own.
Feeds(p) ==
    {feed \in [InPorts(p) -> OutPorts(p) \cup {Own}] :
        \A i \in InPorts(p) : IF BoundTo(p, i) = {} THEN feed[i] = Own
                                                    ELSE feed[i] \in BoundTo(p, i)}

Unbound(p) == {<< "in", i >> : i \in {i \in InPorts(p) : BoundTo(p, i) = {}}}
                \cup {<< "out", o >> : o \in OutPorts(p) \ DOMAIN p.bound}

Stages == UNION {{p} \X (DOMAIN pipes[p].stages) : p \in DOMAIN pipes}
NameOf(s) == pipes[s[1]].stages[s[2]]
OwnerOf(s) == pipes[s[1]].app
OnDatabase == {s \in Stages : NameOf(s) \in DbStages}
Polled == Stages \ OnDatabase

--------------------------------------------------------------------------------
Init ==
    /\ pipes = << >>
    /\ merger = [made |-> FALSE, all |-> FALSE, apps |-> {}]
    /\ threads = << >>
    /\ live = "building"
    /\ accessors = {}
    /\ disabler = [alive |-> FALSE, off |-> {}]
    /\ cached = {}

(***************************************************************************)
(* Building a pipeline: App::createPipeline.                               *)
(***************************************************************************)
CreatePipeline(app) ==
    /\ live = "building" /\ Len(pipes) < MaxPipelines
    /\ pipes' = Append(pipes, [app |-> app, state |-> "ACCEPTING_STAGES", stages |-> << >>,
                               bound |-> << >>, feed |-> << >>, loose |-> {}])
    /\ UNCHANGED << merger, threads, live, accessors, disabler, cached >>

\* A change of one pipeline that is in the given state.
Building(p, state, pipe) ==
    /\ live = "building"
    /\ pipes[p].state = state
    /\ pipes' = [pipes EXCEPT ![p] = pipe]
    /\ UNCHANGED << merger, threads, live, accessors, disabler, cached >>

AddStage(p, name) ==
    /\ Len(pipes[p].stages) < MaxStages
    /\ name \notin Named(pipes[p])
    /\ Building(p, "ACCEPTING_STAGES",
                [pipes[p] EXCEPT !.stages = Append(pipes[p].stages, name)])

NoMoreStages(p) ==
    Building(p, "ACCEPTING_STAGES", [pipes[p] EXCEPT !.state = "ACCEPTING_BINDINGS"])

\* Binding an output again replaces its binding; no port has to exist yet.
Bind(p, out, in) ==
    Building(p, "ACCEPTING_BINDINGS",
             [pipes[p] EXCEPT !.bound = [o \in DOMAIN pipes[p].bound \cup {out} |->
                                            IF o = out THEN in ELSE pipes[p].bound[o]]])

NoMoreBindings(p) ==
    /\ Resolves(pipes[p])
    /\ \E feed \in Feeds(pipes[p]) :
          Building(p, "ACCEPTING_BINDINGS",
                   [pipes[p] EXCEPT !.state = "BINDINGS_COMPLETE", !.feed = feed,
                                    !.loose = Unbound(pipes[p])])

\* getInPortQueue, getOutPortQueue: the app holds the other end from now on.
TakeQueue(p, side, port) ==
    /\ << side, port >> \in pipes[p].loose
    /\ Building(p, "BINDINGS_COMPLETE",
                [pipes[p] EXCEPT !.loose = pipes[p].loose \ {<< side, port >>}])

(***************************************************************************)
(* Merging threads.                                                        *)
(***************************************************************************)
MergeAll ==
    /\ live = "building" /\ ~merger.made
    /\ merger' = [merger EXCEPT !.made = TRUE, !.all = TRUE]
    /\ UNCHANGED << pipes, threads, live, accessors, disabler, cached >>

\* Several apps make the merger; a single one needs it to be there.
MergeApps(apps) ==
    /\ live = "building" /\ ~merger.all
    /\ apps # {} /\ apps \cap merger.apps = {}
    /\ Cardinality(apps) = 1 => merger.made
    /\ merger' = [merger EXCEPT !.made = TRUE, !.apps = merger.apps \cup apps]
    /\ UNCHANGED << pipes, threads, live, accessors, disabler, cached >>

Merging ==
    CASE merger.apps = {} /\ ~merger.all -> "none"
      [] merger.apps = {} /\ merger.all -> "all"
      [] merger.apps # {} -> IF Cardinality(merger.apps) = Len(pipes) THEN "all" ELSE "some"

Thread(isDb, interval, runs) == [db |-> isDb, interval |-> interval, runs |-> runs]
DatabaseThreads == IF OnDatabase = {} THEN << >>
                                      ELSE << Thread(TRUE, DefaultInterval, OnDatabase) >>

\* assignThread_: a thread for each stage, and the database thread last.
Earlier(s, t) == s[1] < t[1] \/ (s[1] = t[1] /\ s[2] < t[2])
Position(s, S) == Cardinality({t \in S : Earlier(t, s)})
Unmerged ==
    [n \in 1..Cardinality(Polled) |->
        LET s == CHOOSE s \in Polled : Position(s, Polled) = n - 1
        IN  Thread(FALSE, Interval[NameOf(s)], {s})]

\* pipelines_by_app keeps the last pipeline of each app.
LastOf(app) == CHOOSE p \in DOMAIN pipes : /\ pipes[p].app = app
                                           /\ \A q \in (p + 1)..Len(pipes) : pipes[q].app # app
\* Mutant: database stages are dealt out with the others.
GatheredAll == {s \in Stages : s[1] = LastOf(OwnerOf(s))}

Gathered == {s \in Polled : s[1] = LastOf(OwnerOf(s))}
Intervals == {Interval[NameOf(s)] : s \in Polled}
Share(app) == {s \in Polled : OwnerOf(s) = app}
\* Mutant: as many threads as the app with the fewest stages needs.
Narrowest == CHOOSE n \in 1..Cardinality(Polled) :
                 /\ \E s \in Polled : Cardinality(Share(OwnerOf(s))) = n
                 /\ \A s \in Polled : Cardinality(Share(OwnerOf(s))) >= n

Widest == CHOOSE n \in 1..Cardinality(Polled) :
              /\ \E s \in Polled : Cardinality(Share(OwnerOf(s))) = n
              /\ \A s \in Polled : Cardinality(Share(OwnerOf(s))) <= n

\* The apps are visited in the order of their addresses, the stages dealt out in turn.
Turn(s, rank) ==
    Cardinality({t \in Gathered : \/ rank[OwnerOf(t)] < rank[OwnerOf(s)]
                                  \/ OwnerOf(t) = OwnerOf(s) /\ t[2] < s[2]})
\* Mutant: the stages are dealt out once around.
MergedOnce(rank) ==
    [n \in 1..Widest |-> Thread(FALSE, DefaultInterval, {s \in Gathered : Turn(s, rank) = n - 1})]

Merged(rank) ==
    [n \in 1..Widest |->
        Thread(FALSE, DefaultInterval, {s \in Gathered : Turn(s, rank) % Widest = n - 1})]

Ranks == {rank \in [App -> 1..Cardinality(App)] : \A a, b \in App : a # b => rank[a] # rank[b]}

(***************************************************************************)
(* Opening, disabling, tearing down.                                       *)
(***************************************************************************)
Ready(p) == p.state = "BINDINGS_COMPLETE" /\ p.loose = {}

MayOpen ==
    /\ \A p \in DOMAIN pipes : Ready(pipes[p])
    /\ Merging # "some"
    /\ Merging = "all" => Cardinality(Intervals) = 1

Running(ts) == UNION {ts[n].runs : n \in DOMAIN ts}

OpenPipelines ==
    /\ live = "building" /\ MayOpen
    /\ live' = "open"
    /\ threads' \in (IF Merging = "none" THEN {Unmerged \o DatabaseThreads}
                                         ELSE {Merged(rank) \o DatabaseThreads : rank \in Ranks})
    /\ accessors' = IF OnDatabase = {} THEN {} ELSE Running(threads') \ OnDatabase
    /\ pipes' = [p \in DOMAIN pipes |-> [pipes[p] EXCEPT !.state = "FINALIZED"]]
    /\ merger' = [merger EXCEPT !.made = TRUE]
    /\ UNCHANGED << disabler, cached >>

\* An assertion of finalizeBindings or of performMerge, or "Method not yet supported".
Fail ==
    /\ live = "building"
    /\ \/ ~MayOpen
       \/ \E p \in DOMAIN pipes : pipes[p].state = "ACCEPTING_BINDINGS" /\ ~Resolves(pipes[p])
    /\ live' = "failed"
    /\ UNCHANGED << pipes, merger, threads, accessors, disabler, cached >>

\* Mutant: the list is filled with the pipelines' stages, whatever threads there are.
ScopedDisableStages ==
    /\ live # "failed" /\ ~disabler.alive
    /\ cached' = IF cached = {} THEN Stages ELSE cached
    /\ disabler' = [alive |-> TRUE, off |-> cached']
    /\ UNCHANGED << pipes, merger, threads, live, accessors >>

\* getDisablerRunnables_ fills its list unless it holds something; a nested call returns
\* no disabler.
ScopedDisableAll ==
    /\ live # "failed" /\ ~disabler.alive
    /\ cached' = IF cached = {} THEN Running(threads) ELSE cached
    /\ disabler' = [alive |-> TRUE, off |-> cached']
    /\ UNCHANGED << pipes, merger, threads, live, accessors >>

ReleaseDisabler ==
    /\ disabler.alive
    /\ disabler' = [alive |-> FALSE, off |-> {}]
    /\ UNCHANGED << pipes, merger, threads, live, accessors, cached >>

\* Threads are closed and flushed; what becomes of the items is PipelineThreads' subject.
PostSimLoopTeardown ==
    /\ live \in {"building", "open"}
    /\ live' = "closed"
    /\ UNCHANGED << pipes, merger, threads, accessors, disabler, cached >>

BuildSome ==
    \/ \E app \in App : CreatePipeline(app)
    \/ \E p \in DOMAIN pipes, name \in StageName : AddStage(p, name)
    \/ \E p \in DOMAIN pipes : NoMoreStages(p)
    \/ \E p \in DOMAIN pipes, out \in AnyOut, in \in AnyIn : Bind(p, out, in)
    \/ \E p \in DOMAIN pipes : NoMoreBindings(p)
    \/ \E p \in DOMAIN pipes : \E q \in pipes[p].loose : TakeQueue(p, q[1], q[2])

Next ==
    \/ BuildSome
    \/ MergeAll
    \/ \E apps \in SUBSET App : MergeApps(apps)
    \/ OpenPipelines
    \/ Fail
    \/ ScopedDisableAll
    \/ ReleaseDisabler
    \/ PostSimLoopTeardown

Spec == Init /\ [][Next]_vars

--------------------------------------------------------------------------------
(***************************************************************************)
(* Properties.                                                             *)
(***************************************************************************)
Opened == threads # << >>

\* In a pipeline that runs, a queue has somebody at both ends: what a stage writes is read
\* by the one input bound to it or by the app that took the queue, and an input is fed
\* likewise.  The exception is an output that shares its input with another one: of
\* several outputs bound to an input, the input reads one (finalizeBindings).
Attached ==
    Opened => \A p \in DOMAIN pipes :
        LET pipe == pipes[p]
        IN  /\ \A i \in InPorts(pipe) :
                  BoundTo(pipe, i) # {} => Cardinality({o \in BoundTo(pipe, i) : pipe.feed[i] = o}) = 1
            /\ \A o \in DOMAIN pipe.bound :
                  \/ {i \in InPorts(pipe) : pipe.feed[i] = o} = {pipe.bound[o]}
                  \/ \E other \in BoundTo(pipe, pipe.bound[o]) \ {o} : pipe.feed[pipe.bound[o]] = other
            /\ pipe.loose = {}

Left(s) == Merging = "all" /\ s[1] # LastOf(OwnerOf(s))

\* Every stage of every pipeline runs on exactly one thread, and none but the non-database
\* stages that merging leaves out: those of a pipeline that is not its app's last one
\* (pipelines_by_app; the TODO at ThreadMerger.hpp:63).
StagesRun ==
    Opened => \A s \in Stages :
        Cardinality({n \in DOMAIN threads : s \in threads[n].runs})
            = IF Left(s) /\ s \in Polled THEN 0 ELSE 1

\* Database stages run on the one database thread, and it runs nothing else; every other
\* stage that runs has the accessor to it exactly if there is one.
KindsApart ==
    Opened =>
        /\ Cardinality({n \in DOMAIN threads : threads[n].db}) <= 1
        /\ \A n \in DOMAIN threads : \A s \in threads[n].runs : threads[n].db <=> s \in OnDatabase
        /\ accessors = IF OnDatabase = {} THEN {} ELSE Running(threads) \cap Polled

\* The polling threads of a merge are as many as the app with most non-database stages
\* needs, never more than without merging, and no two of them differ by more than one
\* stage.
Balanced ==
    Opened /\ Merging = "all" =>
        LET polling == {n \in DOMAIN threads : ~threads[n].db}
        IN  /\ Cardinality(polling) <= Cardinality(Polled)
            /\ \A a \in App : Cardinality(Share(a)) <= Cardinality(polling)
            /\ \A m, n \in polling :
                  Cardinality(threads[m].runs) <= Cardinality(threads[n].runs) + 1

\* A disabler is handed out with every stage that runs at that moment, although the list
\* it is made of is kept from one disabler to the next: one that was taken before the
\* threads were made leaves nothing stale behind for those taken later, and stages that
\* merging leaves out are not in it (getDisablerRunnables_).
DisablerTakesAll ==
    [][~disabler.alive /\ disabler'.alive => disabler'.off = Running(threads)]_vars

================================================================================
