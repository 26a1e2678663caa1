---------------------------- MODULE PipelineThreads ----------------------------
(***************************************************************************)
(* A running SimDB pipeline: polling threads that move items through       *)
(* stages, and the application's main thread, which submits items, freezes *)
(* and flushes the pipeline and tears it down.                             *)
(*                                                                         *)
(*   PollingThread    loop_, run_, open, close, pause, resume              *)
(*   DatabaseThread   run_ (one transaction per call, interrupted by       *)
(*                    pending eval() tasks), close                         *)
(*   Stage            processOne / processAll of a stage that pops one     *)
(*                    item and pushes its result                           *)
(*   Flusher          flush() on the calling thread                        *)
(*   ScopedRunnableDisabler, PipelineManager                               *)
(*                    scopedDisableAll, openPipelines, postSimLoopTeardown *)
(*                                                                         *)
(* Stages are numbered in pipeline order; stage s takes its items from     *)
(* queue[s - 1] and puts them into queue[s].  queue[0] is the pipeline     *)
(* head, queue[NumStages] the table the last stage writes.  Threads are    *)
(* numbered in the order of PipelineManager::polling_threads_; the         *)
(* database thread is always the last one (ThreadMerger.hpp, 129-133 and   *)
(* 201-205).                                                               *)
(***************************************************************************)
EXTENDS Integers, Sequences, FiniteSets

CONSTANTS
    NumStages,        \* stages of the pipeline
    NumThreads,       \* polling threads, the database thread included
    ThreadOf,         \* the thread each stage was assigned to
    MaxItems,         \* bound: items the application submits
    MaxDisables,      \* bound: disablers the application creates
    MaxEvals,         \* bound: eval() calls made while the pipeline runs
    FlushUnfrozen     \* may the application flush without freezing the threads?

Stage   == 1..NumStages
Thread  == 1..NumThreads
Item    == 1..MaxItems
DbThread == NumThreads

ASSUME PipelineAssumption ==
    /\ NumStages \in Nat \ {0}
    /\ NumThreads \in Nat \ {0}
    /\ ThreadOf \in [Stage -> Thread]
    /\ ThreadOf[NumStages] = DbThread
    /\ \A t \in Thread : \E s \in Stage : ThreadOf[s] = t
    /\ MaxItems \in Nat
    /\ MaxDisables \in Nat
    /\ MaxEvals \in Nat
    /\ FlushUnfrozen \in BOOLEAN

VARIABLES
    \* ---- the data
    sent,        \* items submitted so far; item k is the k-th
    queue,       \* queue[0..NumStages]
    tHeld,       \* per thread: the item its stage popped and has not pushed yet
    mHeld,       \* the same for a stage run by the main thread's flush
    \* ---- Runnable and PollingThread
    enabled,     \* Runnable::enabled_
    pc,          \* where each polling thread is
    cur,         \* the stage a thread's run_ loop has reached (0: none yet)
    processed,   \* `processed` / `continue_while` of the current round
    didWork,     \* `did_work` of the current run_ call
    draining,    \* the thread has left the polling loop and calls run_(true)
    paused,      \* paused_
    stop,        \* stop_requested_
    ackPending,  \* has_pending_pause_ack_
    acked,       \* paused_promise_ has been set
    woken,       \* the parked thread has been notified
    running,     \* is_running_
    \* ---- DatabaseThread
    dbLock,      \* owner of the connection's transaction mutex
    tasks,       \* eval() tasks waiting for the dormant thread
    evals,       \* eval() calls so far
    dormantOpen, \* the dormant thread accepts tasks
    \* ---- the main thread
    mpc,         \* where the main thread is
    mt,          \* thread its current loop has reached
    ms,          \* stage its current loop has reached
    mWork,       \* continue_while of a flush
    mode,        \* the active disabler: none, soft (stages) or hard (threads too)
    offStages,   \* disabled_runnables_ of the active disabler
    offThreads,  \* paused_threads_ of the active disabler
    disables     \* disablers created so far

dataVars   == <<sent, queue, tHeld, mHeld>>
runVars    == <<pc, cur, processed, didWork, draining>>
pauseVars  == <<paused, stop, ackPending, acked, woken, running>>
dbVars     == <<dbLock, tasks, evals, dormantOpen>>
mainVars   == <<mpc, mt, ms, mWork, mode, offStages, offThreads, disables>>
vars == <<dataVars, enabled, runVars, pauseVars, dbVars, mainVars>>

ThreadPcs == {"off", "top", "parked", "begin", "poll", "call", "push",
              "check", "ret", "nap", "exited"}
MainPcs == {"opening", "idle", "disabling", "pausing", "pauseNotify", "awaitAck",
            "frozen", "resuming", "resumeNotify", "enabling", "lockDb", "flush",
            "flushPush", "flushed", "closing", "closeNotify", "joining", "teardown",
            "teardownPush", "closed"}

DataTypeOK ==
    /\ sent \in 0..MaxItems
    /\ queue \in [0..NumStages -> Seq(Item)]
    /\ tHeld \in [Thread -> Seq(Item)]
    /\ mHeld \in Seq(Item)

RunTypeOK ==
    /\ pc \in [Thread -> ThreadPcs]
    /\ cur \in [Thread -> 0..NumStages]
    /\ processed \in [Thread -> BOOLEAN]
    /\ didWork \in [Thread -> BOOLEAN]
    /\ draining \in [Thread -> BOOLEAN]

PauseTypeOK ==
    /\ paused \in [Thread -> BOOLEAN]
    /\ stop \in [Thread -> BOOLEAN]
    /\ ackPending \in [Thread -> BOOLEAN]
    /\ acked \in [Thread -> BOOLEAN]
    /\ woken \in [Thread -> BOOLEAN]
    /\ running \in [Thread -> BOOLEAN]

DbTypeOK ==
    /\ dbLock \in {"free", "db", "main"}
    /\ tasks \in 0..MaxEvals
    /\ evals \in 0..MaxEvals
    /\ dormantOpen \in BOOLEAN

MainTypeOK ==
    /\ mpc \in MainPcs
    /\ mt \in 1..(NumThreads + 1)
    /\ ms \in 0..NumStages
    /\ mWork \in BOOLEAN
    /\ mode \in {"none", "soft", "hard"}
    /\ offStages \in SUBSET Stage
    /\ offThreads \in SUBSET Thread
    /\ disables \in 0..MaxDisables

TypeOK ==
    /\ DataTypeOK
    /\ enabled \in [Stage -> BOOLEAN]
    /\ RunTypeOK
    /\ PauseTypeOK
    /\ DbTypeOK
    /\ MainTypeOK

Init ==
    /\ sent = 0
    /\ queue = [q \in 0..NumStages |-> <<>>]
    /\ tHeld = [t \in Thread |-> <<>>]
    /\ mHeld = <<>>
    /\ enabled = [s \in Stage |-> TRUE]
    /\ pc = [t \in Thread |-> "off"]
    /\ cur = [t \in Thread |-> 0]
    /\ processed = [t \in Thread |-> FALSE]
    /\ didWork = [t \in Thread |-> FALSE]
    /\ draining = [t \in Thread |-> FALSE]
    /\ paused = [t \in Thread |-> FALSE]
    /\ stop = [t \in Thread |-> FALSE]
    /\ ackPending = [t \in Thread |-> FALSE]
    /\ acked = [t \in Thread |-> FALSE]
    /\ woken = [t \in Thread |-> FALSE]
    /\ running = [t \in Thread |-> FALSE]
    /\ dbLock = "free"
    /\ tasks = 0
    /\ evals = 0
    /\ dormantOpen = FALSE
    /\ mpc = "opening"
    /\ mt = 1
    /\ ms = 0
    /\ mWork = FALSE
    /\ mode = "none"
    /\ offStages = {}
    /\ offThreads = {}
    /\ disables = 0

--------------------------------------------------------------------------------
(***************************************************************************)
(* The order in which loops visit a thread's stages: ensureRelativeOrder   *)
(* leaves runnables_ in pipeline order.                                    *)
(***************************************************************************)
StagesAfter(t, s) == {r \in Stage : r > s /\ ThreadOf[r] = t}

NextStage(t, s) ==
    CHOOSE r \in StagesAfter(t, s) : \A q \in StagesAfter(t, s) : r <= q

(***************************************************************************)
(* The polling thread t.                                                   *)
(***************************************************************************)
Goto(t, where) == pc' = [pc EXCEPT ![t] = where]

\* Start of a run_ call.
ResetRun(t) ==
    /\ cur' = [cur EXCEPT ![t] = 0]
    /\ processed' = [processed EXCEPT ![t] = FALSE]
    /\ didWork' = [didWork EXCEPT ![t] = FALSE]

\* stop_requested_ ends the polling loop; the thread goes on to drain.
LeaveLoop(t) ==
    /\ pc[t] = "top"
    /\ stop[t]
    /\ Goto(t, "begin")
    /\ ResetRun(t)
    /\ draining' = [draining EXCEPT ![t] = TRUE]
    /\ UNCHANGED <<dataVars, enabled, pauseVars, dbVars, mainVars>>

\* Under pause_mutex_: acknowledge a pending pause, then wait on pause_cv_.
Park(t) ==
    /\ pc[t] = "top"
    /\ ~stop[t]
    /\ paused[t]
    /\ acked' = [acked EXCEPT ![t] = @ \/ ackPending[t]]
    /\ ackPending' = [ackPending EXCEPT ![t] = FALSE]
    /\ woken' = [woken EXCEPT ![t] = FALSE]
    /\ Goto(t, "parked")
    /\ UNCHANGED <<dataVars, enabled, cur, processed, didWork, draining, paused, stop,
                   running, dbVars, mainVars>>

\* pause_cv_.wait returns after a notification, or spuriously; the loop around it
\* looks at paused_ and stop_requested_ again.
Unpark(t) ==
    /\ pc[t] = "parked"
    /\ Goto(t, "top")
    /\ UNCHANGED <<dataVars, enabled, cur, processed, didWork, draining, pauseVars,
                   dbVars, mainVars>>

\* Not paused, not stopped: run_(false).
EnterRun(t) ==
    /\ pc[t] = "top"
    /\ ~stop[t]
    /\ ~paused[t]
    /\ Goto(t, "begin")
    /\ ResetRun(t)
    /\ UNCHANGED <<dataVars, enabled, draining, pauseVars, dbVars, mainVars>>

\* The database thread does its whole run_ inside one safeTransaction.
BeginRun(t) ==
    /\ pc[t] = "begin"
    /\ t = DbThread => dbLock = "free"
    /\ dbLock' = IF t = DbThread THEN "db" ELSE dbLock
    /\ Goto(t, "poll")
    /\ UNCHANGED <<dataVars, enabled, cur, processed, didWork, draining, pauseVars,
                   tasks, evals, dormantOpen, mainVars>>

\* for (auto runner : runnables_): a disabled runnable is skipped.
SkipDisabled(t) ==
    /\ pc[t] = "poll"
    /\ StagesAfter(t, cur[t]) # {}
    /\ ~enabled[NextStage(t, cur[t])]
    /\ cur' = [cur EXCEPT ![t] = NextStage(t, cur[t])]
    /\ UNCHANGED <<dataVars, enabled, pc, processed, didWork, draining, pauseVars,
                   dbVars, mainVars>>

CallStage(t) ==
    /\ pc[t] = "poll"
    /\ StagesAfter(t, cur[t]) # {}
    /\ enabled[NextStage(t, cur[t])]
    /\ cur' = [cur EXCEPT ![t] = NextStage(t, cur[t])]
    /\ Goto(t, "call")
    /\ UNCHANGED <<dataVars, enabled, processed, didWork, draining, pauseVars, dbVars,
                   mainVars>>

\* After each runnable the database thread looks for pending eval() tasks.
AfterCall(t) == IF t = DbThread THEN "check" ELSE "poll"

\* processOne: try_pop fails and the stage returns SLEEP ...
StageSleeps(t) ==
    /\ pc[t] = "call"
    /\ queue[cur[t] - 1] = <<>>
    /\ Goto(t, AfterCall(t))
    /\ UNCHANGED <<dataVars, enabled, cur, processed, didWork, draining, pauseVars,
                   dbVars, mainVars>>

\* ... or it pops an item, which is then in no queue ...
StagePops(t) ==
    /\ pc[t] = "call"
    /\ queue[cur[t] - 1] # <<>>
    /\ tHeld' = [tHeld EXCEPT ![t] = <<Head(queue[cur[t] - 1])>>]
    /\ queue' = [queue EXCEPT ![cur[t] - 1] = Tail(@)]
    /\ Goto(t, "push")
    /\ UNCHANGED <<sent, mHeld, enabled, cur, processed, didWork, draining, pauseVars,
                   dbVars, mainVars>>

\* ... pushes its result and returns PROCEED.
StagePushes(t) ==
    /\ pc[t] = "push"
    /\ queue' = [queue EXCEPT ![cur[t]] = @ \o tHeld[t]]
    /\ tHeld' = [tHeld EXCEPT ![t] = <<>>]
    /\ processed' = [processed EXCEPT ![t] = TRUE]
    /\ Goto(t, AfterCall(t))
    /\ UNCHANGED <<sent, mHeld, enabled, cur, didWork, draining, pauseVars, dbVars,
                   mainVars>>

\* dormant_thread_.hasTasks(): the round is abandoned and counts as no work.
YieldToEval(t) ==
    /\ pc[t] = "check"
    /\ tasks > 0
    /\ processed' = [processed EXCEPT ![t] = FALSE]
    /\ Goto(t, "ret")
    /\ UNCHANGED <<dataVars, enabled, cur, didWork, draining, pauseVars, dbVars, mainVars>>

KeepPolling(t) ==
    /\ pc[t] = "check"
    /\ tasks = 0
    /\ Goto(t, "poll")
    /\ UNCHANGED <<dataVars, enabled, cur, processed, didWork, draining, pauseVars,
                   dbVars, mainVars>>

\* End of a round over runnables_: another round if any stage did work.
EndRound(t) ==
    /\ pc[t] = "poll"
    /\ StagesAfter(t, cur[t]) = {}
    /\ didWork' = [didWork EXCEPT ![t] = @ \/ processed[t]]
    /\ processed' = [processed EXCEPT ![t] = FALSE]
    /\ cur' = [cur EXCEPT ![t] = 0]
    /\ Goto(t, IF processed[t] THEN "poll" ELSE "ret")
    /\ UNCHANGED <<dataVars, enabled, draining, pauseVars, dbVars, mainVars>>

\* Mutant: the drain loop does not look at what run_ returned.
AfterRunForever(t) ==
    IF draining[t] THEN "begin" ELSE IF didWork[t] THEN "top" ELSE "nap"

\* run_ returns: in the polling loop the thread naps when it did no work; in the
\* drain loop it calls run_ again until one call does no work.
AfterRun(t) ==
    IF draining[t]
    THEN IF didWork[t] THEN "begin" ELSE "exited"
    ELSE IF didWork[t] THEN "top" ELSE "nap"

ReturnFromRun(t) ==
    /\ pc[t] = "ret"
    /\ Goto(t, AfterRun(t))
    /\ ResetRun(t)
    /\ dbLock' = IF t = DbThread THEN "free" ELSE dbLock
    /\ UNCHANGED <<dataVars, enabled, draining, pauseVars, tasks, evals, dormantOpen,
                   mainVars>>

\* pause_cv_.wait_for ends by timeout or by notification.
WakeFromNap(t) ==
    /\ pc[t] = "nap"
    /\ Goto(t, "top")
    /\ UNCHANGED <<dataVars, enabled, cur, processed, didWork, draining, pauseVars,
                   dbVars, mainVars>>

--------------------------------------------------------------------------------
(***************************************************************************)
(* Asynchronous database access, as far as the pipeline sees it: a task    *)
(* waits, and the dormant thread runs all waiting tasks in one             *)
(* transaction.  DatabaseThread.tla models eval() itself.                  *)
(***************************************************************************)
PostTask ==
    /\ dormantOpen
    /\ evals < MaxEvals
    /\ evals' = evals + 1
    /\ tasks' = tasks + 1
    /\ UNCHANGED <<dataVars, enabled, runVars, pauseVars, dbLock, dormantOpen, mainVars>>

RunTasks ==
    /\ dormantOpen
    /\ tasks > 0
    /\ dbLock = "free"
    /\ tasks' = 0
    /\ UNCHANGED <<dataVars, enabled, runVars, pauseVars, dbLock, evals, dormantOpen,
                   mainVars>>

--------------------------------------------------------------------------------
(***************************************************************************)
(* The main thread: opening, submitting.                                   *)
(***************************************************************************)
OpenThread ==
    /\ mpc = "opening"
    /\ mt \in Thread
    /\ running' = [running EXCEPT ![mt] = TRUE]
    /\ pc' = [pc EXCEPT ![mt] = "top"]
    /\ dormantOpen' = (dormantOpen \/ mt = DbThread)
    /\ mpc' = IF mt = NumThreads THEN "idle" ELSE "opening"
    /\ mt' = mt + 1
    /\ UNCHANGED <<dataVars, enabled, cur, processed, didWork, draining, paused, stop,
                   ackPending, acked, woken, dbLock, tasks, evals, ms, mWork, mode,
                   offStages, offThreads, disables>>

SubmitItem ==
    /\ mpc \in {"idle", "frozen"}
    /\ sent < MaxItems
    /\ sent' = sent + 1
    /\ queue' = [queue EXCEPT ![0] = Append(@, sent + 1)]
    /\ UNCHANGED <<tHeld, mHeld, enabled, runVars, pauseVars, dbVars, mainVars>>

(***************************************************************************)
(* ScopedRunnableDisabler: constructor.                                    *)
(***************************************************************************)
\* scopedDisableAll(disable_threads_too); with a disabler active it returns nullptr
\* and nothing changes.
ScopedDisableAll(m) ==
    /\ mpc = "idle"
    /\ mode = "none"
    /\ disables < MaxDisables
    /\ disables' = disables + 1
    /\ mode' = m
    /\ mpc' = "disabling"
    /\ mt' = 1
    /\ ms' = 0
    /\ UNCHANGED <<dataVars, enabled, runVars, pauseVars, dbVars, mWork, offStages,
                   offThreads>>

\* for (auto r : runnables) if (r->enabled()) ...
DisableStage ==
    /\ mpc = "disabling"
    /\ mt \in Thread
    /\ StagesAfter(mt, ms) # {}
    /\ LET s == NextStage(mt, ms)
       IN  /\ ms' = s
           /\ enabled' = [enabled EXCEPT ![s] = FALSE]
           /\ offStages' = IF enabled[s] THEN offStages \cup {s} ELSE offStages
    /\ UNCHANGED <<dataVars, runVars, pauseVars, dbVars, mpc, mt, mWork, mode,
                   offThreads, disables>>

\* The runnables of one thread are done; after the last thread the constructor goes
\* on to pause the threads, or returns.
DisabledThread ==
    /\ mpc = "disabling"
    /\ mt \in Thread
    /\ StagesAfter(mt, ms) = {}
    /\ ms' = 0
    /\ IF mt = NumThreads
       THEN /\ mt' = 1
            /\ mpc' = IF mode = "hard" THEN "pausing" ELSE "frozen"
       ELSE /\ mt' = mt + 1
            /\ UNCHANGED mpc
    /\ UNCHANGED <<dataVars, enabled, runVars, pauseVars, dbVars, mWork, mode, offStages,
                   offThreads, disables>>

\* Mutant: the second pause reuses the promise of the first one.
RequestPauseOldPromise ==
    /\ mpc = "pausing"
    /\ mt \in Thread
    /\ running[mt]
    /\ ~paused[mt]
    /\ paused' = [paused EXCEPT ![mt] = TRUE]
    /\ ackPending' = [ackPending EXCEPT ![mt] = TRUE]
    /\ mpc' = "pauseNotify"
    /\ UNCHANGED <<dataVars, enabled, runVars, stop, acked, woken, running, dbVars, mt,
                   ms, mWork, mode, offStages, offThreads, disables>>

\* Mutant: the thread is not told that somebody waits for its acknowledgement.
RequestPauseSilently ==
    /\ mpc = "pausing"
    /\ mt \in Thread
    /\ running[mt]
    /\ ~paused[mt]
    /\ paused' = [paused EXCEPT ![mt] = TRUE]
    /\ acked' = [acked EXCEPT ![mt] = FALSE]
    /\ mpc' = "pauseNotify"
    /\ UNCHANGED <<dataVars, enabled, runVars, stop, ackPending, woken, running, dbVars,
                   mt, ms, mWork, mode, offStages, offThreads, disables>>

\* pause() of thread mt, under pause_mutex_.
RequestPause ==
    /\ mpc = "pausing"
    /\ mt \in Thread
    /\ running[mt]
    /\ ~paused[mt]
    /\ paused' = [paused EXCEPT ![mt] = TRUE]
    /\ ackPending' = [ackPending EXCEPT ![mt] = TRUE]
    /\ acked' = [acked EXCEPT ![mt] = FALSE]
    /\ mpc' = "pauseNotify"
    /\ UNCHANGED <<dataVars, enabled, runVars, stop, woken, running, dbVars, mt, ms,
                   mWork, mode, offStages, offThreads, disables>>

\* pause_cv_.notify_all(): wakes thread mt if it is parked.
NotifyThread(t) == woken' = [woken EXCEPT ![t] = @ \/ pc[t] = "parked"]

PauseNotify ==
    /\ mpc = "pauseNotify"
    /\ NotifyThread(mt)
    /\ mpc' = "awaitAck"
    /\ UNCHANGED <<dataVars, enabled, runVars, paused, stop, ackPending, acked, running,
                   dbVars, mt, ms, mWork, mode, offStages, offThreads, disables>>

\* Mutant: pause() returns without waiting for the acknowledgement.
PauseUnacknowledged ==
    /\ mpc = "awaitAck"
    /\ offThreads' = offThreads \cup {mt}
    /\ mt' = IF mt = NumThreads THEN 1 ELSE mt + 1
    /\ mpc' = IF mt = NumThreads THEN "frozen" ELSE "pausing"
    /\ UNCHANGED <<dataVars, enabled, runVars, pauseVars, dbVars, ms, mWork, mode,
                   offStages, disables>>

\* paused_promise_.get_future().wait() returns; after the last thread the
\* constructor does too.
PauseAcknowledged ==
    /\ mpc = "awaitAck"
    /\ acked[mt]
    /\ offThreads' = offThreads \cup {mt}
    /\ mt' = IF mt = NumThreads THEN 1 ELSE mt + 1
    /\ mpc' = IF mt = NumThreads THEN "frozen" ELSE "pausing"
    /\ UNCHANGED <<dataVars, enabled, runVars, pauseVars, dbVars, ms, mWork, mode,
                   offStages, disables>>

(***************************************************************************)
(* ScopedRunnableDisabler: destructor, threads first, then runnables.      *)
(***************************************************************************)
ReleaseDisabler ==
    /\ mpc = "frozen"
    /\ mpc' = "resuming"
    /\ mt' = 1
    /\ UNCHANGED <<dataVars, enabled, runVars, pauseVars, dbVars, ms, mWork, mode,
                   offStages, offThreads, disables>>

ResumeThread ==
    /\ mpc = "resuming"
    /\ mt \in offThreads
    /\ paused' = [paused EXCEPT ![mt] = FALSE]
    /\ mpc' = "resumeNotify"
    /\ UNCHANGED <<dataVars, enabled, runVars, stop, ackPending, acked, woken, running,
                   dbVars, mt, ms, mWork, mode, offStages, offThreads, disables>>

\* Mutant: resume() clears paused_ and does not notify.
ResumeSilently ==
    /\ mpc = "resumeNotify"
    /\ mt' = mt + 1
    /\ mpc' = "resuming"
    /\ UNCHANGED <<dataVars, enabled, runVars, pauseVars, dbVars, ms, mWork, mode,
                   offStages, offThreads, disables>>

ResumeNotify ==
    /\ mpc = "resumeNotify"
    /\ NotifyThread(mt)
    /\ mt' = mt + 1
    /\ mpc' = "resuming"
    /\ UNCHANGED <<dataVars, enabled, runVars, paused, stop, ackPending, acked, running,
                   dbVars, ms, mWork, mode, offStages, offThreads, disables>>

ResumedAll ==
    /\ mpc = "resuming"
    /\ mt \notin offThreads
    /\ mpc' = "enabling"
    /\ offThreads' = {}
    /\ UNCHANGED <<dataVars, enabled, runVars, pauseVars, dbVars, mt, ms, mWork, mode,
                   offStages, disables>>

EnableStage ==
    /\ mpc = "enabling"
    /\ \E s \in offStages :
         /\ \A r \in offStages \ {s} :
              ThreadOf[s] < ThreadOf[r] \/ (ThreadOf[s] = ThreadOf[r] /\ s < r)
         /\ enabled' = [enabled EXCEPT ![s] = TRUE]
         /\ offStages' = offStages \ {s}
    /\ UNCHANGED <<dataVars, runVars, pauseVars, dbVars, mpc, mt, ms, mWork, mode,
                   offThreads, disables>>

\* Mutant: the destructor re-enables at most one stage of the list.
EnabledSome ==
    /\ mpc = "enabling"
    /\ offStages' = {}
    /\ mode' = "none"
    /\ mpc' = "idle"
    /\ UNCHANGED <<dataVars, enabled, runVars, pauseVars, dbVars, mt, ms, mWork,
                   offThreads, disables>>

\* notifyPipelineMgrReenabled_: disabler_active_ = false.
EnabledAll ==
    /\ mpc = "enabling"
    /\ offStages = {}
    /\ mode' = "none"
    /\ mpc' = "idle"
    /\ UNCHANGED <<dataVars, enabled, runVars, pauseVars, dbVars, mt, ms, mWork,
                   offStages, offThreads, disables>>

(***************************************************************************)
(* Flusher::flush() on the main thread, inside one safeTransaction (the    *)
(* last stage is a database stage).  It calls processAll(true) on every    *)
(* stage in pipeline order, enabled or not, until a pass does no work.     *)
(***************************************************************************)
\* Mutant: the application flushes under a disabler that left the threads running.
BeginFlushSoft ==
    /\ mpc = "frozen"
    /\ mpc' = "lockDb"
    /\ UNCHANGED <<dataVars, enabled, runVars, pauseVars, dbVars, mt, ms, mWork, mode,
                   offStages, offThreads, disables>>

BeginFlush ==
    /\ \/ mpc = "frozen" /\ mode = "hard"
       \/ mpc \in {"idle", "frozen"} /\ FlushUnfrozen
    /\ mpc' = "lockDb"
    /\ UNCHANGED <<dataVars, enabled, runVars, pauseVars, dbVars, mt, ms, mWork, mode,
                   offStages, offThreads, disables>>

LockForFlush ==
    /\ mpc = "lockDb"
    /\ dbLock = "free"
    /\ dbLock' = "main"
    /\ mpc' = "flush"
    /\ ms' = 1
    /\ mWork' = FALSE
    /\ UNCHANGED <<dataVars, enabled, runVars, pauseVars, tasks, evals, dormantOpen, mt,
                   mode, offStages, offThreads, disables>>

\* The main thread runs stage ms: pop, then push (mHeld is between queues).
MainPops(where, next) ==
    /\ mpc = where
    /\ ms \in Stage
    /\ queue[ms - 1] # <<>>
    /\ mHeld' = <<Head(queue[ms - 1])>>
    /\ queue' = [queue EXCEPT ![ms - 1] = Tail(@)]
    /\ mpc' = next
    /\ UNCHANGED <<sent, tHeld, enabled, runVars, pauseVars, dbVars, mt, ms, mWork, mode,
                   offStages, offThreads, disables>>

MainPushes(where, next) ==
    /\ mpc = where
    /\ queue' = [queue EXCEPT ![ms] = @ \o mHeld]
    /\ mHeld' = <<>>
    /\ mWork' = TRUE
    /\ mpc' = next
    /\ UNCHANGED <<sent, tHeld, enabled, runVars, pauseVars, dbVars, mt, ms, mode,
                   offStages, offThreads, disables>>

FlushPops == MainPops("flush", "flushPush")

FlushPushes == MainPushes("flushPush", "flush")

\* Mutant: the pass over the stages runs one past the last stage.
FlushPastLastStage ==
    /\ mpc = "flush"
    /\ ms \in Stage => queue[ms - 1] = <<>>
    /\ IF ms <= NumStages
       THEN ms' = ms + 1 /\ UNCHANGED <<mpc, mWork, dbLock>>
       ELSE /\ mWork' = FALSE
            /\ IF mWork
               THEN ms' = 1 /\ UNCHANGED <<mpc, dbLock>>
               ELSE ms' = 0 /\ mpc' = "flushed" /\ dbLock' = "free"
    /\ UNCHANGED <<dataVars, enabled, runVars, pauseVars, tasks, evals, dormantOpen, mt,
                   mode, offStages, offThreads, disables>>

\* Mutant: one processOne per stage and one pass, instead of processAll until no work.
FlushOneEach ==
    /\ mpc = "flush"
    /\ mWork \/ queue[ms - 1] = <<>>
    /\ mWork' = FALSE
    /\ IF ms < NumStages
       THEN ms' = ms + 1 /\ UNCHANGED <<mpc, dbLock>>
       ELSE ms' = 0 /\ mpc' = "flushed" /\ dbLock' = "free"
    /\ UNCHANGED <<dataVars, enabled, runVars, pauseVars, tasks, evals, dormantOpen, mt,
                   mode, offStages, offThreads, disables>>

\* processAll of stage ms ends; the pass goes on, starts over, or the flush ends
\* and its transaction commits.
FlushNextStage ==
    /\ mpc = "flush"
    /\ queue[ms - 1] = <<>>
    /\ IF ms < NumStages
       THEN ms' = ms + 1 /\ UNCHANGED <<mpc, mWork, dbLock>>
       ELSE /\ mWork' = FALSE
            /\ IF mWork
               THEN ms' = 1 /\ UNCHANGED <<mpc, dbLock>>
               ELSE ms' = 0 /\ mpc' = "flushed" /\ dbLock' = "free"
    /\ UNCHANGED <<dataVars, enabled, runVars, pauseVars, tasks, evals, dormantOpen, mt,
                   mode, offStages, offThreads, disables>>

\* The caller goes on: it queries the database, for instance.
EndFlush ==
    /\ mpc = "flushed"
    /\ mpc' = IF mode = "none" THEN "idle" ELSE "frozen"
    /\ UNCHANGED <<dataVars, enabled, runVars, pauseVars, dbVars, mt, ms, mWork, mode,
                   offStages, offThreads, disables>>

(***************************************************************************)
(* postSimLoopTeardown: close every thread in order, then flush all.       *)
(***************************************************************************)
BeginTeardown ==
    /\ mpc = "idle"
    /\ mpc' = "closing"
    /\ mt' = 1
    /\ UNCHANGED <<dataVars, enabled, runVars, pauseVars, dbVars, ms, mWork, mode,
                   offStages, offThreads, disables>>

\* close() of thread mt, under pause_mutex_.
RequestStop ==
    /\ mpc = "closing"
    /\ mt \in Thread
    /\ stop' = [stop EXCEPT ![mt] = TRUE]
    /\ paused' = [paused EXCEPT ![mt] = FALSE]
    /\ mpc' = "closeNotify"
    /\ UNCHANGED <<dataVars, enabled, runVars, ackPending, acked, woken, running, dbVars,
                   mt, ms, mWork, mode, offStages, offThreads, disables>>

CloseNotify ==
    /\ mpc = "closeNotify"
    /\ NotifyThread(mt)
    /\ mpc' = "joining"
    /\ UNCHANGED <<dataVars, enabled, runVars, paused, stop, ackPending, acked, running,
                   dbVars, mt, ms, mWork, mode, offStages, offThreads, disables>>

\* Mutant: postSimLoopTeardown relies on the threads' own drain loops and flushes
\* nothing afterwards.
JoinWithoutFlush ==
    /\ mpc = "joining"
    /\ pc[mt] = "exited"
    /\ running' = [running EXCEPT ![mt] = FALSE]
    /\ tasks' = IF mt = DbThread THEN 0 ELSE tasks
    /\ dormantOpen' = (dormantOpen /\ mt # DbThread)
    /\ mpc' = IF mt = NumThreads THEN "closed" ELSE "closing"
    /\ mt' = IF mt = NumThreads THEN 1 ELSE mt + 1
    /\ ms' = 0
    /\ UNCHANGED <<dataVars, enabled, runVars, paused, stop, ackPending, acked, woken,
                   dbLock, evals, mWork, mode, offStages, offThreads, disables>>

\* thread_->join(); the database thread then closes the dormant thread, which runs
\* the tasks still waiting.
JoinThread ==
    /\ mpc = "joining"
    /\ pc[mt] = "exited"
    /\ running' = [running EXCEPT ![mt] = FALSE]
    /\ tasks' = IF mt = DbThread THEN 0 ELSE tasks
    /\ dormantOpen' = (dormantOpen /\ mt # DbThread)
    /\ mpc' = IF mt = NumThreads THEN "teardown" ELSE "closing"
    /\ mt' = IF mt = NumThreads THEN 1 ELSE mt + 1
    /\ ms' = 0
    /\ UNCHANGED <<dataVars, enabled, runVars, paused, stop, ackPending, acked, woken,
                   dbLock, evals, mWork, mode, offStages, offThreads, disables>>

\* flushRunnables() of thread mt on the main thread: processAll(true) on each of its
\* enabled stages.
TeardownPops ==
    /\ ms \in Stage => enabled[ms]
    /\ MainPops("teardown", "teardownPush")

TeardownPushes == MainPushes("teardownPush", "teardown")

TeardownNextStage ==
    /\ mpc = "teardown"
    /\ ms \in Stage => (queue[ms - 1] = <<>> \/ ~enabled[ms])
    /\ IF StagesAfter(mt, ms) # {}
       THEN ms' = NextStage(mt, ms) /\ UNCHANGED <<mpc, mt, mWork>>
       ELSE /\ ms' = 0
            /\ IF mt < NumThreads
               THEN mt' = mt + 1 /\ UNCHANGED <<mpc, mWork>>
               ELSE /\ mt' = 1
                    /\ mWork' = FALSE
                    /\ mpc' = IF mWork THEN "teardown" ELSE "closed"
    /\ UNCHANGED <<dataVars, enabled, runVars, pauseVars, dbVars, mode, offStages,
                   offThreads, disables>>

--------------------------------------------------------------------------------
ThreadStep(t) ==
    \/ LeaveLoop(t) \/ Park(t) \/ EnterRun(t) \/ BeginRun(t)
    \/ SkipDisabled(t) \/ CallStage(t)
    \/ StageSleeps(t) \/ StagePops(t) \/ StagePushes(t)
    \/ YieldToEval(t) \/ KeepPolling(t) \/ EndRound(t)
    \/ ReturnFromRun(t) \/ WakeFromNap(t)

\* Steps of the main thread that follow from calls it has already made.
MainContinues ==
    \/ OpenThread
    \/ DisableStage \/ DisabledThread \/ RequestPause \/ PauseNotify \/ PauseAcknowledged
    \/ ResumeThread \/ ResumeNotify \/ ResumedAll \/ EnableStage \/ EnabledAll
    \/ LockForFlush \/ FlushPops \/ FlushPushes \/ FlushNextStage \/ EndFlush
    \/ RequestStop \/ CloseNotify \/ JoinThread
    \/ TeardownPops \/ TeardownPushes \/ TeardownNextStage

\* Calls the application chooses to make.
MainCalls ==
    \/ SubmitItem
    \/ \E m \in {"soft", "hard"} : ScopedDisableAll(m)
    \/ ReleaseDisabler
    \/ BeginFlush
    \/ BeginTeardown

Finished == mpc = "closed" /\ UNCHANGED vars

Next ==
    \/ \E t \in Thread : ThreadStep(t) \/ Unpark(t)
    \/ PostTask
    \/ RunTasks
    \/ MainContinues
    \/ MainCalls
    \/ Finished

Spec == Init /\ [][Next]_vars

(***************************************************************************)
(* Fairness: the operating system runs every thread that can take a step;  *)
(* a parked thread is only sure to run after a notification (spurious      *)
(* wake-ups may or may not happen).  Waiting for the transaction mutex is  *)
(* strongly fair: the database thread is outside it whenever it naps.  The *)
(* application lets go of a disabler (it is tied to a scope) but need not  *)
(* submit, flush or tear down.                                             *)
(***************************************************************************)
Fairness ==
    /\ \A t \in Thread : WF_vars(ThreadStep(t))
    /\ \A t \in Thread : WF_vars(woken[t] /\ Unpark(t))
    /\ WF_vars(MainContinues)
    /\ SF_vars(ReleaseDisabler)
    /\ SF_vars(LockForFlush)
    /\ SF_vars(RunTasks)

FairSpec == Spec /\ Fairness
--------------------------------------------------------------------------------
(***************************************************************************)
(* Correctness.                                                            *)
(***************************************************************************)
\* The item stage s has popped and not pushed yet, on its thread or in a flush.
InHand(s) ==
    (IF cur[ThreadOf[s]] = s THEN tHeld[ThreadOf[s]] ELSE <<>>)
        \o (IF ms = s THEN mHeld ELSE <<>>)

\* Everything submitted, read from the table back to the pipeline head.
Flow[s \in 0..NumStages] ==
    IF s = 0 THEN queue[0] ELSE queue[s] \o InHand(s) \o Flow[s - 1]

\* No item is lost, duplicated or overtaken between Stage::processOne calls,
\* whichever thread, drain loop or flush made them: read from the table back to the
\* head, the pipeline always holds exactly the submitted items in order.
InOrder == Flow[NumStages] = [k \in 1..sent |-> k]

\* The whole pipeline is frozen: scopedDisableAll(true) has returned and its
\* disabler is alive.
Frozen == mode = "hard" /\ mpc \in {"frozen", "lockDb", "flush", "flushPush", "flushed"}

\* While it is frozen no polling thread is inside a stage, so a snooper looking
\* through the queues can miss nothing and a flush is the only one to run stages
\* (PollingThread::pause waits for the acknowledgement of loop_).
FrozenStill ==
    Frozen => \A t \in Thread : /\ pc[t] \in {"parked", "top"}
                                /\ paused[t]
                                /\ tHeld[t] = <<>>

\* Flusher::flush() called under a hard disabler has just returned to its caller: the
\* table holds everything submitted before the call.
FlushExact == (mpc = "flushed" /\ mode = "hard") => Len(queue[NumStages]) = sent

\* The same of every flush, as the book has it: "a flush guarantees all prior data is
\* committed" (part6-advanced-pipelines.adoc, line 102).  Flusher::flush() itself asks
\* for no disabler; beside running threads it cannot reach the item a stage has popped
\* and not pushed yet.
FlushCommitsAll == mpc = "flushed" => Len(queue[NumStages]) = sent

\* postSimLoopTeardown returns with every submitted item in the table and no thread
\* running, although a thread's own drain may stop early (an upstream thread was
\* still running, or a pending eval() made run_ report no work).
TeardownDrains ==
    mpc = "closed" => /\ Len(queue[NumStages]) = sent
                      /\ \A t \in Thread : ~running[t] /\ pc[t] = "exited"

\* Every disabler leaves the pipeline as it found it: outside a disabler's lifetime
\* every stage is enabled and no thread is paused, so nothing stays off after the
\* destructor whatever the interleaving with the polling threads was.
DisablerRestores ==
    mode = "none" => /\ \A s \in Stage : enabled[s]
                     /\ \A t \in Thread : ~paused[t]

\* The pipeline as PipelinePromise sees it.
PromisePhase ==
    IF mpc = "closed" THEN "closed"
    ELSE IF ~Frozen THEN "open"
    ELSE IF mpc = "frozen" THEN "frozen"
    ELSE "flushing"

Promise == INSTANCE PipelinePromise
             WITH rows <- queue[NumStages], phase <- PromisePhase

\* The running pipeline implements what it promises the application.
KeepsPromise == Promise!PromiseSpec

\* scopedDisableAll and postSimLoopTeardown return: pause() always gets its
\* acknowledgement and join() its thread.
DisableReturns == (mpc = "disabling") ~> (mpc = "frozen")

TeardownReturns == (mpc = "closing") ~> (mpc = "closed")

\* A submitted item reaches the table without any flush or teardown, also when the
\* pipeline is frozen and thawed and eval() calls interrupt the database thread.
EventuallyWritten ==
    \A k \in Item : (sent >= k) ~> (Len(queue[NumStages]) >= k)
================================================================================
