------------------------- MODULE PipelineThreads_proofs -------------------------
(***************************************************************************)
(* Proofs about PipelineThreads, for every number of stages, threads and   *)
(* items and every assignment of stages to threads.                        *)
(***************************************************************************)
EXTENDS PipelineThreads, WellFoundedInduction, TLAPS

--------------------------------------------------------------------------------
(***************************************************************************)
(* The inductive invariant.                                                *)
(***************************************************************************)
\* What a thread holds and where its cursor is.
ThreadCursor ==
    \A t \in Thread : /\ pc[t] \in {"call", "push"} => cur[t] \in Stage
                      /\ tHeld[t] # <<>> => pc[t] = "push"

\* Where the main thread's loops are when they use their cursors.
MainCursor ==
    /\ mpc \in {"flush", "flushPush", "teardownPush"} => ms \in Stage
    /\ mpc \in {"pausing", "pauseNotify", "awaitAck", "resumeNotify", "closing",
                "closeNotify", "joining", "teardown", "teardownPush"} => mt \in Thread

\* Threads are opened in order.
OpenInv == mpc = "opening" => \A t \in Thread : t >= mt => pc[t] = "off"

CursorInv == ThreadCursor /\ MainCursor /\ OpenInv /\ tasks <= evals

\* Between a thread and whoever pauses it: an acknowledged pause finds the thread
\* outside run_, and a thread told to stop is not paused.
PauseInv ==
    \A t \in Thread : /\ acked[t] => ~ackPending[t]
                      /\ paused[t] /\ ~ackPending[t] => pc[t] \in {"parked", "top"}
                      /\ stop[t] => ~paused[t]

ClosePcs == {"closing", "closeNotify", "joining", "teardown", "teardownPush", "closed"}

StopInv == (\E t \in Thread : stop[t]) => mpc \in ClosePcs

HandshakeInv == PauseInv /\ StopInv

\* What the main thread's position says about the disabler.
ActivePcs == {"disabling", "pausing", "pauseNotify", "awaitAck", "frozen", "resuming",
              "resumeNotify", "enabling"}
FlushPcs == {"lockDb", "flush", "flushPush", "flushed"}

ModeInv ==
    /\ mpc \in ActivePcs => mode # "none"
    /\ mode # "none" => mpc \in ActivePcs \cup FlushPcs
    /\ mpc \in {"pausing", "pauseNotify", "awaitAck"} => mode = "hard"

\* The disabler remembers exactly the stages that are off.
StagesInv ==
    /\ \A s \in Stage : ~enabled[s] <=> s \in offStages
    /\ mode = "none" => offStages = {}

\* Paused, and the pause acknowledged.
Held(t) == paused[t] /\ acked[t]

\* How far the loops that pause and resume the threads have got.
ThreadsInv ==
    /\ mpc = "pausing" =>
         \A t \in Thread : IF t < mt THEN Held(t) /\ t \in offThreads
                                     ELSE ~paused[t] /\ t \notin offThreads
    /\ mpc \in {"pauseNotify", "awaitAck"} =>
         /\ paused[mt]
         /\ \A t \in Thread : /\ t < mt => Held(t) /\ t \in offThreads
                              /\ t > mt => ~paused[t]
                              /\ t >= mt => t \notin offThreads
    /\ Frozen => \A t \in Thread : Held(t) /\ t \in offThreads
    /\ mpc \in {"resuming", "resumeNotify"} /\ mode = "hard" =>
         \A t \in Thread : /\ t \in offThreads
                           /\ t < mt => ~paused[t]
                           /\ t > mt => Held(t)
    /\ mpc = "resuming" /\ mode = "hard" /\ mt \in Thread => Held(mt)
    /\ mpc = "resumeNotify" => mode = "hard" /\ ~paused[mt]
    /\ mode # "hard" \/ mpc \in {"disabling", "enabling"} =>
         /\ \A t \in Thread : ~paused[t]
         /\ offThreads = {}

DisablerInv == ModeInv /\ StagesInv /\ ThreadsInv

IInv == TypeOK /\ CursorInv /\ HandshakeInv /\ DisablerInv

--------------------------------------------------------------------------------
(***************************************************************************)
(* Loops over a thread's stages.                                           *)
(***************************************************************************)
\* A loop over the stages of thread t that is not at its end has a next stage.
LEMMA NextStageIn ==
    ASSUME NEW t, NEW s, StagesAfter(t, s) # {}
    PROVE  NextStage(t, s) \in StagesAfter(t, s)
<1> DEFINE S == StagesAfter(t, s)
<1>1. S \subseteq Nat
  BY PipelineAssumption DEF StagesAfter, Stage
<1>2. PICK r \in S : \A q \in S : ~(<<q, r>> \in OpToRel(<, Nat))
  BY <1>1, NatLessThanWellFounded, WFMin
<1>3. ASSUME NEW q \in S PROVE r <= q
  <2>1. q \in Nat /\ r \in Nat
    BY <1>1
  <2>2. ~(q < r)
    BY <1>2, <2>1 DEF OpToRel
  <2> QED
    BY <2>1, <2>2
<1> QED
  BY <1>3 DEF NextStage

LEMMA NextStageType ==
    ASSUME NEW t, NEW s, StagesAfter(t, s) # {}
    PROVE  /\ NextStage(t, s) \in Stage
           /\ NextStage(t, s) \in 0..NumStages
           /\ ThreadOf[NextStage(t, s)] = t
<1>1. NextStage(t, s) \in Stage /\ ThreadOf[NextStage(t, s)] = t
  BY NextStageIn DEF StagesAfter
<1>2. \A r \in Stage : r \in 0..NumStages
  BY PipelineAssumption DEF Stage
<1> QED
  BY <1>1, <1>2

--------------------------------------------------------------------------------
(***************************************************************************)
(* What each kind of step leaves alone.                                    *)
(***************************************************************************)
\* A polling thread never touches the main thread's state, the enabled flags or the
\* requests made of it.
LEMMA ThreadFrame ==
    ASSUME NEW t \in Thread, ThreadStep(t) \/ Unpark(t)
    PROVE  UNCHANGED <<sent, mHeld, enabled, paused, stop, running, tasks, evals,
                       dormantOpen, mainVars>>
  BY DEF ThreadStep, LeaveLoop, Park, EnterRun, BeginRun, SkipDisabled, CallStage,
         StageSleeps, StagePops, StagePushes, YieldToEval, KeepPolling, EndRound,
         ReturnFromRun, WakeFromNap, Unpark, dataVars, pauseVars, dbVars

\* The main thread never touches what a polling thread keeps for itself.
LEMMA MainFrame ==
    ASSUME MainContinues \/ MainCalls
    PROVE  UNCHANGED <<tHeld, cur, processed, didWork, draining, evals>>
  BY DEF MainContinues, MainCalls, OpenThread, DisableStage, DisabledThread,
         RequestPause, PauseNotify, PauseAcknowledged, ResumeThread, ResumeNotify,
         ResumedAll, EnableStage, EnabledAll, LockForFlush, FlushPops, FlushPushes,
         FlushNextStage, EndFlush, RequestStop, CloseNotify, JoinThread, TeardownPops,
         TeardownPushes, TeardownNextStage, MainPops, MainPushes, SubmitItem,
         ScopedDisableAll, ReleaseDisabler, BeginFlush, BeginTeardown, dataVars,
         runVars, dbVars

\* Nor does it move a polling thread, once that is started.
LEMMA MainKeepsPc ==
    ASSUME MainContinues \/ MainCalls, ~OpenThread
    PROVE  pc' = pc
  BY DEF MainContinues, MainCalls, DisableStage, DisabledThread,
         RequestPause, PauseNotify, PauseAcknowledged, ResumeThread, ResumeNotify,
         ResumedAll, EnableStage, EnabledAll, LockForFlush, FlushPops, FlushPushes,
         FlushNextStage, EndFlush, RequestStop, CloseNotify, JoinThread, TeardownPops,
         TeardownPushes, TeardownNextStage, MainPops, MainPushes, SubmitItem,
         ScopedDisableAll, ReleaseDisabler, BeginFlush, BeginTeardown, runVars

LEMMA MainDbFrame ==
    ASSUME MainContinues \/ MainCalls, dormantOpen \in BOOLEAN
    PROVE  /\ dbLock' \in {"free", "main", dbLock}
           /\ tasks' \in {0, tasks}
           /\ dormantOpen' \in BOOLEAN
           /\ evals' = evals
  BY DEF MainContinues, MainCalls, OpenThread, DisableStage, DisabledThread,
         RequestPause, PauseNotify, PauseAcknowledged, ResumeThread, ResumeNotify,
         ResumedAll, EnableStage, EnabledAll, LockForFlush, FlushPops, FlushPushes,
         FlushNextStage, EndFlush, RequestStop, CloseNotify, JoinThread, TeardownPops,
         TeardownPushes, TeardownNextStage, MainPops, MainPushes, SubmitItem,
         ScopedDisableAll, ReleaseDisabler, BeginFlush, BeginTeardown, dbVars

LEMMA TaskFrame ==
    ASSUME PostTask \/ RunTasks
    PROVE  UNCHANGED <<dataVars, enabled, runVars, pauseVars, dbLock, dormantOpen,
                       mainVars>>
  BY DEF PostTask, RunTasks

--------------------------------------------------------------------------------
(***************************************************************************)
(* Types.                                                                  *)
(***************************************************************************)
\* The ranges of the loop cursors.
LEMMA Cursors ==
    /\ 0 \in 0..NumStages
    /\ 1 \in 0..NumStages
    /\ Stage \subseteq 0..NumStages
    /\ \A s \in Stage : s < NumStages => s + 1 \in 0..NumStages
    /\ 1 \in 1..(NumThreads + 1)
    /\ Thread \subseteq 1..(NumThreads + 1)
    /\ \A t \in Thread : t + 1 \in 1..(NumThreads + 1)
  BY PipelineAssumption DEF Stage, Thread

\* Popping from the input queue of stage s keeps items in sequences.
LEMMA PopTyped ==
    ASSUME DataTypeOK, NEW s \in Stage, queue[s - 1] # <<>>
    PROVE  /\ <<Head(queue[s - 1])>> \in Seq(Item)
           /\ [queue EXCEPT ![s - 1] = Tail(@)] \in [0..NumStages -> Seq(Item)]
<1>1. s - 1 \in 0..NumStages
  BY PipelineAssumption DEF Stage
<1> DEFINE q == queue[s - 1]
<1>2. q \in Seq(Item) /\ q # <<>>
  BY <1>1 DEF DataTypeOK
<1>3. Tail(q) \in Seq(Item) /\ <<Head(q)>> \in Seq(Item)
  BY <1>2
<1> QED
  BY <1>3 DEF DataTypeOK

\* So does pushing the items in hand to the output queue.
LEMMA PushTyped ==
    ASSUME DataTypeOK, NEW s \in 0..NumStages, NEW h \in Seq(Item)
    PROVE  [queue EXCEPT ![s] = @ \o h] \in [0..NumStages -> Seq(Item)]
<1>1. queue[s] \in Seq(Item)
  BY DEF DataTypeOK
<1>2. queue[s] \o h \in Seq(Item)
  BY <1>1
<1> QED
  BY <1>2 DEF DataTypeOK

LEMMA MainPopsTyped ==
    ASSUME DataTypeOK, NEW w, NEW n, MainPops(w, n)
    PROVE  DataTypeOK'
  BY PopTyped DEF MainPops, DataTypeOK

LEMMA MainPushesTyped ==
    ASSUME DataTypeOK, ms \in 0..NumStages, NEW w, NEW n, MainPushes(w, n)
    PROVE  DataTypeOK'
<1>1. mHeld \in Seq(Item) /\ <<>> \in Seq(Item)
  BY DEF DataTypeOK
<1> QED
  BY <1>1, PushTyped DEF MainPushes, DataTypeOK

LEMMA DataTypeStep ==
    ASSUME TypeOK, CursorInv, [Next]_vars
    PROVE  DataTypeOK'
<1> USE DEF TypeOK
<1>1. ASSUME NEW t \in Thread, StagePops(t) PROVE DataTypeOK'
  <2>1. cur[t] \in Stage
    BY <1>1 DEF CursorInv, ThreadCursor, StagePops
  <2> QED
    BY <1>1, <2>1, PopTyped DEF StagePops, DataTypeOK
<1>2. ASSUME NEW t \in Thread, StagePushes(t) PROVE DataTypeOK'
  <2>1. cur[t] \in 0..NumStages /\ tHeld[t] \in Seq(Item) /\ <<>> \in Seq(Item)
    BY DEF RunTypeOK, DataTypeOK
  <2> QED
    BY <1>2, <2>1, PushTyped DEF StagePushes, DataTypeOK
<1>3. ASSUME NEW t \in Thread, ThreadStep(t) \/ Unpark(t), ~StagePops(t), ~StagePushes(t)
      PROVE  DataTypeOK'
  <2>1. UNCHANGED dataVars
    BY <1>3 DEF ThreadStep, LeaveLoop, Park, EnterRun, BeginRun, SkipDisabled, CallStage,
         StageSleeps, YieldToEval, KeepPolling, EndRound, ReturnFromRun, WakeFromNap,
         Unpark
  <2> QED
    BY <2>1 DEF dataVars, DataTypeOK
<1>4. CASE SubmitItem
  <2>1. sent + 1 \in Item /\ sent + 1 \in 0..MaxItems /\ 0 \in 0..NumStages
    BY <1>4, PipelineAssumption DEF SubmitItem, DataTypeOK, Item
  <2>2. Append(queue[0], sent + 1) \in Seq(Item)
    BY <2>1 DEF DataTypeOK
  <2> QED
    BY <1>4, <2>1, <2>2 DEF SubmitItem, DataTypeOK
<1>5. CASE FlushPops \/ TeardownPops
  BY <1>5, MainPopsTyped DEF FlushPops, TeardownPops
<1>6. CASE FlushPushes \/ TeardownPushes
  BY <1>6, MainPushesTyped DEF FlushPushes, TeardownPushes, MainTypeOK
<1>7. ASSUME MainContinues \/ MainCalls, ~SubmitItem, ~FlushPops, ~TeardownPops,
             ~FlushPushes, ~TeardownPushes
      PROVE  DataTypeOK'
  <2>1. UNCHANGED dataVars
    BY <1>7 DEF MainContinues, MainCalls, OpenThread, DisableStage, DisabledThread,
         RequestPause, PauseNotify, PauseAcknowledged, ResumeThread, ResumeNotify,
         ResumedAll, EnableStage, EnabledAll, LockForFlush, FlushNextStage, EndFlush,
         RequestStop, CloseNotify, JoinThread, TeardownNextStage, ScopedDisableAll,
         ReleaseDisabler, BeginFlush, BeginTeardown
  <2> QED
    BY <2>1 DEF dataVars, DataTypeOK
<1>8. CASE PostTask \/ RunTasks \/ Finished \/ UNCHANGED vars
  BY <1>8, TaskFrame DEF Finished, vars, dataVars, DataTypeOK
<1> QED
  BY <1>1, <1>2, <1>3, <1>4, <1>5, <1>6, <1>7, <1>8 DEF Next

LEMMA RunTypeStep ==
    ASSUME TypeOK, [Next]_vars
    PROVE  RunTypeOK'
<1> USE DEF TypeOK, RunTypeOK, ThreadPcs
<1>1. ASSUME NEW t \in Thread, LeaveLoop(t) \/ EnterRun(t) \/ ReturnFromRun(t)
      PROVE  RunTypeOK'
  <2>1. AfterRun(t) \in ThreadPcs
    BY DEF AfterRun
  <2>2. CASE LeaveLoop(t)
    BY <2>2, Cursors DEF LeaveLoop, Goto, ResetRun
  <2>3. CASE EnterRun(t)
    BY <2>3, Cursors DEF EnterRun, Goto, ResetRun
  <2>4. CASE ReturnFromRun(t)
    BY <2>1, <2>4, Cursors DEF ReturnFromRun, Goto, ResetRun
  <2> QED
    BY <1>1, <2>2, <2>3, <2>4
<1>2. ASSUME NEW t \in Thread, SkipDisabled(t) \/ CallStage(t) PROVE RunTypeOK'
  <2>1. NextStage(t, cur[t]) \in 0..NumStages
    BY <1>2, NextStageType DEF SkipDisabled, CallStage
  <2> QED
    BY <1>2, <2>1 DEF SkipDisabled, CallStage, Goto
<1>3. ASSUME NEW t \in Thread, EndRound(t) PROVE RunTypeOK'
  BY <1>3, Cursors DEF EndRound, Goto
<1>4. ASSUME NEW t \in Thread,
             \/ Park(t) \/ BeginRun(t) \/ StageSleeps(t) \/ StagePops(t)
             \/ StagePushes(t) \/ YieldToEval(t) \/ KeepPolling(t) \/ WakeFromNap(t)
             \/ Unpark(t)
      PROVE  RunTypeOK'
  BY <1>4 DEF Park, BeginRun, StageSleeps, StagePops, StagePushes, YieldToEval,
       KeepPolling, WakeFromNap, Unpark, Goto, AfterCall
<1>5. CASE OpenThread
  BY <1>5 DEF OpenThread
<1>6. ASSUME MainContinues \/ MainCalls, ~OpenThread PROVE RunTypeOK'
  BY <1>6, MainFrame, MainKeepsPc
<1>7. CASE PostTask \/ RunTasks \/ Finished \/ UNCHANGED vars
  BY <1>7, TaskFrame DEF Finished, vars, runVars
<1> QED
  BY <1>1, <1>2, <1>3, <1>4, <1>5, <1>6, <1>7 DEF Next, ThreadStep

LEMMA PauseTypeStep ==
    ASSUME TypeOK, CursorInv, [Next]_vars
    PROVE  PauseTypeOK'
<1> USE DEF TypeOK, PauseTypeOK
<1>1. ASSUME NEW t \in Thread, Park(t) PROVE PauseTypeOK'
  BY <1>1 DEF Park
<1>2. ASSUME NEW t \in Thread, ThreadStep(t) \/ Unpark(t), ~Park(t) PROVE PauseTypeOK'
  <2>1. UNCHANGED pauseVars
    BY <1>2 DEF ThreadStep, LeaveLoop, EnterRun, BeginRun, SkipDisabled, CallStage,
         StageSleeps, StagePops, StagePushes, YieldToEval, KeepPolling, EndRound,
         ReturnFromRun, WakeFromNap, Unpark
  <2> QED
    BY <2>1 DEF pauseVars
<1>3. CASE OpenThread \/ RequestPause \/ ResumeThread \/ RequestStop \/ JoinThread
  BY <1>3 DEF OpenThread, RequestPause, ResumeThread, RequestStop, JoinThread
<1>4. CASE PauseNotify \/ ResumeNotify \/ CloseNotify
  BY <1>4 DEF PauseNotify, ResumeNotify, CloseNotify, NotifyThread
<1>5. ASSUME MainContinues \/ MainCalls, ~OpenThread, ~RequestPause, ~ResumeThread,
             ~RequestStop, ~JoinThread, ~PauseNotify, ~ResumeNotify, ~CloseNotify
      PROVE  PauseTypeOK'
  <2>1. UNCHANGED pauseVars
    BY <1>5 DEF MainContinues, MainCalls, DisableStage, DisabledThread,
         PauseAcknowledged, ResumedAll, EnableStage, EnabledAll, LockForFlush,
         FlushPops, FlushPushes, FlushNextStage, EndFlush, TeardownPops,
         TeardownPushes, TeardownNextStage, MainPops, MainPushes, SubmitItem,
         ScopedDisableAll, ReleaseDisabler, BeginFlush, BeginTeardown
  <2> QED
    BY <2>1 DEF pauseVars
<1>6. CASE PostTask \/ RunTasks \/ Finished \/ UNCHANGED vars
  BY <1>6, TaskFrame DEF Finished, vars, pauseVars
<1> QED
  BY <1>1, <1>2, <1>3, <1>4, <1>5, <1>6 DEF Next

LEMMA DbTypeStep ==
    ASSUME TypeOK, CursorInv, [Next]_vars
    PROVE  DbTypeOK'
<1> USE DEF TypeOK, DbTypeOK
<1>1. ASSUME NEW t \in Thread, ThreadStep(t) \/ Unpark(t) PROVE DbTypeOK'
  <2>1. dbLock' \in {"free", "db", dbLock}
    BY <1>1 DEF ThreadStep, LeaveLoop, Park, EnterRun, BeginRun, SkipDisabled, CallStage,
         StageSleeps, StagePops, StagePushes, YieldToEval, KeepPolling, EndRound,
         ReturnFromRun, WakeFromNap, Unpark, dbVars
  <2> QED
    BY <1>1, <2>1, ThreadFrame
<1>2. CASE PostTask
  BY <1>2, PipelineAssumption DEF PostTask, CursorInv
<1>3. CASE RunTasks
  BY <1>3, PipelineAssumption DEF RunTasks
<1>4. ASSUME MainContinues \/ MainCalls PROVE DbTypeOK'
  BY <1>4, MainDbFrame, PipelineAssumption
<1>5. CASE Finished \/ UNCHANGED vars
  BY <1>5 DEF Finished, vars, dbVars
<1> QED
  BY <1>1, <1>2, <1>3, <1>4, <1>5 DEF Next

LEMMA MainTypeStep ==
    ASSUME TypeOK, CursorInv, [Next]_vars
    PROVE  /\ MainTypeOK'
           /\ enabled' \in [Stage -> BOOLEAN]
<1> DEFINE Goal == MainTypeOK' /\ enabled' \in [Stage -> BOOLEAN]
<1> USE Cursors DEF TypeOK, MainTypeOK, MainPcs
<1>1. ASSUME NEW t \in Thread, ThreadStep(t) \/ Unpark(t) PROVE Goal
  BY <1>1, ThreadFrame DEF mainVars
<1>2. CASE DisableStage
  BY <1>2, NextStageType DEF DisableStage, mainVars
<1>3. CASE TeardownNextStage
  <2>1. mt < NumThreads => mt + 1 \in 1..(NumThreads + 1)
    BY PipelineAssumption
  <2> QED
    BY <1>3, <2>1, NextStageType DEF TeardownNextStage
<1>4. CASE FlushNextStage
  BY <1>4 DEF FlushNextStage, CursorInv, MainCursor
<1>5. CASE LockForFlush
  BY <1>5 DEF LockForFlush
<1>6. CASE EnableStage
  BY <1>6 DEF EnableStage
<1>7. CASE OpenThread \/ DisabledThread \/ PauseAcknowledged \/ ResumeNotify
         \/ JoinThread \/ ReleaseDisabler \/ BeginTeardown
  <2>1. CASE OpenThread
    BY <2>1 DEF OpenThread
  <2>2. CASE DisabledThread
    BY <2>2 DEF DisabledThread
  <2>3. CASE PauseAcknowledged
    BY <2>3 DEF PauseAcknowledged, CursorInv, MainCursor
  <2>4. CASE ResumeNotify
    BY <2>4 DEF ResumeNotify, CursorInv, MainCursor
  <2>5. CASE JoinThread
    BY <2>5 DEF JoinThread, CursorInv, MainCursor
  <2>6. CASE ReleaseDisabler \/ BeginTeardown
    BY <2>6 DEF ReleaseDisabler, BeginTeardown
  <2> QED
    BY <1>7, <2>1, <2>2, <2>3, <2>4, <2>5, <2>6
<1>8. ASSUME NEW m \in {"soft", "hard"}, ScopedDisableAll(m) PROVE Goal
  BY <1>8, PipelineAssumption DEF ScopedDisableAll
<1>9. CASE RequestPause \/ PauseNotify \/ ResumeThread \/ ResumedAll \/ EnabledAll
         \/ EndFlush \/ RequestStop \/ CloseNotify \/ SubmitItem \/ BeginFlush
  BY <1>9 DEF RequestPause, PauseNotify, ResumeThread, ResumedAll, EnabledAll,
       EndFlush, RequestStop, CloseNotify, SubmitItem, BeginFlush, mainVars
<1>10. CASE FlushPops \/ FlushPushes \/ TeardownPops \/ TeardownPushes
  BY <1>10 DEF FlushPops, FlushPushes, TeardownPops, TeardownPushes, MainPops, MainPushes
<1>11. CASE PostTask \/ RunTasks \/ Finished \/ UNCHANGED vars
  BY <1>11, TaskFrame DEF Finished, vars, mainVars
<1> QED
  BY <1>1, <1>2, <1>3, <1>4, <1>5, <1>6, <1>7, <1>8, <1>9, <1>10, <1>11
     DEF Next, MainContinues, MainCalls

\* Every step keeps the types.
LEMMA TypeStep ==
    ASSUME TypeOK, CursorInv, [Next]_vars
    PROVE  TypeOK'
  BY DataTypeStep, RunTypeStep, PauseTypeStep, DbTypeStep, MainTypeStep DEF TypeOK

--------------------------------------------------------------------------------
(***************************************************************************)
(* The other parts of the invariant.                                       *)
(***************************************************************************)
LEMMA ThreadCursorStep ==
    ASSUME TypeOK, ThreadCursor, OpenInv, [Next]_vars
    PROVE  ThreadCursor'
<1> USE DEF ThreadCursor, TypeOK, RunTypeOK, DataTypeOK
<1>1. ASSUME NEW t \in Thread, CallStage(t) \/ SkipDisabled(t) PROVE ThreadCursor'
  <2>1. NextStage(t, cur[t]) \in Stage
    BY <1>1, NextStageType DEF CallStage, SkipDisabled
  <2>2. CASE CallStage(t)
    BY <2>1, <2>2 DEF CallStage, Goto, dataVars
  <2>3. CASE SkipDisabled(t)
    BY <2>1, <2>3 DEF SkipDisabled, dataVars
  <2> QED
    BY <1>1, <2>2, <2>3
<1>2. ASSUME NEW t \in Thread, StagePops(t) \/ StagePushes(t) \/ StageSleeps(t)
      PROVE  ThreadCursor'
  BY <1>2 DEF StagePops, StagePushes, StageSleeps, Goto, AfterCall, dataVars
<1>3. ASSUME NEW t \in Thread, LeaveLoop(t) \/ EnterRun(t) \/ EndRound(t) \/ ReturnFromRun(t)
      PROVE  ThreadCursor'
  BY <1>3 DEF LeaveLoop, EnterRun, EndRound, ReturnFromRun, Goto, ResetRun, AfterRun,
       dataVars
<1>4. ASSUME NEW t \in Thread,
             \/ Park(t) \/ BeginRun(t) \/ YieldToEval(t) \/ KeepPolling(t)
             \/ WakeFromNap(t) \/ Unpark(t)
      PROVE  ThreadCursor'
  BY <1>4 DEF Park, BeginRun, YieldToEval, KeepPolling, WakeFromNap, Unpark, Goto,
       dataVars
<1>5. CASE OpenThread
  <2>1. pc[mt] = "off"
    BY <1>5 DEF OpenThread, OpenInv, Thread
  <2> QED
    BY <1>5, <2>1 DEF OpenThread, dataVars
<1>6. ASSUME MainContinues \/ MainCalls, ~OpenThread PROVE ThreadCursor'
  BY <1>6, MainFrame, MainKeepsPc
<1>7. CASE PostTask \/ RunTasks \/ Finished \/ UNCHANGED vars
  BY <1>7, TaskFrame DEF Finished, vars, runVars, dataVars
<1> QED
  BY <1>1, <1>2, <1>3, <1>4, <1>5, <1>6, <1>7 DEF Next, ThreadStep

LEMMA OpenStep ==
    ASSUME TypeOK, OpenInv, [Next]_vars
    PROVE  OpenInv'
<1> USE DEF OpenInv
<1>1. ASSUME NEW t \in Thread, ThreadStep(t) \/ Unpark(t) PROVE OpenInv'
  <2>1. /\ pc[t] # "off"
        /\ \A r \in Thread : r # t => pc'[r] = pc[r]
    BY <1>1 DEF ThreadStep, LeaveLoop, Park, EnterRun, BeginRun, SkipDisabled, CallStage,
         StageSleeps, StagePops, StagePushes, YieldToEval, KeepPolling, EndRound,
         ReturnFromRun, WakeFromNap, Unpark, Goto, TypeOK, RunTypeOK
  <2> QED
    BY <1>1, <2>1, ThreadFrame DEF mainVars
<1>2. CASE OpenThread
  <2>1. \A r \in Thread : r >= mt' => r # mt /\ r >= mt
    BY <1>2, PipelineAssumption DEF OpenThread, Thread
  <2> QED
    BY <1>2, <2>1 DEF OpenThread, TypeOK, RunTypeOK
<1>3. ASSUME MainContinues \/ MainCalls, ~OpenThread PROVE OpenInv'
  <2>1. mpc' # "opening"
    BY <1>3 DEF MainContinues, MainCalls, DisableStage, DisabledThread,
         RequestPause, PauseNotify, PauseAcknowledged, ResumeThread, ResumeNotify,
         ResumedAll, EnableStage, EnabledAll, LockForFlush, FlushPops, FlushPushes,
         FlushNextStage, EndFlush, RequestStop, CloseNotify, JoinThread, TeardownPops,
         TeardownPushes, TeardownNextStage, MainPops, MainPushes, SubmitItem,
         ScopedDisableAll, ReleaseDisabler, BeginFlush, BeginTeardown, mainVars
  <2> QED
    BY <2>1
<1>4. CASE PostTask \/ RunTasks \/ Finished \/ UNCHANGED vars
  BY <1>4, TaskFrame DEF Finished, vars, runVars, mainVars
<1> QED
  BY <1>1, <1>2, <1>3, <1>4 DEF Next

LEMMA TaskBound ==
    ASSUME TypeOK, tasks <= evals, [Next]_vars
    PROVE  tasks' <= evals'
<1> USE DEF TypeOK, DbTypeOK
<1>1. ASSUME NEW t \in Thread, ThreadStep(t) \/ Unpark(t) PROVE tasks' <= evals'
  BY <1>1, ThreadFrame
<1>2. CASE PostTask
  BY <1>2 DEF PostTask
<1>3. CASE RunTasks
  BY <1>3 DEF RunTasks
<1>4. ASSUME MainContinues \/ MainCalls PROVE tasks' <= evals'
  BY <1>4, MainDbFrame
<1>5. CASE Finished \/ UNCHANGED vars
  BY <1>5 DEF Finished, vars, dbVars
<1> QED
  BY <1>1, <1>2, <1>3, <1>4, <1>5 DEF Next

LEMMA MainCursorStep ==
    ASSUME MainTypeOK, MainCursor, [Next]_vars
    PROVE  MainCursor'
<1> USE DEF MainCursor
<1>2. ASSUME NEW t \in Thread, ThreadStep(t) \/ Unpark(t) PROVE MainCursor'
  BY <1>2, ThreadFrame DEF mainVars
<1>3. 1 \in Stage /\ 1 \in Thread /\ NumStages \in Nat /\ NumThreads \in Nat
  BY PipelineAssumption DEF Stage, Thread
<1>4. \A t \in Thread : t # NumThreads => t + 1 \in Thread
  BY <1>3 DEF Thread
<1>5. \A s \in Stage : s < NumStages => s + 1 \in Stage
  BY <1>3 DEF Stage
<1> USE <1>3, <1>4, <1>5
<1>6. CASE DisabledThread \/ PauseAcknowledged \/ BeginTeardown \/ JoinThread
  BY <1>6 DEF DisabledThread, PauseAcknowledged, BeginTeardown, JoinThread
<1>7. CASE LockForFlush \/ FlushNextStage
  BY <1>7 DEF LockForFlush, FlushNextStage
<1>8. CASE TeardownNextStage
  <2>1. mt < NumThreads => mt # NumThreads
    BY DEF MainTypeOK
  <2> QED
    BY <1>8, <2>1, NextStageType DEF TeardownNextStage
<1>9. CASE FlushPops \/ FlushPushes \/ TeardownPops \/ TeardownPushes
  BY <1>9 DEF FlushPops, FlushPushes, TeardownPops, TeardownPushes, MainPops, MainPushes
<1>10. CASE ResumeThread
  BY <1>10 DEF ResumeThread, MainTypeOK
<1>11. CASE OpenThread \/ DisableStage \/ RequestPause \/ PauseNotify \/ ResumeNotify
         \/ ResumedAll \/ EnableStage \/ EnabledAll \/ EndFlush \/ RequestStop
         \/ CloseNotify \/ SubmitItem \/ ReleaseDisabler \/ BeginFlush
  BY <1>11 DEF OpenThread, DisableStage, RequestPause, PauseNotify, ResumeNotify,
       ResumedAll, EnableStage, EnabledAll, EndFlush, RequestStop, CloseNotify,
       SubmitItem, ReleaseDisabler, BeginFlush, mainVars
<1>12. ASSUME NEW m \in {"soft", "hard"}, ScopedDisableAll(m) PROVE MainCursor'
  BY <1>12 DEF ScopedDisableAll
<1>13. CASE PostTask \/ RunTasks \/ Finished \/ UNCHANGED vars
  BY <1>13, TaskFrame DEF Finished, vars, mainVars
<1> QED
  BY <1>2, <1>6, <1>7, <1>8, <1>9, <1>10, <1>11, <1>12, <1>13
     DEF Next, MainContinues, MainCalls

LEMMA CursorStep ==
    ASSUME TypeOK, CursorInv, [Next]_vars
    PROVE  CursorInv'
  BY ThreadCursorStep, MainCursorStep, OpenStep, TaskBound DEF CursorInv, TypeOK

LEMMA StopStep ==
    ASSUME TypeOK, StopInv, [Next]_vars
    PROVE  StopInv'
<1> USE DEF StopInv, ClosePcs
<1>1. ASSUME NEW t \in Thread, ThreadStep(t) \/ Unpark(t) PROVE StopInv'
  BY <1>1, ThreadFrame DEF mainVars
<1>2. CASE RequestStop
  BY <1>2 DEF RequestStop
<1>3. CASE CloseNotify \/ JoinThread \/ TeardownPops \/ TeardownPushes \/ TeardownNextStage
  BY <1>3 DEF CloseNotify, JoinThread, TeardownPops, TeardownPushes, TeardownNextStage,
       MainPops, MainPushes, pauseVars
<1>4. ASSUME MainContinues \/ MainCalls, ~RequestStop, ~CloseNotify, ~JoinThread,
             ~TeardownPops, ~TeardownPushes, ~TeardownNextStage
      PROVE  StopInv'
  <2>1. stop' = stop /\ mpc \notin ClosePcs
    BY <1>4 DEF MainContinues, MainCalls, OpenThread, DisableStage, DisabledThread,
         RequestPause, PauseNotify, PauseAcknowledged, ResumeThread, ResumeNotify,
         ResumedAll, EnableStage, EnabledAll, LockForFlush, FlushPops, FlushPushes,
         FlushNextStage, EndFlush, MainPops, MainPushes, SubmitItem, ScopedDisableAll,
         ReleaseDisabler, BeginFlush, BeginTeardown, pauseVars
  <2> QED
    BY <2>1
<1>5. CASE PostTask \/ RunTasks \/ Finished \/ UNCHANGED vars
  BY <1>5, TaskFrame DEF Finished, vars, pauseVars, mainVars
<1> QED
  BY <1>1, <1>2, <1>3, <1>4, <1>5 DEF Next

LEMMA PauseStep ==
    ASSUME TypeOK, PauseInv, StopInv, [Next]_vars
    PROVE  PauseInv'
<1> USE DEF PauseInv, TypeOK, RunTypeOK, PauseTypeOK
<1>1. ASSUME NEW t \in Thread, Park(t) PROVE PauseInv'
  BY <1>1 DEF Park, Goto
<1>2. ASSUME NEW t \in Thread, ThreadStep(t) \/ Unpark(t), ~Park(t) PROVE PauseInv'
  <2>1. /\ UNCHANGED pauseVars
        /\ \A r \in Thread : r # t => pc'[r] = pc[r]
    BY <1>2 DEF ThreadStep, LeaveLoop, EnterRun, BeginRun, SkipDisabled, CallStage,
         StageSleeps, StagePops, StagePushes, YieldToEval, KeepPolling, EndRound,
         ReturnFromRun, WakeFromNap, Unpark, Goto
  <2>2. \/ ~paused[t]
        \/ pc[t] \notin {"parked", "top"}
        \/ pc'[t] \in {"parked", "top"}
    <3>1. CASE LeaveLoop(t) \/ EnterRun(t)
      BY <3>1 DEF LeaveLoop, EnterRun
    <3>2. CASE Unpark(t)
      BY <3>2 DEF Unpark, Goto
    <3>3. ASSUME ThreadStep(t), ~Park(t), ~LeaveLoop(t), ~EnterRun(t)
          PROVE  pc[t] \notin {"parked", "top"}
      BY <3>3 DEF ThreadStep, BeginRun, SkipDisabled, CallStage, StageSleeps,
           StagePops, StagePushes, YieldToEval, KeepPolling, EndRound, ReturnFromRun,
           WakeFromNap
    <3> QED
      BY <1>2, <3>1, <3>2, <3>3
  <2> QED
    BY <2>1, <2>2 DEF pauseVars
<1>3. CASE RequestPause
  <2>1. ~stop[mt]
    BY <1>3 DEF RequestPause, StopInv, ClosePcs
  <2> QED
    BY <1>3, <2>1 DEF RequestPause, runVars
<1>4. CASE ResumeThread
  BY <1>4 DEF ResumeThread, runVars
<1>5. CASE RequestStop
  BY <1>5 DEF RequestStop, runVars
<1>6. CASE OpenThread
  BY <1>6 DEF OpenThread
<1>7. ASSUME MainContinues \/ MainCalls, ~RequestPause, ~ResumeThread, ~RequestStop,
             ~OpenThread
      PROVE  PauseInv'
  <2>1. UNCHANGED <<paused, stop, ackPending, acked>>
    BY <1>7 DEF MainContinues, MainCalls, DisableStage, DisabledThread,
         PauseNotify, PauseAcknowledged, ResumeNotify,
         ResumedAll, EnableStage, EnabledAll, LockForFlush, FlushPops, FlushPushes,
         FlushNextStage, EndFlush, CloseNotify, JoinThread, TeardownPops,
         TeardownPushes, TeardownNextStage, MainPops, MainPushes, SubmitItem,
         ScopedDisableAll, ReleaseDisabler, BeginFlush, BeginTeardown, pauseVars
  <2> QED
    BY <1>7, <2>1, MainKeepsPc
<1>8. CASE PostTask \/ RunTasks \/ Finished \/ UNCHANGED vars
  BY <1>8, TaskFrame DEF Finished, vars, pauseVars, runVars
<1> QED
  BY <1>1, <1>2, <1>3, <1>4, <1>5, <1>6, <1>7, <1>8 DEF Next

LEMMA ModeStep ==
    ASSUME TypeOK, ModeInv, [Next]_vars
    PROVE  ModeInv'
<1> USE DEF ModeInv, ActivePcs, FlushPcs
<1>1. ASSUME NEW t \in Thread, ThreadStep(t) \/ Unpark(t) PROVE ModeInv'
  BY <1>1, ThreadFrame DEF mainVars
<1>2. ASSUME NEW m \in {"soft", "hard"}, ScopedDisableAll(m) PROVE ModeInv'
  BY <1>2 DEF ScopedDisableAll
<1>3. CASE EnabledAll
  BY <1>3 DEF EnabledAll
<1>4. CASE FlushPops \/ FlushPushes \/ TeardownPops \/ TeardownPushes
  BY <1>4 DEF FlushPops, FlushPushes, TeardownPops, TeardownPushes, MainPops, MainPushes
<1>5. CASE DisabledThread \/ PauseAcknowledged \/ FlushNextStage \/ JoinThread
         \/ TeardownNextStage
  BY <1>5 DEF DisabledThread, PauseAcknowledged, FlushNextStage, JoinThread,
       TeardownNextStage, TypeOK, MainTypeOK
<1>6. CASE OpenThread \/ DisableStage \/ RequestPause \/ PauseNotify \/ ResumeThread
         \/ ResumeNotify \/ ResumedAll \/ EnableStage
  BY <1>6 DEF OpenThread, DisableStage, RequestPause, PauseNotify, ResumeThread,
       ResumeNotify, ResumedAll, EnableStage
<1>7. CASE LockForFlush \/ EndFlush \/ RequestStop \/ CloseNotify \/ SubmitItem
         \/ ReleaseDisabler \/ BeginFlush \/ BeginTeardown
  BY <1>7 DEF LockForFlush, EndFlush, RequestStop, CloseNotify, SubmitItem,
       ReleaseDisabler, BeginFlush, BeginTeardown, mainVars
<1>8. CASE PostTask \/ RunTasks \/ Finished \/ UNCHANGED vars
  BY <1>8, TaskFrame DEF Finished, vars, mainVars
<1> QED
  BY <1>1, <1>2, <1>3, <1>4, <1>5, <1>6, <1>7, <1>8 DEF Next, MainContinues, MainCalls

LEMMA StagesStep ==
    ASSUME TypeOK, ModeInv, StagesInv, [Next]_vars
    PROVE  StagesInv'
<1> USE DEF StagesInv, TypeOK, MainTypeOK
<1>1. ASSUME NEW t \in Thread, ThreadStep(t) \/ Unpark(t) PROVE StagesInv'
  BY <1>1, ThreadFrame DEF mainVars
<1>2. CASE DisableStage
  <2>1. mode # "none"
    BY <1>2 DEF DisableStage, ModeInv, ActivePcs
  <2> DEFINE s == NextStage(mt, ms)
  <2>2. s \in Stage
    BY <1>2, NextStageType DEF DisableStage
  <2> HIDE DEF s
  <2>3. /\ enabled' = [enabled EXCEPT ![s] = FALSE]
        /\ offStages' = IF enabled[s] THEN offStages \cup {s} ELSE offStages
        /\ mode' = mode
    BY <1>2 DEF DisableStage, s
  <2> QED
    BY <2>1, <2>2, <2>3
<1>3. CASE EnableStage
  <2>1. mode # "none"
    BY <1>3 DEF EnableStage, ModeInv, ActivePcs
  <2>2. PICK s \in offStages : /\ enabled' = [enabled EXCEPT ![s] = TRUE]
                               /\ offStages' = offStages \ {s}
    BY <1>3 DEF EnableStage
  <2>3. mode' = mode
    BY <1>3 DEF EnableStage
  <2> QED
    BY <2>1, <2>2, <2>3
<1>4. CASE EnabledAll
  BY <1>4 DEF EnabledAll
<1>5. ASSUME MainContinues \/ MainCalls, ~DisableStage, ~EnableStage, ~EnabledAll
      PROVE  StagesInv'
  <2>1. /\ UNCHANGED <<enabled, offStages>>
        /\ mode' # "none" \/ mode' = mode
    BY <1>5 DEF MainContinues, MainCalls, OpenThread, DisabledThread,
         RequestPause, PauseNotify, PauseAcknowledged, ResumeThread, ResumeNotify,
         ResumedAll, LockForFlush, FlushPops, FlushPushes,
         FlushNextStage, EndFlush, RequestStop, CloseNotify, JoinThread, TeardownPops,
         TeardownPushes, TeardownNextStage, MainPops, MainPushes, SubmitItem,
         ScopedDisableAll, ReleaseDisabler, BeginFlush, BeginTeardown, mainVars
  <2> QED
    BY <2>1
<1>6. CASE PostTask \/ RunTasks \/ Finished \/ UNCHANGED vars
  BY <1>6, TaskFrame DEF Finished, vars, mainVars
<1> QED
  BY <1>1, <1>2, <1>3, <1>4, <1>5, <1>6 DEF Next

LEMMA ThreadsStep ==
    ASSUME TypeOK, MainCursor, ModeInv, ThreadsInv, [Next]_vars
    PROVE  ThreadsInv'
<1> USE DEF ThreadsInv, Frozen, Held
<1>1. NumThreads \in Nat /\ mt \in Int /\ \A t \in Thread : t \in Int /\ 1 <= t /\ t <= NumThreads
  BY PipelineAssumption DEF Thread, TypeOK, MainTypeOK
<1>2. \A t \in Thread : paused[t] \in BOOLEAN /\ acked[t] \in BOOLEAN
  BY DEF TypeOK, PauseTypeOK
<1>3. ASSUME NEW t \in Thread, ThreadStep(t) \/ Unpark(t) PROVE ThreadsInv'
  <2>1. \A r \in Thread : acked[r] => acked'[r]
    BY <1>3 DEF ThreadStep, LeaveLoop, Park, EnterRun, BeginRun, SkipDisabled, CallStage,
         StageSleeps, StagePops, StagePushes, YieldToEval, KeepPolling, EndRound,
         ReturnFromRun, WakeFromNap, Unpark, pauseVars, TypeOK, PauseTypeOK
  <2>2. UNCHANGED <<paused, mainVars>>
    BY <1>3, ThreadFrame
  <2> QED
    BY <2>1, <2>2 DEF mainVars
<1>4. CASE DisabledThread
  BY <1>1, <1>4 DEF DisabledThread, pauseVars
<1>5. CASE RequestPause
  BY <1>1, <1>2, <1>5 DEF RequestPause, TypeOK, PauseTypeOK, ModeInv
<1>6. CASE PauseNotify
  BY <1>6 DEF PauseNotify
<1>7. CASE PauseAcknowledged
  <2>1. mode = "hard" /\ mt \in Thread
    BY <1>7 DEF PauseAcknowledged, ModeInv, MainCursor
  <2> QED
    BY <1>1, <1>7, <2>1 DEF PauseAcknowledged, pauseVars
<1>8. CASE ReleaseDisabler
  BY <1>1, <1>8 DEF ReleaseDisabler, pauseVars
<1>9. CASE ResumeThread
  <2>1. mt \in offThreads /\ mt \in Thread /\ mode = "hard"
    BY <1>9 DEF ResumeThread, TypeOK, MainTypeOK
  <2> QED
    BY <1>1, <1>9, <2>1 DEF ResumeThread, TypeOK, PauseTypeOK
<1>10. CASE ResumeNotify
  BY <1>1, <1>10 DEF ResumeNotify
<1>11. CASE ResumedAll
  <2>1. mt \notin Thread => \A t \in Thread : t < mt
    BY PipelineAssumption DEF Thread, TypeOK, MainTypeOK
  <2>2. \A t \in Thread : ~paused[t]
    BY <1>11, <2>1 DEF ResumedAll
  <2> QED
    BY <1>11, <2>2 DEF ResumedAll, pauseVars
<1>12. CASE EnabledAll
  BY <1>12 DEF EnabledAll, pauseVars
<1>13. CASE BeginFlush \/ LockForFlush \/ FlushPops \/ FlushPushes \/ FlushNextStage
          \/ EndFlush
  <2>1. /\ UNCHANGED <<paused, acked, mode, offThreads>>
        /\ Frozen' => Frozen
        /\ mpc' \in FlushPcs \cup {"idle", "frozen"}
        /\ mpc \in FlushPcs \cup {"idle", "frozen"}
    <3>1. CASE BeginFlush
      BY <3>1 DEF BeginFlush, pauseVars, FlushPcs, ActivePcs, ModeInv
    <3>2. CASE LockForFlush
      BY <3>2 DEF LockForFlush, pauseVars, FlushPcs
    <3>3. CASE FlushPops \/ FlushPushes
      BY <3>3 DEF FlushPops, FlushPushes, MainPops, MainPushes, pauseVars, FlushPcs
    <3>4. CASE FlushNextStage
      BY <3>4 DEF FlushNextStage, pauseVars, FlushPcs
    <3>5. CASE EndFlush
      BY <3>5 DEF EndFlush, pauseVars, FlushPcs
    <3> QED
      BY <1>13, <3>1, <3>2, <3>3, <3>4, <3>5
  <2>2. Frozen' => \A t \in Thread : Held(t)' /\ t \in offThreads'
    BY <2>1
  <2> HIDE DEF Frozen
  <2> QED
    BY <2>1, <2>2 DEF FlushPcs
<1>14. CASE RequestStop
  BY <1>14 DEF RequestStop, ModeInv, ActivePcs, FlushPcs, TypeOK, PauseTypeOK
<1>15. ASSUME NEW m \in {"soft", "hard"}, ScopedDisableAll(m) PROVE ThreadsInv'
  BY <1>15 DEF ScopedDisableAll, pauseVars
<1>16. CASE OpenThread \/ CloseNotify \/ JoinThread \/ TeardownPops \/ TeardownPushes
          \/ TeardownNextStage \/ BeginTeardown
  BY <1>16 DEF OpenThread, CloseNotify, JoinThread, TeardownPops, TeardownPushes,
       TeardownNextStage, BeginTeardown, MainPops, MainPushes, pauseVars
<1>17. CASE DisableStage \/ EnableStage \/ SubmitItem
  BY <1>17 DEF DisableStage, EnableStage, SubmitItem, mainVars, pauseVars
<1>18. CASE PostTask \/ RunTasks \/ Finished \/ UNCHANGED vars
  BY <1>18, TaskFrame DEF Finished, vars, mainVars, pauseVars
<1> QED
  BY <1>3, <1>4, <1>5, <1>6, <1>7, <1>8, <1>9, <1>10, <1>11, <1>12, <1>13, <1>14,
     <1>15, <1>16, <1>17, <1>18 DEF Next, MainContinues, MainCalls

--------------------------------------------------------------------------------
(***************************************************************************)
(* The invariant and the theorems.                                         *)
(***************************************************************************)
LEMMA InitInv == Init => IInv
<1> SUFFICES ASSUME Init PROVE IInv
  OBVIOUS
<1> USE DEF Init
<1>1. TypeOK
  <2>1. 0 \in 0..MaxItems /\ 0 \in 0..MaxEvals /\ 0 \in 0..MaxDisables
    BY PipelineAssumption
  <2>2. <<>> \in Seq(Item)
    OBVIOUS
  <2> QED
    BY <2>1, <2>2, Cursors DEF TypeOK, DataTypeOK, RunTypeOK, PauseTypeOK, DbTypeOK,
         MainTypeOK, ThreadPcs, MainPcs
<1>2. CursorInv
  BY DEF CursorInv, ThreadCursor, MainCursor, OpenInv
<1>3. HandshakeInv
  BY DEF HandshakeInv, PauseInv, StopInv
<1>4. DisablerInv
  BY DEF DisablerInv, ModeInv, StagesInv, ThreadsInv, Frozen, ActivePcs
<1> QED
  BY <1>1, <1>2, <1>3, <1>4 DEF IInv

LEMMA StepInv == IInv /\ [Next]_vars => IInv'
  BY TypeStep, CursorStep, PauseStep, StopStep, ModeStep, StagesStep, ThreadsStep
     DEF IInv, CursorInv, HandshakeInv, DisablerInv

LEMMA Inductive == Spec => []IInv
  BY InitInv, StepInv, PTL DEF Spec

\* Every variable keeps its type in every run of the pipeline and its main thread.
THEOREM TypeCorrect == Spec => []TypeOK
<1>1. IInv => TypeOK
  BY DEF IInv
<1> QED
  BY <1>1, Inductive, PTL

\* PipelineManager::scopedDisableAll(true) freezes the pipeline: until its disabler is
\* released every polling thread stays outside run_ (parked, or about to park), with
\* no item in hand -- for every number of threads and stages, and although the
\* acknowledgement and the threads' own flags are read at different times.
THEOREM FrozenIsStill == Spec => []FrozenStill
<1>1. IInv => FrozenStill
  <2> SUFFICES ASSUME IInv, Frozen, NEW t \in Thread
               PROVE  pc[t] \in {"parked", "top"} /\ paused[t] /\ tHeld[t] = <<>>
    BY DEF FrozenStill
  <2>1. paused[t] /\ acked[t]
    BY DEF IInv, DisablerInv, ThreadsInv, Held
  <2>2. ~ackPending[t] /\ pc[t] \in {"parked", "top"}
    BY <2>1 DEF IInv, HandshakeInv, PauseInv
  <2>3. tHeld[t] = <<>>
    BY <2>2 DEF IInv, CursorInv, ThreadCursor
  <2> QED
    BY <2>1, <2>2, <2>3
<1> QED
  BY <1>1, Inductive, PTL

\* A ScopedRunnableDisabler that is gone leaves nothing off: every stage it disabled is
\* enabled again and every thread it paused resumed.
THEOREM DisablerRestoresAll == Spec => []DisablerRestores
<1>1. IInv => DisablerRestores
  BY DEF IInv, DisablerInv, StagesInv, ThreadsInv, DisablerRestores, TypeOK
<1> QED
  BY <1>1, Inductive, PTL
================================================================================
