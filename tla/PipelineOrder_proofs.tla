-------------------------- MODULE PipelineOrder_proofs --------------------------
(***************************************************************************)
(* Where the items of a pipeline are, for every number of stages, threads  *)
(* and items.                                                              *)
(*                                                                         *)
(* How many items are where is known whatever the application does: none   *)
(* is lost or duplicated, a flush under a hard disabler and a teardown     *)
(* leave none behind, also after flushes beside running threads.           *)
(*                                                                         *)
(* Their order, and with it PipelinePromise, holds for an application that *)
(* flushes under a hard disabler only (FlushUnfrozen = FALSE): beside      *)
(* running threads a flush may overtake the item a thread has in hand.     *)
(***************************************************************************)
EXTENDS PipelineThreads_proofs, SequenceTheorems

--------------------------------------------------------------------------------
(***************************************************************************)
(* Runs of consecutive items.                                              *)
(***************************************************************************)
\* The items after i up to j.
Run(i, j) == [k \in 1..(j - i) |-> i + k]

\* It has j - i items.
LEMMA RunIsSeq ==
    ASSUME NEW i \in Nat, NEW j \in Nat, i <= j
    PROVE  /\ Run(i, j) \in Seq(Nat)
           /\ Len(Run(i, j)) = j - i
           /\ Run(i, j) = <<>> <=> i = j
<1>1. j - i \in Nat
  OBVIOUS
<1>2. Run(i, j) \in [1..(j - i) -> Nat]
  BY DEF Run
<1>3. Run(i, j) \in Seq(Nat) /\ Len(Run(i, j)) = j - i
  BY <1>1, <1>2
<1>4. Len(Run(i, j)) = 0 <=> i = j
  BY <1>3
<1> QED
  BY <1>3, <1>4

LEMMA RunEmpty ==
    ASSUME NEW i \in Nat
    PROVE  Run(i, i) = <<>>
<1>1. i <= i
  OBVIOUS
<1> QED
  BY <1>1, RunIsSeq

\* Adjacent runs join.
LEMMA RunConcat ==
    ASSUME NEW i \in Nat, NEW j \in Nat, NEW k \in Nat, i <= j, j <= k
    PROVE  Run(i, j) \o Run(j, k) = Run(i, k)
<1> DEFINE l == Run(i, j)
           r == Run(j, k)
           c == l \o r
<1>1. l \in Seq(Nat) /\ Len(l) = j - i /\ r \in Seq(Nat) /\ Len(r) = k - j
  BY RunIsSeq
<1>2. Run(i, k) \in Seq(Nat) /\ Len(Run(i, k)) = k - i
  BY RunIsSeq
<1>3. /\ \A n \in 1..(j - i) : l[n] = i + n
      /\ \A n \in 1..(k - j) : r[n] = j + n
      /\ \A n \in 1..(k - i) : Run(i, k)[n] = i + n
  BY DEF Run
<1> HIDE DEF l, r
<1>4. /\ c \in Seq(Nat) /\ Len(c) = Len(l) + Len(r)
      /\ \A n \in 1..(Len(l) + Len(r)) : c[n] = IF n <= Len(l) THEN l[n] ELSE r[n - Len(l)]
  BY <1>1, ConcatProperties
<1> HIDE DEF c
<1>5. ASSUME NEW n \in 1..(k - i) PROVE c[n] = i + n
  <2>1. CASE n <= j - i
    BY <1>1, <1>3, <1>4, <2>1
  <2>2. CASE n > j - i
    <3>1. n - (j - i) \in 1..(k - j)
      BY <2>2
    <3>2. c[n] = r[n - (j - i)] /\ r[n - (j - i)] = j + (n - (j - i))
      BY <1>1, <1>3, <1>4, <2>2, <3>1
    <3> QED
      BY <3>2
  <2> QED
    BY <2>1, <2>2
<1>6. c = Run(i, k)
  BY <1>1, <1>2, <1>3, <1>4, <1>5, SeqEqual
<1> QED
  BY <1>6 DEF c, l, r

\* Popping the head of a run leaves the rest of it.
LEMMA RunPop ==
    ASSUME NEW i \in Nat, NEW j \in Nat, i < j
    PROVE  /\ <<Head(Run(i, j))>> = Run(i, i + 1)
           /\ Tail(Run(i, j)) = Run(i + 1, j)
<1> DEFINE r == Run(i, j)
<1>1. r \in Seq(Nat) /\ Len(r) = j - i /\ r # <<>>
  BY RunIsSeq
<1>2. /\ \A n \in 1..(j - i) : r[n] = i + n
      /\ \A n \in 1..(j - (i + 1)) : Run(i + 1, j)[n] = i + 1 + n
  BY DEF Run
<1>3. Run(i, i + 1) = [n \in 1..1 |-> i + n]
  BY DEF Run
<1>4. Run(i + 1, j) \in Seq(Nat) /\ Len(Run(i + 1, j)) = j - (i + 1)
  BY RunIsSeq
<1> HIDE DEF r
<1>5. <<Head(r)>> = <<i + 1>>
  BY <1>1, <1>2
<1>6. /\ Tail(r) \in Seq(Nat) /\ Len(Tail(r)) = Len(r) - 1
      /\ \A n \in 1..Len(Tail(r)) : Tail(r)[n] = r[n + 1]
  BY <1>1, HeadTailProperties
<1> DEFINE u == Tail(r)
           v == Run(i + 1, j)
<1>7. ASSUME NEW n \in 1..Len(u) PROVE u[n] = v[n]
  <2>1. n + 1 \in 1..(j - i) /\ n \in 1..(j - (i + 1))
    BY <1>1, <1>6
  <2> QED
    BY <1>2, <1>6, <2>1
<1>8. u \in Seq(Nat) /\ v \in Seq(Nat) /\ Len(u) = Len(v)
  BY <1>1, <1>4, <1>6
<1> HIDE DEF u, v
<1>9. u = v
  BY <1>7, <1>8, SeqEqual
<1> QED
  BY <1>3, <1>5, <1>9 DEF r, u, v

\* Appending the next item makes a run one longer.
LEMMA RunAppend ==
    ASSUME NEW i \in Nat, NEW j \in Nat, i <= j
    PROVE  Append(Run(i, j), j + 1) = Run(i, j + 1)
<1> DEFINE l == Run(i, j)
           c == Append(l, j + 1)
<1>1. l \in Seq(Nat) /\ Len(l) = j - i
  BY RunIsSeq
<1>2. Run(i, j + 1) \in Seq(Nat) /\ Len(Run(i, j + 1)) = j + 1 - i
  BY RunIsSeq
<1>3. /\ \A n \in 1..(j - i) : l[n] = i + n
      /\ \A n \in 1..(j + 1 - i) : Run(i, j + 1)[n] = i + n
  BY DEF Run
<1> HIDE DEF l
<1>4. /\ c \in Seq(Nat) /\ Len(c) = Len(l) + 1
      /\ \A n \in 1..Len(l) : c[n] = l[n]
      /\ c[Len(l) + 1] = j + 1
  BY <1>1, AppendProperties
<1> HIDE DEF c
<1>5. ASSUME NEW n \in 1..(j + 1 - i) PROVE c[n] = i + n
  <2>1. CASE n <= j - i
    BY <1>1, <1>3, <1>4, <2>1
  <2>2. CASE n = j + 1 - i
    BY <1>1, <1>4, <2>2
  <2> QED
    BY <2>1, <2>2
<1>6. c = Run(i, j + 1)
  BY <1>1, <1>2, <1>3, <1>4, <1>5, SeqEqual
<1> QED
  BY <1>6 DEF c, l

--------------------------------------------------------------------------------
(***************************************************************************)
(* Where the items are.                                                    *)
(***************************************************************************)
Positions == [0..NumStages -> Nat]

\* Queue s holds the items after o[s] up to a[s], and stage s has those between its
\* output and its input queue in hand: the table starts the chain, the pipeline head
\* ends it.
Ordered(a, o) ==
    /\ \A s \in 0..NumStages : o[s] <= a[s] /\ queue[s] = Run(o[s], a[s])
    /\ \A s \in Stage : a[s] <= o[s - 1] /\ InHand(s) = Run(a[s], o[s - 1])
    /\ a[0] = sent
    /\ o[NumStages] = 0

OrderInv == \E a \in Positions, o \in Positions : Ordered(a, o)

\* The numbers of stages and queues.
LEMMA QueueNumbers ==
    /\ NumStages \in Nat \ {0}
    /\ 0 \in 0..NumStages /\ NumStages \in 0..NumStages /\ NumStages \in Stage
    /\ \A s \in Stage : s \in 0..NumStages /\ s - 1 \in 0..NumStages /\ s # s - 1
                        /\ s \in Nat /\ s # 0
    /\ \A s \in 0..NumStages : s \in Nat /\ (s # 0 => s \in Stage)
  BY PipelineAssumption DEF Stage

\* A step that moves no item.
LEMMA FrameOrder ==
    ASSUME OrderInv, UNCHANGED <<sent, queue>>,
           \A s \in Stage : InHand(s)' = InHand(s)
    PROVE  OrderInv'
<1>1. PICK a \in Positions, o \in Positions : Ordered(a, o)
  BY DEF OrderInv
<1>2. Ordered(a, o)'
  BY <1>1 DEF Ordered
<1> QED
  BY <1>2 DEF OrderInv, Positions

\* Whoever runs stage s pops an item with nothing in hand.
LEMMA PopOrder ==
    ASSUME OrderInv, NEW s \in Stage, DataTypeOK,
           queue[s - 1] # <<>>, InHand(s) = <<>>,
           queue' = [queue EXCEPT ![s - 1] = Tail(@)],
           InHand(s)' = <<Head(queue[s - 1])>>,
           \A r \in Stage : r # s => InHand(r)' = InHand(r),
           sent' = sent
    PROVE  OrderInv'
<1>1. PICK a \in Positions, o \in Positions : Ordered(a, o)
  BY DEF OrderInv
<1> DEFINE b == [o EXCEPT ![s - 1] = @ + 1]
<1>2. s \in 0..NumStages /\ s - 1 \in 0..NumStages /\ s - 1 # NumStages
  BY PipelineAssumption DEF Stage
<1>3. /\ \A r \in 0..NumStages : a[r] \in Nat /\ o[r] \in Nat
      /\ b \in Positions
      /\ b[s - 1] = o[s - 1] + 1
      /\ \A r \in 0..NumStages : r # s - 1 => b[r] = o[r]
  BY <1>2 DEF Positions
<1> HIDE DEF b
<1>4. /\ queue[s - 1] = Run(o[s - 1], a[s - 1]) /\ o[s - 1] <= a[s - 1]
      /\ InHand(s) = Run(a[s], o[s - 1]) /\ a[s] <= o[s - 1]
  BY <1>1, <1>2 DEF Ordered
<1>5. o[s - 1] < a[s - 1] /\ a[s] = o[s - 1]
  <2>1. a[s] \in Nat /\ o[s - 1] \in Nat /\ a[s - 1] \in Nat
    BY <1>2, <1>3
  <2>2. Run(o[s - 1], a[s - 1]) = <<>> <=> o[s - 1] = a[s - 1]
    BY <1>4, <2>1, RunIsSeq
  <2>3. Run(a[s], o[s - 1]) = <<>> <=> a[s] = o[s - 1]
    BY <1>4, <2>1, RunIsSeq
  <2> QED
    BY <1>4, <2>1, <2>2, <2>3
<1>6. /\ <<Head(queue[s - 1])>> = Run(o[s - 1], o[s - 1] + 1)
      /\ Tail(queue[s - 1]) = Run(o[s - 1] + 1, a[s - 1])
  BY <1>2, <1>3, <1>4, <1>5, RunPop
<1>7. /\ queue'[s - 1] = Run(b[s - 1], a[s - 1])
      /\ \A r \in 0..NumStages : r # s - 1 => queue'[r] = queue[r]
  BY <1>2, <1>3, <1>6 DEF DataTypeOK
<1>8. ASSUME NEW r \in 0..NumStages PROVE b[r] <= a[r] /\ queue'[r] = Run(b[r], a[r])
  <2>1. CASE r = s - 1
    BY <1>2, <1>3, <1>5, <1>7, <2>1
  <2>2. CASE r # s - 1
    BY <1>1, <1>3, <1>7, <2>2 DEF Ordered
  <2> QED
    BY <2>1, <2>2
<1>9. ASSUME NEW r \in Stage PROVE a[r] <= b[r - 1] /\ InHand(r)' = Run(a[r], b[r - 1])
  <2>1. CASE r = s
    BY <1>2, <1>3, <1>5, <1>6, <2>1
  <2>2. CASE r # s
    <3>1. r - 1 # s - 1 /\ r - 1 \in 0..NumStages
      BY <2>2, PipelineAssumption DEF Stage
    <3> QED
      BY <1>1, <1>3, <2>2, <3>1 DEF Ordered
  <2> QED
    BY <2>1, <2>2
<1>10. a[0] = sent' /\ b[NumStages] = 0
  BY <1>1, <1>2, <1>3, QueueNumbers DEF Ordered
<1>11. Ordered(a, b)'
  BY <1>8, <1>9, <1>10 DEF Ordered
<1> QED
  BY <1>3, <1>11 DEF OrderInv, Positions

\* It pushes what it has in hand.
LEMMA PushOrder ==
    ASSUME OrderInv, NEW s \in Stage, DataTypeOK,
           queue' = [queue EXCEPT ![s] = @ \o InHand(s)],
           InHand(s)' = <<>>,
           \A r \in Stage : r # s => InHand(r)' = InHand(r),
           sent' = sent
    PROVE  OrderInv'
<1>1. PICK a \in Positions, o \in Positions : Ordered(a, o)
  BY DEF OrderInv
<1> DEFINE b == [a EXCEPT ![s] = o[s - 1]]
<1>2. s \in 0..NumStages /\ s - 1 \in 0..NumStages /\ s # 0
  BY PipelineAssumption DEF Stage
<1>3. /\ \A r \in 0..NumStages : a[r] \in Nat /\ o[r] \in Nat
      /\ b \in Positions
      /\ b[s] = o[s - 1]
      /\ \A r \in 0..NumStages : r # s => b[r] = a[r]
  BY <1>2 DEF Positions
<1> HIDE DEF b
<1>4. /\ queue[s] = Run(o[s], a[s]) /\ o[s] <= a[s]
      /\ InHand(s) = Run(a[s], o[s - 1]) /\ a[s] <= o[s - 1]
  BY <1>1, <1>2 DEF Ordered
<1>5. queue[s] \o InHand(s) = Run(o[s], b[s])
  BY <1>2, <1>3, <1>4, RunConcat
<1>6. o[s] <= b[s]
  BY <1>2, <1>3, <1>4
<1>7. /\ queue'[s] = Run(o[s], b[s])
      /\ \A r \in 0..NumStages : r # s => queue'[r] = queue[r]
  BY <1>2, <1>5 DEF DataTypeOK
<1>8. ASSUME NEW r \in 0..NumStages PROVE o[r] <= b[r] /\ queue'[r] = Run(o[r], b[r])
  <2>1. CASE r = s
    BY <1>6, <1>7, <2>1
  <2>2. CASE r # s
    BY <1>1, <1>3, <1>7, <2>2 DEF Ordered
  <2> QED
    BY <2>1, <2>2
<1>9. ASSUME NEW r \in Stage PROVE b[r] <= o[r - 1] /\ InHand(r)' = Run(b[r], o[r - 1])
  <2>1. CASE r = s
    <3>1. Run(b[s], o[s - 1]) = <<>>
      <4>1. o[s - 1] \in Nat /\ b[s] = o[s - 1]
        BY <1>2, <1>3
      <4>2. Run(o[s - 1], o[s - 1]) = <<>>
        BY <4>1, RunEmpty
      <4> QED
        BY <4>1, <4>2
    <3> QED
      BY <1>2, <1>3, <2>1, <3>1
  <2>2. CASE r # s
    BY <1>1, <1>3, <2>2, QueueNumbers DEF Ordered
  <2> QED
    BY <2>1, <2>2
<1>10. b[0] = sent' /\ o[NumStages] = 0
  BY <1>1, <1>2, <1>3, QueueNumbers DEF Ordered
<1>11. Ordered(b, o)'
  BY <1>8, <1>9, <1>10 DEF Ordered
<1> QED
  BY <1>3, <1>11 DEF OrderInv, Positions

\* The application submits the next item.
LEMMA SubmitOrder ==
    ASSUME OrderInv, DataTypeOK, SubmitItem,
           \A s \in Stage : InHand(s)' = InHand(s)
    PROVE  OrderInv'
<1>1. PICK a \in Positions, o \in Positions : Ordered(a, o)
  BY DEF OrderInv
<1> DEFINE b == [a EXCEPT ![0] = @ + 1]
<1>2. /\ \A r \in 0..NumStages : a[r] \in Nat /\ o[r] \in Nat
      /\ b \in Positions
      /\ b[0] = a[0] + 1
      /\ \A r \in 0..NumStages : r # 0 => b[r] = a[r]
  BY QueueNumbers DEF Positions
<1> HIDE DEF b
<1>3. queue[0] = Run(o[0], a[0]) /\ o[0] <= a[0] /\ a[0] = sent
  BY <1>1, QueueNumbers DEF Ordered
<1>4. Append(queue[0], sent + 1) = Run(o[0], b[0])
  BY <1>2, <1>3, RunAppend, QueueNumbers
<1>5. /\ queue'[0] = Run(o[0], b[0])
      /\ \A r \in 0..NumStages : r # 0 => queue'[r] = queue[r]
      /\ sent' = b[0]
  BY <1>2, <1>3, <1>4, QueueNumbers DEF SubmitItem, DataTypeOK
<1>6. ASSUME NEW r \in 0..NumStages PROVE o[r] <= b[r] /\ queue'[r] = Run(o[r], b[r])
  <2>1. CASE r = 0
    BY <1>2, <1>3, <1>5, <2>1, QueueNumbers
  <2>2. CASE r # 0
    BY <1>1, <1>2, <1>5, <2>2 DEF Ordered
  <2> QED
    BY <2>1, <2>2
<1>7. ASSUME NEW r \in Stage PROVE b[r] <= o[r - 1] /\ InHand(r)' = Run(b[r], o[r - 1])
  BY <1>1, <1>2, QueueNumbers DEF Ordered
<1>8. b[0] = sent' /\ o[NumStages] = 0
  BY <1>1, <1>5 DEF Ordered
<1>9. Ordered(b, o)'
  BY <1>6, <1>7, <1>8 DEF Ordered
<1> QED
  BY <1>2, <1>9 DEF OrderInv, Positions

--------------------------------------------------------------------------------
(***************************************************************************)
(* Who may have an item in hand.                                           *)
(***************************************************************************)
\* A thread calls its own stages.
OwnCursor == \A t \in Thread : pc[t] \in {"call", "push"} => ThreadOf[cur[t]] = t

\* The main thread holds an item only between the two halves of a stage it runs.
MainHandInv == mHeld # <<>> => mpc \in {"flushPush", "teardownPush"}

\* The application flushes under a hard disabler only.
FlushMode == mpc \in FlushPcs => mode = "hard"

Joined(t) == pc[t] = "exited" /\ ~running[t]

\* The threads are joined in order, and teardown flushes after the last one.
JoinInv ==
    /\ mpc \in {"closing", "closeNotify", "joining"} =>
         \A t \in Thread : t < mt => Joined(t)
    /\ mpc \in {"teardown", "teardownPush", "closed"} => \A t \in Thread : Joined(t)

HandsInv == OwnCursor /\ MainHandInv /\ JoinInv

\* The main thread runs the stages itself, or says that all is written, and nobody else
\* does.
MainRuns ==
    \/ mode = "hard" /\ mpc \in {"flush", "flushPush", "flushed"}
    \/ mpc \in {"teardown", "teardownPush", "closed"}

\* There no polling thread is inside a stage.
LEMMA MainAlone ==
    ASSUME IInv, HandsInv, MainRuns, NEW t \in Thread
    PROVE  tHeld[t] = <<>> /\ pc[t] \notin {"call", "push"}
<1>1. tHeld[t] # <<>> => pc[t] = "push"
  BY DEF IInv, CursorInv, ThreadCursor
<1>2. CASE mode = "hard" /\ mpc \in {"flush", "flushPush", "flushed"}
  <2>1. Frozen
    BY <1>2 DEF Frozen
  <2>2. paused[t] /\ acked[t]
    BY <2>1 DEF IInv, DisablerInv, ThreadsInv, Held
  <2>3. ~ackPending[t] /\ pc[t] \in {"parked", "top"}
    BY <2>2 DEF IInv, HandshakeInv, PauseInv
  <2> QED
    BY <1>1, <2>3
<1>3. CASE mpc \in {"teardown", "teardownPush", "closed"}
  BY <1>1, <1>3 DEF HandsInv, JoinInv, Joined
<1> QED
  BY <1>2, <1>3 DEF MainRuns

LEMMA OwnCursorStep ==
    ASSUME TypeOK, OpenInv, OwnCursor, [Next]_vars
    PROVE  OwnCursor'
<1> USE DEF OwnCursor, TypeOK, RunTypeOK
<1>1. ASSUME NEW t \in Thread, CallStage(t) PROVE OwnCursor'
  <2>1. ThreadOf[NextStage(t, cur[t])] = t /\ NextStage(t, cur[t]) \in 0..NumStages
    BY <1>1, NextStageType DEF CallStage
  <2> QED
    BY <1>1, <2>1 DEF CallStage, Goto
<1>2. ASSUME NEW t \in Thread, ThreadStep(t) \/ Unpark(t), ~CallStage(t)
      PROVE  OwnCursor'
  <2>1. /\ \A r \in Thread : r # t => pc'[r] = pc[r] /\ cur'[r] = cur[r]
        /\ pc'[t] \in {"call", "push"} => pc[t] = "call" /\ cur'[t] = cur[t]
    BY <1>2 DEF ThreadStep, LeaveLoop, Park, EnterRun, BeginRun, SkipDisabled,
         StageSleeps, StagePops, StagePushes, YieldToEval, KeepPolling, EndRound,
         ReturnFromRun, WakeFromNap, Unpark, Goto, ResetRun, AfterCall, AfterRun
  <2> QED
    BY <2>1
<1>3. CASE OpenThread
  BY <1>3 DEF OpenThread
<1>4. ASSUME MainContinues \/ MainCalls, ~OpenThread PROVE OwnCursor'
  BY <1>4, MainFrame, MainKeepsPc
<1>5. CASE PostTask \/ RunTasks \/ Finished \/ UNCHANGED vars
  BY <1>5, TaskFrame DEF Finished, vars, runVars
<1> QED
  BY <1>1, <1>2, <1>3, <1>4, <1>5 DEF Next

LEMMA MainHandStep ==
    ASSUME MainHandInv, [Next]_vars
    PROVE  MainHandInv'
<1> USE DEF MainHandInv
<1>1. ASSUME NEW t \in Thread, ThreadStep(t) \/ Unpark(t) PROVE MainHandInv'
  BY <1>1, ThreadFrame DEF mainVars
<1>2. CASE FlushPops \/ FlushPushes \/ TeardownPops \/ TeardownPushes
  BY <1>2 DEF FlushPops, FlushPushes, TeardownPops, TeardownPushes, MainPops, MainPushes
<1>3. ASSUME MainContinues \/ MainCalls, ~FlushPops, ~FlushPushes, ~TeardownPops,
             ~TeardownPushes
      PROVE  MainHandInv'
  <2>1. mHeld' = mHeld /\ mpc \notin {"flushPush", "teardownPush"}
    BY <1>3 DEF MainContinues, MainCalls, OpenThread, DisableStage, DisabledThread,
         RequestPause, PauseNotify, PauseAcknowledged, ResumeThread, ResumeNotify,
         ResumedAll, EnableStage, EnabledAll, LockForFlush, FlushNextStage, EndFlush,
         RequestStop, CloseNotify, JoinThread, TeardownNextStage, SubmitItem,
         ScopedDisableAll, ReleaseDisabler, BeginFlush, BeginTeardown, dataVars
  <2> QED
    BY <2>1
<1>4. CASE PostTask \/ RunTasks \/ Finished \/ UNCHANGED vars
  BY <1>4, TaskFrame DEF Finished, vars, dataVars, mainVars
<1> QED
  BY <1>1, <1>2, <1>3, <1>4 DEF Next

LEMMA FlushModeStep ==
    ASSUME ~FlushUnfrozen, FlushMode, [Next]_vars
    PROVE  FlushMode'
<1> USE DEF FlushMode, FlushPcs
<1>1. ASSUME NEW t \in Thread, ThreadStep(t) \/ Unpark(t) PROVE FlushMode'
  BY <1>1, ThreadFrame DEF mainVars
<1>2. CASE BeginFlush
  BY <1>2 DEF BeginFlush
<1>3. CASE LockForFlush \/ FlushPops \/ FlushPushes \/ FlushNextStage \/ EndFlush
  <2>1. mpc \in FlushPcs /\ mode' = mode
    BY <1>3 DEF LockForFlush, FlushPops, FlushPushes, FlushNextStage, EndFlush, MainPops,
         MainPushes
  <2> QED
    BY <2>1
<1>4. ASSUME MainContinues \/ MainCalls, ~BeginFlush, ~LockForFlush, ~FlushPops,
             ~FlushPushes, ~FlushNextStage, ~EndFlush
      PROVE  FlushMode'
  <2>1. \/ mpc' \notin FlushPcs
        \/ mpc' = mpc /\ mode' = mode
    BY <1>4 DEF MainContinues, MainCalls, OpenThread, DisableStage, DisabledThread,
         RequestPause, PauseNotify, PauseAcknowledged, ResumeThread, ResumeNotify,
         ResumedAll, EnableStage, EnabledAll, RequestStop, CloseNotify, JoinThread,
         TeardownPops, TeardownPushes, TeardownNextStage, MainPops, MainPushes,
         SubmitItem, ScopedDisableAll, ReleaseDisabler, BeginTeardown, mainVars
  <2> QED
    BY <2>1
<1>5. CASE PostTask \/ RunTasks \/ Finished \/ UNCHANGED vars
  BY <1>5, TaskFrame DEF Finished, vars, mainVars
<1> QED
  BY <1>1, <1>2, <1>3, <1>4, <1>5 DEF Next

LEMMA JoinStep ==
    ASSUME TypeOK, MainCursor, JoinInv, [Next]_vars
    PROVE  JoinInv'
<1> USE DEF JoinInv, Joined
<1>1. ASSUME NEW t \in Thread, ThreadStep(t) \/ Unpark(t) PROVE JoinInv'
  <2>1. /\ pc[t] # "exited"
        /\ \A r \in Thread : r # t => pc'[r] = pc[r]
    BY <1>1 DEF ThreadStep, LeaveLoop, Park, EnterRun, BeginRun, SkipDisabled, CallStage,
         StageSleeps, StagePops, StagePushes, YieldToEval, KeepPolling, EndRound,
         ReturnFromRun, WakeFromNap, Unpark, Goto, TypeOK, RunTypeOK
  <2> QED
    BY <1>1, <2>1, ThreadFrame DEF mainVars
<1>2. CASE JoinThread
  <2>1. /\ \A t \in Thread : t < mt => Joined(t)
        /\ mt \in Thread /\ pc[mt] = "exited" /\ pc' = pc
        /\ running' = [running EXCEPT ![mt] = FALSE]
    BY <1>2 DEF JoinThread, MainCursor, runVars
  <2>2. \A t \in Thread : t <= mt => Joined(t)'
    BY <2>1 DEF TypeOK, PauseTypeOK, Thread
  <2>3. CASE mt = NumThreads
    BY <1>2, <2>2, <2>3 DEF JoinThread, Thread
  <2>4. CASE mt # NumThreads
    BY <1>2, <2>1, <2>2, <2>4 DEF JoinThread, Thread
  <2> QED
    BY <2>3, <2>4
<1>3. CASE BeginTeardown
  BY <1>3 DEF BeginTeardown, Thread
<1>4. CASE TeardownPops \/ TeardownPushes \/ TeardownNextStage \/ RequestStop \/ CloseNotify
  <2>1. UNCHANGED <<pc, running>>
    BY <1>4 DEF TeardownPops, TeardownPushes, TeardownNextStage, MainPops, MainPushes,
         RequestStop, CloseNotify, runVars, pauseVars
  <2>2. CASE RequestStop \/ CloseNotify
    BY <2>1, <2>2 DEF RequestStop, CloseNotify
  <2>3. CASE TeardownPops \/ TeardownPushes
    BY <2>1, <2>3 DEF TeardownPops, TeardownPushes, MainPops, MainPushes
  <2>4. CASE TeardownNextStage
    BY <2>1, <2>4 DEF TeardownNextStage
  <2> QED
    BY <1>4, <2>2, <2>3, <2>4
<1>5. ASSUME MainContinues \/ MainCalls, ~JoinThread, ~BeginTeardown, ~TeardownPops,
             ~TeardownPushes, ~TeardownNextStage, ~RequestStop, ~CloseNotify
      PROVE  JoinInv'
  <2>1. mpc' \notin ClosePcs
    BY <1>5 DEF MainContinues, MainCalls, OpenThread, DisableStage, DisabledThread,
         RequestPause, PauseNotify, PauseAcknowledged, ResumeThread, ResumeNotify,
         ResumedAll, EnableStage, EnabledAll, LockForFlush, FlushPops, FlushPushes,
         FlushNextStage, EndFlush, MainPops, MainPushes, SubmitItem, ScopedDisableAll,
         ReleaseDisabler, BeginFlush, mainVars, ClosePcs
  <2> QED
    BY <2>1 DEF ClosePcs
<1>6. CASE PostTask \/ RunTasks \/ Finished \/ UNCHANGED vars
  BY <1>6, TaskFrame DEF Finished, vars, runVars, pauseVars, mainVars
<1> QED
  BY <1>1, <1>2, <1>3, <1>4, <1>5, <1>6 DEF Next, MainContinues, MainCalls

LEMMA HandsStep ==
    ASSUME IInv, HandsInv, [Next]_vars
    PROVE  HandsInv'
  BY OwnCursorStep, MainHandStep, JoinStep DEF IInv, CursorInv, HandsInv

--------------------------------------------------------------------------------
(***************************************************************************)
(* Every step keeps the items in order.                                    *)
(***************************************************************************)
\* Moving a cursor moves no item when nothing is in hand there.
LEMMA HandFrame ==
    ASSUME UNCHANGED <<tHeld, mHeld>>,
           \A t \in Thread : tHeld[t] # <<>> => cur'[t] = cur[t],
           mHeld # <<>> => ms' = ms
    PROVE  \A s \in Stage : InHand(s)' = InHand(s)
<1> SUFFICES ASSUME NEW s \in Stage PROVE InHand(s)' = InHand(s)
  OBVIOUS
<1>1. ThreadOf[s] \in Thread
  BY PipelineAssumption
<1> DEFINE onThread == IF cur[ThreadOf[s]] = s THEN tHeld[ThreadOf[s]] ELSE <<>>
           onMain == IF ms = s THEN mHeld ELSE <<>>
<1>2. onThread' = onThread
  BY <1>1
<1>3. onMain' = onMain
  OBVIOUS
<1> HIDE DEF onThread, onMain
<1>4. InHand(s) = onThread \o onMain /\ InHand(s)' = onThread' \o onMain'
  BY DEF InHand, onThread, onMain
<1> QED
  BY <1>2, <1>3, <1>4

\* What is in hand when only a thread, only the main thread or nobody holds an item.
HandShape ==
    \A s \in Stage :
      /\ mHeld = <<>> =>
           InHand(s) = IF cur[ThreadOf[s]] = s THEN tHeld[ThreadOf[s]] ELSE <<>>
      /\ tHeld[ThreadOf[s]] = <<>> => InHand(s) = IF ms = s THEN mHeld ELSE <<>>

LEMMA HandCases == DataTypeOK => HandShape
<1> SUFFICES ASSUME DataTypeOK, NEW s \in Stage
             PROVE  /\ mHeld = <<>> => InHand(s) = IF cur[ThreadOf[s]] = s
                                                   THEN tHeld[ThreadOf[s]] ELSE <<>>
                    /\ tHeld[ThreadOf[s]] = <<>> => InHand(s) = IF ms = s THEN mHeld
                                                                         ELSE <<>>
  BY DEF HandShape
<1>1. ThreadOf[s] \in Thread /\ tHeld[ThreadOf[s]] \in Seq(Item) /\ mHeld \in Seq(Item)
  BY PipelineAssumption DEF DataTypeOK
<1>2. <<>> \in Seq(Item) /\ <<>> \o <<>> = <<>>
  OBVIOUS
<1>3. \A q \in Seq(Item) : q \o <<>> = q /\ <<>> \o q = q
  BY ConcatEmptySeq
<1> QED
  BY <1>1, <1>2, <1>3 DEF InHand

\* Before and after a step.
LEMMA HandsBothWays ==
    ASSUME IInv, IInv'
    PROVE  /\ DataTypeOK /\ DataTypeOK' /\ HandShape /\ HandShape'
           /\ \A s \in Stage : ThreadOf[s] \in Thread
<1>1. DataTypeOK /\ DataTypeOK'
  BY DEF IInv, TypeOK
<1>2. DataTypeOK' => HandShape'
  BY HandCases, PTL
<1> QED
  BY <1>1, <1>2, HandCases, PipelineAssumption

\* A thread's stage pops.
LEMMA StagePopsOrder ==
    ASSUME IInv, IInv', HandsInv, FlushMode, OrderInv, NEW t \in Thread, StagePops(t)
    PROVE  OrderInv'
<1>1. PICK s \in Stage : s = cur[t] /\ ThreadOf[s] = t
  BY DEF StagePops, IInv, CursorInv, ThreadCursor, HandsInv, OwnCursor
<1>2. tHeld[t] = <<>> /\ mHeld = <<>>
  BY MainAlone DEF StagePops, IInv, CursorInv, ThreadCursor, HandsInv, MainHandInv,
     MainRuns, FlushMode, FlushPcs
<1>3. /\ DataTypeOK /\ HandShape /\ HandShape'
      /\ \A r \in Stage : ThreadOf[r] \in Thread
  BY HandsBothWays
<1>4. /\ queue[s - 1] # <<>>
      /\ tHeld' = [tHeld EXCEPT ![t] = <<Head(queue[s - 1])>>]
      /\ queue' = [queue EXCEPT ![s - 1] = Tail(@)]
      /\ UNCHANGED <<sent, mHeld, cur>>
  BY <1>1 DEF StagePops
<1>5. /\ tHeld'[t] = <<Head(queue[s - 1])>>
      /\ \A r \in Thread : r # t => tHeld'[r] = tHeld[r]
  BY <1>3, <1>4 DEF DataTypeOK
<1>6. InHand(s) = <<>> /\ InHand(s)' = <<Head(queue[s - 1])>>
  BY <1>1, <1>2, <1>3, <1>4, <1>5 DEF HandShape
<1>7. ASSUME NEW r \in Stage, r # s PROVE InHand(r)' = InHand(r)
  BY <1>1, <1>2, <1>3, <1>4, <1>5, <1>7 DEF HandShape
<1>8. \A r \in Stage : r # s => InHand(r)' = InHand(r)
  BY <1>7
<1> QED
  BY <1>1, <1>3, <1>4, <1>6, <1>8, PopOrder

\* A thread's stage pushes.
LEMMA StagePushesOrder ==
    ASSUME IInv, IInv', HandsInv, FlushMode, OrderInv, NEW t \in Thread, StagePushes(t)
    PROVE  OrderInv'
<1>1. PICK s \in Stage : s = cur[t] /\ ThreadOf[s] = t
  BY DEF StagePushes, IInv, CursorInv, ThreadCursor, HandsInv, OwnCursor
<1>2. mHeld = <<>>
  BY MainAlone DEF StagePushes, HandsInv, MainHandInv, MainRuns, FlushMode, FlushPcs
<1>3. /\ DataTypeOK /\ HandShape /\ HandShape'
      /\ \A r \in Stage : ThreadOf[r] \in Thread
  BY HandsBothWays
<1>4. /\ queue' = [queue EXCEPT ![s] = @ \o tHeld[t]]
      /\ tHeld' = [tHeld EXCEPT ![t] = <<>>]
      /\ UNCHANGED <<sent, mHeld, cur>>
  BY <1>1 DEF StagePushes
<1>5. /\ tHeld'[t] = <<>>
      /\ \A r \in Thread : r # t => tHeld'[r] = tHeld[r]
  BY <1>3, <1>4 DEF DataTypeOK
<1>6. InHand(s) = tHeld[t] /\ InHand(s)' = <<>>
  BY <1>1, <1>2, <1>3, <1>4, <1>5 DEF HandShape
<1>7. ASSUME NEW r \in Stage, r # s PROVE InHand(r)' = InHand(r)
  BY <1>1, <1>2, <1>3, <1>4, <1>5, <1>7 DEF HandShape
<1>8. \A r \in Stage : r # s => InHand(r)' = InHand(r)
  BY <1>7
<1> QED
  BY <1>1, <1>3, <1>4, <1>6, <1>8, PushOrder

\* A stage the main thread runs pops.
LEMMA MainPopsOrder ==
    ASSUME IInv, IInv', HandsInv, FlushMode, OrderInv, NEW w, NEW n, MainPops(w, n),
           mpc \in {"flush", "teardown"}
    PROVE  OrderInv'
<1>1. PICK s \in Stage : s = ms
  BY DEF MainPops
<1>2. mHeld = <<>> /\ \A t \in Thread : tHeld[t] = <<>>
  BY MainAlone DEF HandsInv, MainHandInv, MainRuns, FlushMode, FlushPcs
<1>3. /\ DataTypeOK /\ HandShape /\ HandShape'
      /\ \A r \in Stage : ThreadOf[r] \in Thread
  BY HandsBothWays
<1>4. /\ queue[s - 1] # <<>>
      /\ mHeld' = <<Head(queue[s - 1])>>
      /\ queue' = [queue EXCEPT ![s - 1] = Tail(@)]
      /\ UNCHANGED <<sent, tHeld, ms>>
  BY <1>1 DEF MainPops
<1>5. InHand(s) = <<>> /\ InHand(s)' = <<Head(queue[s - 1])>>
  BY <1>1, <1>2, <1>3, <1>4 DEF HandShape
<1>6. ASSUME NEW r \in Stage, r # s PROVE InHand(r)' = InHand(r)
  BY <1>1, <1>2, <1>3, <1>4, <1>6 DEF HandShape
<1>7. \A r \in Stage : r # s => InHand(r)' = InHand(r)
  BY <1>6
<1> QED
  BY <1>1, <1>3, <1>4, <1>5, <1>7, PopOrder

\* It pushes.
LEMMA MainPushesOrder ==
    ASSUME IInv, IInv', HandsInv, FlushMode, OrderInv, NEW w, NEW n, MainPushes(w, n),
           mpc \in {"flushPush", "teardownPush"}
    PROVE  OrderInv'
<1>1. PICK s \in Stage : s = ms
  BY DEF IInv, CursorInv, MainCursor
<1>2. \A t \in Thread : tHeld[t] = <<>>
  BY MainAlone DEF MainRuns, FlushMode, FlushPcs
<1>3. /\ DataTypeOK /\ HandShape /\ HandShape'
      /\ \A r \in Stage : ThreadOf[r] \in Thread
  BY HandsBothWays
<1>4. /\ queue' = [queue EXCEPT ![s] = @ \o mHeld]
      /\ mHeld' = <<>>
      /\ UNCHANGED <<sent, tHeld, ms>>
  BY <1>1 DEF MainPushes
<1>5. InHand(s) = mHeld /\ InHand(s)' = <<>>
  BY <1>1, <1>2, <1>3, <1>4 DEF HandShape
<1>6. ASSUME NEW r \in Stage, r # s PROVE InHand(r)' = InHand(r)
  BY <1>1, <1>2, <1>3, <1>4, <1>6 DEF HandShape
<1>7. \A r \in Stage : r # s => InHand(r)' = InHand(r)
  BY <1>6
<1> QED
  BY <1>1, <1>3, <1>4, <1>5, <1>7, PushOrder

\* A step in which no stage pops or pushes and nothing is submitted moves no item.
LEMMA StillHands ==
    ASSUME IInv, HandsInv, [Next]_vars,
           ~SubmitItem, ~FlushPops, ~TeardownPops, ~FlushPushes, ~TeardownPushes,
           \A t \in Thread : ~StagePops(t) /\ ~StagePushes(t)
    PROVE  UNCHANGED dataVars /\ \A s \in Stage : InHand(s)' = InHand(s)
<1> DEFINE Still == UNCHANGED dataVars /\ \A s \in Stage : InHand(s)' = InHand(s)
<1>1. ASSUME NEW t \in Thread, ThreadStep(t) \/ Unpark(t), ~StagePops(t), ~StagePushes(t)
      PROVE  Still
  <2>1. /\ UNCHANGED dataVars
        /\ pc[t] # "push"
        /\ \A r \in Thread : r # t => cur'[r] = cur[r]
    BY <1>1 DEF ThreadStep, LeaveLoop, Park, EnterRun, BeginRun, SkipDisabled, CallStage,
         StageSleeps, YieldToEval, KeepPolling, EndRound, ReturnFromRun, WakeFromNap,
         Unpark, ResetRun, IInv, TypeOK, RunTypeOK
  <2>2. \A r \in Thread : tHeld[r] # <<>> => cur'[r] = cur[r]
    BY <2>1 DEF IInv, CursorInv, ThreadCursor
  <2> QED
    BY <1>1, <2>1, <2>2, ThreadFrame, HandFrame DEF dataVars, mainVars
<1>2. ASSUME MainContinues \/ MainCalls
      PROVE  Still
  <2>1. UNCHANGED dataVars /\ mpc \notin {"flushPush", "teardownPush"}
    BY <1>2 DEF MainContinues, MainCalls, OpenThread, DisableStage, DisabledThread,
         RequestPause, PauseNotify, PauseAcknowledged, ResumeThread, ResumeNotify,
         ResumedAll, EnableStage, EnabledAll, LockForFlush, FlushNextStage, EndFlush,
         RequestStop, CloseNotify, JoinThread, TeardownNextStage, ScopedDisableAll,
         ReleaseDisabler, BeginFlush, BeginTeardown
  <2>2. mHeld = <<>> /\ cur' = cur
    BY <1>2, <2>1, MainFrame DEF HandsInv, MainHandInv
  <2> QED
    BY <2>1, <2>2, HandFrame DEF dataVars
<1>3. CASE PostTask \/ RunTasks \/ Finished \/ UNCHANGED vars
  <2>1. UNCHANGED <<dataVars, runVars, mainVars>>
    BY <1>3, TaskFrame DEF Finished, vars
  <2> QED
    BY <2>1, HandFrame DEF dataVars, runVars, mainVars
<1> QED
  BY <1>1, <1>2, <1>3 DEF Next

LEMMA OrderStep ==
    ASSUME IInv, IInv', HandsInv, FlushMode, OrderInv, [Next]_vars
    PROVE  OrderInv'
<1>1. ASSUME NEW t \in Thread, StagePops(t) \/ StagePushes(t) PROVE OrderInv'
  BY <1>1, StagePopsOrder, StagePushesOrder
<1>2. CASE SubmitItem
  <2>1. UNCHANGED <<tHeld, mHeld, cur, ms>>
    BY <1>2 DEF SubmitItem, runVars, mainVars
  <2>2. \A s \in Stage : InHand(s)' = InHand(s)
    BY <2>1, HandFrame
  <2> QED
    BY <1>2, <2>2, SubmitOrder DEF IInv, TypeOK
<1>3. CASE FlushPops \/ TeardownPops
  <2>1. mpc \in {"flush", "teardown"}
    BY <1>3 DEF FlushPops, TeardownPops, MainPops
  <2> QED
    BY <1>3, <2>1, MainPopsOrder DEF FlushPops, TeardownPops
<1>4. CASE FlushPushes \/ TeardownPushes
  <2>1. mpc \in {"flushPush", "teardownPush"}
    BY <1>4 DEF FlushPushes, TeardownPushes, MainPushes
  <2> QED
    BY <1>4, <2>1, MainPushesOrder DEF FlushPushes, TeardownPushes
<1>5. ASSUME ~SubmitItem, ~FlushPops, ~TeardownPops, ~FlushPushes, ~TeardownPushes,
             \A t \in Thread : ~StagePops(t) /\ ~StagePushes(t)
      PROVE  OrderInv'
  <2>1. UNCHANGED dataVars /\ \A s \in Stage : InHand(s)' = InHand(s)
    BY <1>5, StillHands
  <2> QED
    BY <2>1, FrameOrder DEF dataVars
<1> QED
  BY <1>1, <1>2, <1>3, <1>4, <1>5

--------------------------------------------------------------------------------
(***************************************************************************)
(* Every step keeps the number of items, also a flush that works beside    *)
(* running threads: the same stage may then be run by two threads at once. *)
(***************************************************************************)
\* o[s] items have left queue s: those that entered it less those still in it, and all
\* of them are in the next queue, past it, or in the hands of the stage between.
Conserved(o) ==
    /\ o[0] + Len(queue[0]) = sent
    /\ \A s \in Stage : o[s - 1] = o[s] + Len(queue[s]) + Len(InHand(s))
    /\ o[NumStages] = 0

CountInv == \E o \in Positions : Conserved(o)

\* The items in hand, those of a thread and those of the main thread together.
HandSum(s) == (IF cur[ThreadOf[s]] = s THEN Len(tHeld[ThreadOf[s]]) ELSE 0)
              + (IF ms = s THEN Len(mHeld) ELSE 0)

HandCounts == \A s \in Stage : Len(InHand(s)) = HandSum(s) /\ Len(InHand(s)) \in Nat

LEMMA HandCount == DataTypeOK => HandCounts
<1> SUFFICES ASSUME DataTypeOK, NEW s \in Stage
             PROVE  Len(InHand(s)) = HandSum(s) /\ Len(InHand(s)) \in Nat
  BY DEF HandCounts
<1>1. ThreadOf[s] \in Thread /\ tHeld[ThreadOf[s]] \in Seq(Item) /\ mHeld \in Seq(Item)
  BY PipelineAssumption DEF DataTypeOK
<1> DEFINE l == IF cur[ThreadOf[s]] = s THEN tHeld[ThreadOf[s]] ELSE <<>>
           r == IF ms = s THEN mHeld ELSE <<>>
<1>2. l \in Seq(Item) /\ r \in Seq(Item)
  BY <1>1
<1>3. HandSum(s) = Len(l) + Len(r)
  <2>1. Len(l) = IF cur[ThreadOf[s]] = s THEN Len(tHeld[ThreadOf[s]]) ELSE 0
    OBVIOUS
  <2>2. Len(r) = IF ms = s THEN Len(mHeld) ELSE 0
    OBVIOUS
  <2> HIDE DEF l, r
  <2> QED
    BY <2>1, <2>2 DEF HandSum
<1>4. InHand(s) = l \o r
  BY DEF InHand
<1> HIDE DEF l, r
<1>5. Len(l \o r) = Len(l) + Len(r) /\ Len(l) \in Nat /\ Len(r) \in Nat
  BY <1>2, ConcatProperties
<1> QED
  BY <1>3, <1>4, <1>5

\* A step that moves no item.
LEMMA FrameCount ==
    ASSUME CountInv, UNCHANGED <<sent, queue>>,
           \A s \in Stage : InHand(s)' = InHand(s)
    PROVE  CountInv'
<1>1. PICK o \in Positions : Conserved(o)
  BY DEF CountInv
<1>2. Conserved(o)'
  BY <1>1 DEF Conserved
<1> QED
  BY <1>2 DEF CountInv, Positions

\* Somebody pops an item of stage s.
LEMMA PopCount ==
    ASSUME CountInv, NEW s \in Stage, DataTypeOK, DataTypeOK',
           queue[s - 1] # <<>>,
           queue' = [queue EXCEPT ![s - 1] = Tail(@)],
           HandSum(s)' = HandSum(s) + 1,
           \A r \in Stage : r # s => HandSum(r)' = HandSum(r),
           sent' = sent
    PROVE  CountInv'
<1>1. PICK o \in Positions : Conserved(o)
  BY DEF CountInv
<1> DEFINE b == [o EXCEPT ![s - 1] = @ + 1]
<1>2. s \in 0..NumStages /\ s - 1 \in 0..NumStages /\ s - 1 # NumStages
  BY PipelineAssumption DEF Stage
<1>3. /\ \A r \in 0..NumStages : o[r] \in Nat
      /\ b \in Positions
      /\ b[s - 1] = o[s - 1] + 1
      /\ \A r \in 0..NumStages : r # s - 1 => b[r] = o[r]
  BY <1>2 DEF Positions
<1> HIDE DEF b
<1>4. queue[s - 1] \in Seq(Item)
  BY <1>2 DEF DataTypeOK
<1>5. Len(Tail(queue[s - 1])) = Len(queue[s - 1]) - 1
  BY <1>4, HeadTailProperties
<1>6. /\ Len(queue'[s - 1]) = Len(queue[s - 1]) - 1
      /\ \A r \in 0..NumStages : r # s - 1 => queue'[r] = queue[r]
  BY <1>2, <1>5 DEF DataTypeOK
<1>7. \A r \in 0..NumStages : Len(queue[r]) \in Nat
  BY DEF DataTypeOK
<1>8. \A r \in Stage : Len(InHand(r)) = HandSum(r) /\ Len(InHand(r)) \in Nat
  BY HandCount DEF HandCounts
<1>9. \A r \in Stage : Len(InHand(r)') = HandSum(r)' /\ Len(InHand(r)') \in Nat
  <2>1. DataTypeOK' => HandCounts'
    BY HandCount, PTL
  <2> QED
    BY <2>1 DEF HandCounts
<1>10. ASSUME NEW r \in Stage
       PROVE  b[r - 1] = b[r] + Len(queue'[r]) + Len(InHand(r)')
  <2>1. r \in 0..NumStages /\ r - 1 \in 0..NumStages
    BY QueueNumbers
  <2>2. o[r - 1] = o[r] + Len(queue[r]) + Len(InHand(r))
    BY <1>1 DEF Conserved
  <2>3. o[r] \in Nat /\ o[r - 1] \in Nat /\ Len(queue[r]) \in Nat /\ Len(InHand(r)) \in Nat
    BY <1>3, <1>7, <1>8, <2>1
  <2>4. CASE r = s
    <3>1. Len(InHand(r)') = Len(InHand(r)) + 1 /\ b[r - 1] = o[r - 1] + 1
      BY <1>3, <1>8, <1>9, <2>4
    <3>2. r # s - 1
      BY <2>4, QueueNumbers
    <3>3. b[r] = o[r] /\ queue'[r] = queue[r]
      BY <1>3, <1>6, <2>1, <3>2
    <3>4. b[r] + Len(queue'[r]) + Len(InHand(r)')
            = o[r] + Len(queue[r]) + (Len(InHand(r)) + 1)
      BY <3>1, <3>3
    <3> HIDE DEF InHand
    <3>5. b[r - 1] = o[r] + Len(queue[r]) + Len(InHand(r)) + 1
      BY <2>2, <3>1
    <3> QED
      BY <2>3, <3>4, <3>5
  <2>5. CASE r = s - 1
    <3>1. r # s /\ r - 1 # s - 1
      BY <2>1, <2>5, QueueNumbers
    <3>2. Len(InHand(r)') = Len(InHand(r)) /\ b[r - 1] = o[r - 1] /\ b[r] = o[r] + 1
          /\ Len(queue'[r]) = Len(queue[r]) - 1
      BY <1>3, <1>6, <1>8, <1>9, <2>1, <2>5, <3>1
    <3> QED
      BY <2>2, <2>3, <3>2
  <2>6. CASE r # s /\ r # s - 1
    <3>1. r - 1 # s - 1
      BY <2>6, QueueNumbers
    <3>2. Len(InHand(r)') = Len(InHand(r)) /\ b[r - 1] = o[r - 1] /\ b[r] = o[r]
          /\ queue'[r] = queue[r]
      BY <1>3, <1>6, <1>8, <1>9, <2>1, <2>6, <3>1
    <3> QED
      BY <2>2, <3>2
  <2> QED
    BY <2>4, <2>5, <2>6
<1>11. b[0] + Len(queue'[0]) = sent'
  <2>1. o[0] + Len(queue[0]) = sent /\ 0 \in 0..NumStages
    BY <1>1, QueueNumbers DEF Conserved
  <2>2. CASE s - 1 = 0
    BY <1>3, <1>6, <1>7, <2>1, <2>2
  <2>3. CASE s - 1 # 0
    BY <1>3, <1>6, <2>1, <2>3
  <2> QED
    BY <2>2, <2>3
<1>12. b[NumStages] = 0
  BY <1>1, <1>2, <1>3, QueueNumbers DEF Conserved
<1>13. Conserved(b)'
  BY <1>10, <1>11, <1>12 DEF Conserved
<1> QED
  BY <1>3, <1>13 DEF CountInv, Positions

\* Somebody pushes what he has in hand of stage s.
LEMMA PushCount ==
    ASSUME CountInv, NEW s \in Stage, DataTypeOK, DataTypeOK', NEW h \in Seq(Item),
           queue' = [queue EXCEPT ![s] = @ \o h],
           HandSum(s) = HandSum(s)' + Len(h),
           \A r \in Stage : r # s => HandSum(r)' = HandSum(r),
           sent' = sent
    PROVE  CountInv'
<1>1. PICK o \in Positions : Conserved(o)
  BY DEF CountInv
<1>2. s \in 0..NumStages /\ s - 1 \in 0..NumStages /\ s # 0
  BY PipelineAssumption DEF Stage
<1>3. \A r \in 0..NumStages : o[r] \in Nat
  BY DEF Positions
<1>4. queue[s] \in Seq(Item)
  BY <1>2 DEF DataTypeOK
<1>5. Len(queue[s] \o h) = Len(queue[s]) + Len(h) /\ Len(h) \in Nat
  BY <1>4, ConcatProperties
<1>6. /\ Len(queue'[s]) = Len(queue[s]) + Len(h)
      /\ \A r \in 0..NumStages : r # s => queue'[r] = queue[r]
  BY <1>2, <1>5 DEF DataTypeOK
<1>7. \A r \in 0..NumStages : Len(queue[r]) \in Nat
  BY DEF DataTypeOK
<1>8. \A r \in Stage : Len(InHand(r)) = HandSum(r) /\ Len(InHand(r)) \in Nat
  BY HandCount DEF HandCounts
<1>9. \A r \in Stage : Len(InHand(r)') = HandSum(r)' /\ Len(InHand(r)') \in Nat
  <2>1. DataTypeOK' => HandCounts'
    BY HandCount, PTL
  <2> QED
    BY <2>1 DEF HandCounts
<1>10. ASSUME NEW r \in Stage
       PROVE  o[r - 1] = o[r] + Len(queue'[r]) + Len(InHand(r)')
  <2>1. r \in 0..NumStages /\ r - 1 \in 0..NumStages
    BY QueueNumbers
  <2>2. o[r - 1] = o[r] + Len(queue[r]) + Len(InHand(r))
    BY <1>1 DEF Conserved
  <2>3. o[r] \in Nat /\ o[r - 1] \in Nat /\ Len(queue[r]) \in Nat /\ Len(InHand(r)) \in Nat
    BY <1>3, <1>7, <1>8, <2>1
  <2>4. CASE r = s
    <3>1. Len(InHand(r)) = Len(InHand(r)') + Len(h) /\ Len(InHand(r)') \in Nat
      BY <1>8, <1>9, <2>4
    <3> QED
      BY <1>5, <1>6, <2>2, <2>3, <2>4, <3>1
  <2>5. CASE r # s
    BY <1>6, <1>8, <1>9, <2>1, <2>2, <2>5
  <2> QED
    BY <2>4, <2>5
<1>11. o[0] + Len(queue'[0]) = sent' /\ o[NumStages] = 0
  BY <1>1, <1>2, <1>6, QueueNumbers DEF Conserved
<1>12. Conserved(o)'
  BY <1>10, <1>11 DEF Conserved
<1> QED
  BY <1>12 DEF CountInv, Positions

\* The application submits an item.
LEMMA SubmitCount ==
    ASSUME CountInv, DataTypeOK, SubmitItem,
           \A s \in Stage : InHand(s)' = InHand(s)
    PROVE  CountInv'
<1>1. PICK o \in Positions : Conserved(o)
  BY DEF CountInv
<1>2. 0 \in 0..NumStages /\ o[0] \in Nat /\ queue[0] \in Seq(Item) /\ sent \in Nat
  BY QueueNumbers DEF Positions, DataTypeOK
<1>3. /\ queue'[0] = Append(queue[0], sent + 1)
      /\ \A r \in 0..NumStages : r # 0 => queue'[r] = queue[r]
      /\ sent' = sent + 1
  BY <1>2 DEF SubmitItem, DataTypeOK
<1>4. sent + 1 \in Item
  BY <1>2, PipelineAssumption DEF SubmitItem, Item
<1>5. Len(queue'[0]) = Len(queue[0]) + 1
  BY <1>2, <1>3, <1>4, AppendProperties
<1>6. o[0] + Len(queue'[0]) = sent'
  <2>1. o[0] + Len(queue[0]) = sent /\ Len(queue[0]) \in Nat
    BY <1>1, <1>2 DEF Conserved
  <2> QED
    BY <1>2, <1>3, <1>5, <2>1
<1>7. ASSUME NEW r \in Stage
      PROVE  o[r - 1] = o[r] + Len(queue'[r]) + Len(InHand(r)')
  BY <1>1, <1>3, QueueNumbers DEF Conserved
<1>8. Conserved(o)'
  BY <1>1, <1>6, <1>7 DEF Conserved
<1> QED
  BY <1>8 DEF CountInv, Positions

LEMMA StagePopsCount ==
    ASSUME IInv, IInv', HandsInv, CountInv, NEW t \in Thread, StagePops(t)
    PROVE  CountInv'
<1>1. PICK s \in Stage : s = cur[t] /\ ThreadOf[s] = t
  BY DEF StagePops, IInv, CursorInv, ThreadCursor, HandsInv, OwnCursor
<1>2. tHeld[t] = <<>>
  BY DEF StagePops, IInv, CursorInv, ThreadCursor
<1>3. DataTypeOK /\ DataTypeOK'
  BY DEF IInv, TypeOK
<1>4. /\ queue[s - 1] # <<>>
      /\ tHeld' = [tHeld EXCEPT ![t] = <<Head(queue[s - 1])>>]
      /\ queue' = [queue EXCEPT ![s - 1] = Tail(@)]
      /\ UNCHANGED <<sent, mHeld, cur, ms>>
  BY <1>1 DEF StagePops, mainVars
<1>5. /\ Len(tHeld'[t]) = 1 /\ Len(tHeld[t]) = 0
      /\ \A r \in Thread : r # t => tHeld'[r] = tHeld[r]
  BY <1>2, <1>3, <1>4 DEF DataTypeOK
<1>6. Len(mHeld) \in Nat
  BY <1>3 DEF DataTypeOK
<1>7. HandSum(s)' = HandSum(s) + 1
  <2>1. cur[ThreadOf[s]] = s /\ cur'[ThreadOf[s]] = s
    BY <1>1, <1>4
  <2>2. HandSum(s) = Len(tHeld[t]) + (IF ms = s THEN Len(mHeld) ELSE 0)
    BY <1>1, <2>1 DEF HandSum
  <2>3. HandSum(s)' = Len(tHeld'[t]) + (IF ms = s THEN Len(mHeld) ELSE 0)
    BY <1>1, <1>4, <2>1 DEF HandSum
  <2> QED
    BY <1>5, <1>6, <2>2, <2>3
<1>8. ASSUME NEW r \in Stage, r # s PROVE HandSum(r)' = HandSum(r)
  <2>1. ThreadOf[r] \in Thread /\ cur' = cur /\ ms' = ms /\ mHeld' = mHeld
    BY <1>4, PipelineAssumption
  <2>2. CASE ThreadOf[r] = t
    <3>1. cur[ThreadOf[r]] # r
      BY <1>1, <1>8, <2>2
    <3> QED
      BY <2>1, <3>1 DEF HandSum
  <2>3. CASE ThreadOf[r] # t
    <3>1. tHeld'[ThreadOf[r]] = tHeld[ThreadOf[r]]
      BY <1>5, <2>1, <2>3
    <3> QED
      BY <2>1, <3>1 DEF HandSum
  <2> QED
    BY <2>2, <2>3
<1> HIDE DEF HandSum
<1>9. \A r \in Stage : r # s => HandSum(r)' = HandSum(r)
  BY <1>8
<1> QED
  BY <1>3, <1>4, <1>7, <1>9, PopCount

LEMMA StagePushesCount ==
    ASSUME IInv, IInv', HandsInv, CountInv, NEW t \in Thread, StagePushes(t)
    PROVE  CountInv'
<1>1. PICK s \in Stage : s = cur[t] /\ ThreadOf[s] = t
  BY DEF StagePushes, IInv, CursorInv, ThreadCursor, HandsInv, OwnCursor
<1>2. DataTypeOK /\ DataTypeOK' /\ tHeld[t] \in Seq(Item)
  BY DEF IInv, TypeOK, DataTypeOK
<1>3. /\ queue' = [queue EXCEPT ![s] = @ \o tHeld[t]]
      /\ tHeld' = [tHeld EXCEPT ![t] = <<>>]
      /\ UNCHANGED <<sent, mHeld, cur, ms>>
  BY <1>1 DEF StagePushes, mainVars
<1>4. /\ Len(tHeld'[t]) = 0
      /\ \A r \in Thread : r # t => tHeld'[r] = tHeld[r]
  BY <1>2, <1>3 DEF DataTypeOK
<1>5. Len(mHeld) \in Nat /\ Len(tHeld[t]) \in Nat
  BY <1>2 DEF DataTypeOK
<1>6. HandSum(s) = HandSum(s)' + Len(tHeld[t])
  <2>1. cur[ThreadOf[s]] = s /\ cur'[ThreadOf[s]] = s
    BY <1>1, <1>3
  <2>2. HandSum(s) = Len(tHeld[t]) + (IF ms = s THEN Len(mHeld) ELSE 0)
    BY <1>1, <2>1 DEF HandSum
  <2>3. HandSum(s)' = Len(tHeld'[t]) + (IF ms = s THEN Len(mHeld) ELSE 0)
    BY <1>1, <1>3, <2>1 DEF HandSum
  <2>4. PICK x \in Nat : x = IF ms = s THEN Len(mHeld) ELSE 0
    BY <1>5
  <2>5. HandSum(s)' = x
    BY <1>4, <2>3, <2>4
  <2>6. HandSum(s) = Len(tHeld[t]) + x
    BY <2>2, <2>4
  <2> QED
    BY <1>5, <2>5, <2>6
<1>7. ASSUME NEW r \in Stage, r # s PROVE HandSum(r)' = HandSum(r)
  <2>1. ThreadOf[r] \in Thread /\ cur' = cur /\ ms' = ms /\ mHeld' = mHeld
    BY <1>3, PipelineAssumption
  <2>2. CASE ThreadOf[r] = t
    <3>1. cur[ThreadOf[r]] # r
      BY <1>1, <1>7, <2>2
    <3> QED
      BY <2>1, <3>1 DEF HandSum
  <2>3. CASE ThreadOf[r] # t
    <3>1. tHeld'[ThreadOf[r]] = tHeld[ThreadOf[r]]
      BY <1>4, <2>1, <2>3
    <3> QED
      BY <2>1, <3>1 DEF HandSum
  <2> QED
    BY <2>2, <2>3
<1>8. \A r \in Stage : r # s => HandSum(r)' = HandSum(r)
  BY <1>7
<1>9. PICK h \in Seq(Item) : h = tHeld[t]
  BY <1>2
<1>10. queue' = [queue EXCEPT ![s] = @ \o h] /\ HandSum(s) = HandSum(s)' + Len(h)
  BY <1>3, <1>6, <1>9
<1> QED
  BY <1>2, <1>3, <1>8, <1>10, PushCount

LEMMA MainPopsCount ==
    ASSUME IInv, IInv', HandsInv, CountInv, NEW w, NEW n, MainPops(w, n),
           mpc \in {"flush", "teardown"}
    PROVE  CountInv'
<1>1. PICK s \in Stage : s = ms
  BY DEF MainPops
<1>2. mHeld = <<>>
  BY DEF HandsInv, MainHandInv
<1>3. DataTypeOK /\ DataTypeOK'
  BY DEF IInv, TypeOK
<1>4. /\ queue[s - 1] # <<>>
      /\ mHeld' = <<Head(queue[s - 1])>>
      /\ queue' = [queue EXCEPT ![s - 1] = Tail(@)]
      /\ UNCHANGED <<sent, tHeld, cur, ms>>
  BY <1>1 DEF MainPops, runVars
<1>5. Len(mHeld') = 1 /\ Len(mHeld) = 0
  BY <1>2, <1>4
<1>6. ThreadOf[s] \in Thread /\ Len(tHeld[ThreadOf[s]]) \in Nat
  BY <1>3, PipelineAssumption DEF DataTypeOK
<1>7. HandSum(s)' = HandSum(s) + 1
  BY <1>1, <1>4, <1>5, <1>6 DEF HandSum
<1>8. \A r \in Stage : r # s => HandSum(r)' = HandSum(r)
  BY <1>1, <1>4 DEF HandSum
<1> QED
  BY <1>3, <1>4, <1>7, <1>8, PopCount

LEMMA MainPushesCount ==
    ASSUME IInv, IInv', CountInv, NEW w, NEW n, MainPushes(w, n),
           mpc \in {"flushPush", "teardownPush"}
    PROVE  CountInv'
<1>1. PICK s \in Stage : s = ms
  BY DEF IInv, CursorInv, MainCursor
<1>2. DataTypeOK /\ DataTypeOK'
  BY DEF IInv, TypeOK
<1>3. PICK h \in Seq(Item) : h = mHeld
  BY <1>2 DEF DataTypeOK
<1>4. /\ queue' = [queue EXCEPT ![s] = @ \o h]
      /\ mHeld' = <<>>
      /\ UNCHANGED <<sent, tHeld, cur, ms>>
  BY <1>1, <1>3 DEF MainPushes, runVars
<1>5. Len(mHeld') = 0 /\ Len(mHeld) = Len(h) /\ Len(h) \in Nat
  BY <1>3, <1>4
<1>6. ThreadOf[s] \in Thread /\ Len(tHeld[ThreadOf[s]]) \in Nat
  BY <1>2, PipelineAssumption DEF DataTypeOK
<1>7. HandSum(s) = HandSum(s)' + Len(h)
  BY <1>1, <1>4, <1>5, <1>6 DEF HandSum
<1>8. \A r \in Stage : r # s => HandSum(r)' = HandSum(r)
  BY <1>1, <1>4 DEF HandSum
<1> QED
  BY <1>2, <1>4, <1>7, <1>8, PushCount

LEMMA CountStep ==
    ASSUME IInv, IInv', HandsInv, CountInv, [Next]_vars
    PROVE  CountInv'
<1>1. ASSUME NEW t \in Thread, StagePops(t) \/ StagePushes(t) PROVE CountInv'
  BY <1>1, StagePopsCount, StagePushesCount
<1>2. CASE SubmitItem
  <2>1. UNCHANGED <<tHeld, mHeld, cur, ms>>
    BY <1>2 DEF SubmitItem, runVars, mainVars
  <2>2. \A s \in Stage : InHand(s)' = InHand(s)
    BY <2>1, HandFrame
  <2> QED
    BY <1>2, <2>2, SubmitCount DEF IInv, TypeOK
<1>3. CASE FlushPops \/ TeardownPops
  <2>1. mpc \in {"flush", "teardown"}
    BY <1>3 DEF FlushPops, TeardownPops, MainPops
  <2> QED
    BY <1>3, <2>1, MainPopsCount DEF FlushPops, TeardownPops
<1>4. CASE FlushPushes \/ TeardownPushes
  <2>1. mpc \in {"flushPush", "teardownPush"}
    BY <1>4 DEF FlushPushes, TeardownPushes, MainPushes
  <2> QED
    BY <1>4, <2>1, MainPushesCount DEF FlushPushes, TeardownPushes
<1>5. ASSUME ~SubmitItem, ~FlushPops, ~TeardownPops, ~FlushPushes, ~TeardownPushes,
             \A t \in Thread : ~StagePops(t) /\ ~StagePushes(t)
      PROVE  CountInv'
  <2>1. UNCHANGED dataVars /\ \A s \in Stage : InHand(s)' = InHand(s)
    BY <1>5, StillHands
  <2> QED
    BY <2>1, FrameCount DEF dataVars
<1> QED
  BY <1>1, <1>2, <1>3, <1>4, <1>5

--------------------------------------------------------------------------------
(***************************************************************************)
(* What a flush and the teardown have emptied.                             *)
(***************************************************************************)
\* Nothing is on its way to the table.
Drained == \A s \in Stage : queue[s - 1] = <<>>

\* One pass over a frozen pipeline empties the input queue of every stage it has left.
FlushDrain ==
    /\ mode = "hard" /\ mpc \in {"flush", "flushPush"} =>
         \A s \in Stage : s < ms => queue[s - 1] = <<>>
    /\ mode = "hard" /\ mpc = "flushed" => Drained

\* The stages a pass of the teardown over the threads has left.
Visited(s) == ThreadOf[s] < mt \/ (ThreadOf[s] = mt /\ s < ms)

\* A teardown pass visits the stages by thread, not in pipeline order: only as long as
\* it has done no work are the queues behind it empty.
TeardownDrain ==
    /\ mpc \in {"teardown", "teardownPush"} /\ ~mWork =>
         \A s \in Stage : Visited(s) => queue[s - 1] = <<>>
    /\ mpc = "closed" => Drained

DrainInv == FlushDrain /\ TeardownDrain

\* A non-empty set of numbers has a least one.
LEMMA Least ==
    ASSUME NEW S, S \subseteq Nat, S # {}
    PROVE  \E n \in S : \A m \in S : n <= m
<1>1. PICK n \in S : \A m \in S : ~(<<m, n>> \in OpToRel(<, Nat))
  BY NatLessThanWellFounded, WFMin
<1>2. ASSUME NEW m \in S PROVE n <= m
  <2>1. m \in Nat /\ n \in Nat
    OBVIOUS
  <2>2. ~(m < n)
    BY <1>1, <2>1 DEF OpToRel
  <2> QED
    BY <2>1, <2>2
<1> QED
  BY <1>2

\* The next stage of a loop is the first one after its cursor.
LEMMA NextStageLeast ==
    ASSUME NEW t, NEW s, StagesAfter(t, s) # {}
    PROVE  \A r \in StagesAfter(t, s) : NextStage(t, s) <= r
<1>1. StagesAfter(t, s) \subseteq Nat
  BY PipelineAssumption DEF StagesAfter, Stage
<1>2. \E r \in StagesAfter(t, s) : \A q \in StagesAfter(t, s) : r <= q
  BY <1>1, Least
<1> QED
  BY <1>2 DEF NextStage

\* A step of somebody else changes nothing while the main thread runs the stages.
LEMMA OthersDrain ==
    ASSUME IInv, HandsInv, MainRuns, NEW t \in Thread, ThreadStep(t) \/ Unpark(t)
    PROVE  UNCHANGED <<queue, mainVars>>
<1>1. pc[t] \notin {"call", "push"}
  BY MainAlone
<1> QED
  BY <1>1, ThreadFrame DEF ThreadStep, LeaveLoop, Park, EnterRun, BeginRun, SkipDisabled,
     CallStage, StageSleeps, StagePops, StagePushes, YieldToEval, KeepPolling, EndRound,
     ReturnFromRun, WakeFromNap, Unpark, dataVars

LEMMA FlushDrainStep ==
    ASSUME IInv, HandsInv, FlushDrain, [Next]_vars
    PROVE  FlushDrain'
<1> USE DEF FlushDrain, Drained
<1>1. ASSUME NEW t \in Thread, ThreadStep(t) \/ Unpark(t) PROVE FlushDrain'
  <2>1. CASE MainRuns
    BY <1>1, <2>1, OthersDrain DEF mainVars
  <2>2. CASE ~MainRuns
    BY <1>1, <2>2, ThreadFrame DEF mainVars, MainRuns
  <2> QED
    BY <2>1, <2>2
<1>2. /\ queue \in [0..NumStages -> Seq(Item)]
      /\ \A s \in Stage : s \in Nat /\ s - 1 \in 0..NumStages /\ s <= NumStages
      /\ NumStages \in Nat /\ ms \in Int
  BY PipelineAssumption DEF IInv, TypeOK, DataTypeOK, MainTypeOK, Stage
<1>3. CASE FlushPops
  BY <1>2, <1>3 DEF FlushPops, MainPops
<1>4. CASE FlushPushes
  <2>1. ms \in Stage /\ ms \in 0..NumStages
    BY <1>2, <1>4, PipelineAssumption
       DEF FlushPushes, MainPushes, IInv, CursorInv, MainCursor, Stage
  <2>2. \A s \in Stage : s < ms => s - 1 # ms
    BY <1>2
  <2> QED
    BY <1>2, <1>4, <2>1, <2>2 DEF FlushPushes, MainPushes
<1>5. CASE FlushNextStage
  <2>1. ms \in Stage /\ queue[ms - 1] = <<>> /\ queue' = queue
    BY <1>5 DEF FlushNextStage, dataVars, IInv, CursorInv, MainCursor
  <2>2. mode = "hard" => \A s \in Stage : s < ms + 1 => queue[s - 1] = <<>>
    BY <1>2, <1>5, <2>1 DEF FlushNextStage
  <2>3. CASE ms < NumStages
    BY <1>2, <1>5, <2>1, <2>2, <2>3 DEF FlushNextStage
  <2>4. CASE ~(ms < NumStages)
    <3>1. mode = "hard" => \A s \in Stage : queue[s - 1] = <<>>
      BY <1>2, <2>1, <2>2, <2>4
    <3> QED
      BY <1>2, <1>5, <2>1, <2>4, <3>1 DEF FlushNextStage
  <2> QED
    BY <2>3, <2>4
<1>6. CASE LockForFlush
  BY <1>2, <1>6 DEF LockForFlush
<1>7. ASSUME MainContinues \/ MainCalls, ~FlushPops, ~FlushPushes, ~FlushNextStage,
             ~LockForFlush
      PROVE  FlushDrain'
  <2>1. mpc' \notin {"flush", "flushPush", "flushed"}
    BY <1>7 DEF MainContinues, MainCalls, OpenThread, DisableStage, DisabledThread,
         RequestPause, PauseNotify, PauseAcknowledged, ResumeThread, ResumeNotify,
         ResumedAll, EnableStage, EnabledAll, EndFlush, RequestStop, CloseNotify,
         JoinThread, TeardownPops, TeardownPushes, TeardownNextStage, MainPops,
         MainPushes, SubmitItem, ScopedDisableAll, ReleaseDisabler, BeginFlush,
         BeginTeardown, mainVars
  <2> QED
    BY <2>1
<1>8. CASE PostTask \/ RunTasks \/ Finished \/ UNCHANGED vars
  BY <1>8, TaskFrame DEF Finished, vars, dataVars, mainVars
<1> QED
  BY <1>1, <1>3, <1>4, <1>5, <1>6, <1>7, <1>8 DEF Next

\* The last stage of a teardown loop has been left with an empty input queue.
LEMMA TeardownNextDrain ==
    ASSUME IInv, TeardownDrain, TeardownNextStage
    PROVE  TeardownDrain'
<1> USE DEF TeardownDrain, Drained
<1>1. /\ mpc = "teardown" /\ queue' = queue
      /\ ms \in Stage => queue[ms - 1] = <<>> \/ ~enabled[ms]
  BY DEF TeardownNextStage, dataVars
<1>2. mode = "none" /\ \A s \in Stage : enabled[s]
  BY <1>1 DEF IInv, TypeOK, MainTypeOK, DisablerInv, ModeInv, StagesInv, ActivePcs, FlushPcs
<1>3. ms \in 0..NumStages /\ mt \in Thread /\ NumThreads \in Nat /\ NumStages \in Nat
  BY <1>1, PipelineAssumption DEF IInv, TypeOK, MainTypeOK, CursorInv, MainCursor
<1>4. \A s \in Stage : s \in Nat /\ s # 0 /\ ThreadOf[s] \in Thread
  BY PipelineAssumption DEF Stage
<1>5. \A t \in Thread : t \in Nat /\ 1 <= t /\ t <= NumThreads
  BY PipelineAssumption DEF Thread
<1>6. ASSUME ~mWork, NEW s \in Stage,
             ThreadOf[s] < mt \/ (ThreadOf[s] = mt /\ s <= ms)
      PROVE  queue[s - 1] = <<>>
  <2>1. CASE s = ms
    BY <1>1, <1>2, <2>1
  <2>2. CASE s # ms
    <3>1. Visited(s)
      BY <1>3, <1>4, <1>6, <2>2 DEF Visited
    <3> QED
      BY <1>1, <1>6, <3>1
  <2> QED
    BY <2>1, <2>2
<1>7. CASE StagesAfter(mt, ms) # {}
  <2>1. /\ ms' = NextStage(mt, ms) /\ UNCHANGED <<mpc, mt, mWork>>
    BY <1>7 DEF TeardownNextStage
  <2>2. NextStage(mt, ms) \in Nat
    BY <1>4, <1>7, NextStageType
  <2>3. ASSUME NEW s \in Stage, ThreadOf[s] = mt, s < NextStage(mt, ms) PROVE s <= ms
    <3>1. s \notin StagesAfter(mt, ms)
      BY <1>4, <1>7, <2>2, <2>3, NextStageLeast
    <3> QED
      BY <1>3, <1>4, <2>3, <3>1 DEF StagesAfter
  <2>4. ASSUME ~mWork', NEW s \in Stage, Visited(s)' PROVE queue'[s - 1] = <<>>
    BY <1>1, <1>6, <2>1, <2>3, <2>4 DEF Visited
  <2> QED
    BY <1>1, <2>1, <2>4
<1>8. CASE StagesAfter(mt, ms) = {}
  <2>1. ASSUME NEW s \in Stage, ThreadOf[s] = mt PROVE s <= ms
    BY <1>3, <1>4, <1>8, <2>1 DEF StagesAfter
  <2>2. CASE mt < NumThreads
    <3>1. ms' = 0 /\ mt' = mt + 1 /\ UNCHANGED <<mpc, mWork>>
      BY <1>8, <2>2 DEF TeardownNextStage
    <3>2. ASSUME ~mWork', NEW s \in Stage, Visited(s)' PROVE queue'[s - 1] = <<>>
      <4>1. ThreadOf[s] < mt \/ ThreadOf[s] = mt
        BY <1>3, <1>4, <1>5, <3>1, <3>2 DEF Visited
      <4>2. ThreadOf[s] < mt \/ (ThreadOf[s] = mt /\ s <= ms)
        BY <2>1, <4>1
      <4> QED
        BY <1>1, <1>6, <3>1, <3>2, <4>2
    <3> QED
      BY <1>1, <3>1, <3>2
  <2>3. CASE ~(mt < NumThreads)
    <3>1. /\ ms' = 0 /\ mt' = 1 /\ mWork' = FALSE
          /\ mpc' = IF mWork THEN "teardown" ELSE "closed"
      BY <1>8, <2>3 DEF TeardownNextStage
    <3>2. \A s \in Stage : ~Visited(s)'
      BY <1>4, <1>5, <3>1 DEF Visited
    <3>3. ASSUME ~mWork, NEW s \in Stage PROVE queue'[s - 1] = <<>>
      <4>1. ThreadOf[s] < mt \/ ThreadOf[s] = mt
        BY <1>3, <1>4, <1>5, <2>3
      <4>2. ThreadOf[s] < mt \/ (ThreadOf[s] = mt /\ s <= ms)
        BY <2>1, <4>1
      <4> QED
        BY <1>1, <1>6, <3>3, <4>2
    <3> QED
      BY <3>1, <3>2, <3>3
  <2> QED
    BY <2>2, <2>3
<1> QED
  BY <1>7, <1>8

LEMMA TeardownDrainStep ==
    ASSUME IInv, HandsInv, TeardownDrain, [Next]_vars
    PROVE  TeardownDrain'
<1> USE DEF TeardownDrain, Drained
<1>1. ASSUME NEW t \in Thread, ThreadStep(t) \/ Unpark(t) PROVE TeardownDrain'
  <2>1. CASE MainRuns
    BY <1>1, <2>1, OthersDrain DEF mainVars, Visited
  <2>2. CASE ~MainRuns
    BY <1>1, <2>2, ThreadFrame DEF mainVars, MainRuns
  <2> QED
    BY <2>1, <2>2
<1>2. /\ queue \in [0..NumStages -> Seq(Item)]
      /\ \A s \in Stage : s - 1 \in 0..NumStages
  BY PipelineAssumption DEF IInv, TypeOK, DataTypeOK, Stage
<1>3. CASE TeardownPops
  <2>1. /\ \A s \in Stage : queue[s - 1] = <<>> => queue'[s - 1] = <<>>
        /\ UNCHANGED <<mt, ms, mWork>>
        /\ mpc = "teardown" /\ mpc' = "teardownPush"
    BY <1>2, <1>3 DEF TeardownPops, MainPops
  <2> QED
    BY <2>1 DEF Visited
<1>4. CASE TeardownPushes
  BY <1>4 DEF TeardownPushes, MainPushes
<1>5. CASE TeardownNextStage
  BY <1>5, TeardownNextDrain
<1>6. CASE JoinThread
  <2>1. CASE mt = NumThreads
    <3>1. mt' = 1 /\ ms' = 0 /\ mpc' = "teardown"
      BY <1>6, <2>1 DEF JoinThread
    <3>2. \A s \in Stage : ~Visited(s)'
      BY <3>1, PipelineAssumption DEF Visited, Stage, Thread
    <3> QED
      BY <3>1, <3>2
  <2>2. CASE mt # NumThreads
    BY <1>6, <2>2 DEF JoinThread
  <2> QED
    BY <2>1, <2>2
<1>7. ASSUME MainContinues \/ MainCalls, ~TeardownPops, ~TeardownPushes,
             ~TeardownNextStage, ~JoinThread
      PROVE  TeardownDrain'
  <2>1. mpc' \notin {"teardown", "teardownPush", "closed"}
    BY <1>7 DEF MainContinues, MainCalls, OpenThread, DisableStage, DisabledThread,
         RequestPause, PauseNotify, PauseAcknowledged, ResumeThread, ResumeNotify,
         ResumedAll, EnableStage, EnabledAll, LockForFlush, FlushPops, FlushPushes,
         FlushNextStage, EndFlush, RequestStop, CloseNotify, MainPops, MainPushes,
         SubmitItem, ScopedDisableAll, ReleaseDisabler, BeginFlush, BeginTeardown,
         mainVars
  <2> QED
    BY <2>1
<1>8. CASE PostTask \/ RunTasks \/ Finished \/ UNCHANGED vars
  BY <1>8, TaskFrame DEF Finished, vars, dataVars, mainVars, Visited
<1> QED
  BY <1>1, <1>3, <1>4, <1>5, <1>6, <1>7, <1>8 DEF Next

--------------------------------------------------------------------------------
(***************************************************************************)
(* The invariant of the items.                                             *)
(***************************************************************************)
WorkInv == IInv /\ HandsInv /\ CountInv /\ DrainInv

LEMMA WorkInit == Init => WorkInv
<1> SUFFICES ASSUME Init PROVE WorkInv
  OBVIOUS
<1>1. HandsInv
  BY DEF Init, HandsInv, OwnCursor, MainHandInv, JoinInv
<1>2. CountInv
  <2> DEFINE z == [q \in 0..NumStages |-> 0]
  <2>1. z \in Positions /\ \A q \in 0..NumStages : z[q] = 0
    BY DEF Positions
  <2> HIDE DEF z
  <2>2. \A s \in Stage : Len(InHand(s)) = 0
    BY PipelineAssumption DEF Init, InHand
  <2>3. \A q \in 0..NumStages : Len(queue[q]) = 0
    BY DEF Init
  <2>4. Conserved(z)
    BY <2>1, <2>2, <2>3, QueueNumbers DEF Init, Conserved
  <2> QED
    BY <2>1, <2>4 DEF CountInv
<1>3. DrainInv
  BY DEF Init, DrainInv, FlushDrain, TeardownDrain
<1> QED
  BY <1>1, <1>2, <1>3, InitInv DEF WorkInv

LEMMA WorkStep ==
    ASSUME WorkInv, [Next]_vars
    PROVE  WorkInv'
<1>1. IInv'
  BY StepInv DEF WorkInv
<1> QED
  BY <1>1, HandsStep, CountStep, FlushDrainStep, TeardownDrainStep DEF WorkInv, DrainInv

LEMMA WorkInductive == Spec => []WorkInv
<1>1. Init => WorkInv
  BY WorkInit
<1>2. WorkInv /\ [Next]_vars => WorkInv'
  BY WorkStep
<1> QED
  BY <1>1, <1>2, PTL DEF Spec

\* With the order of the items, for an application that flushes under a hard disabler
\* only.
ItemInv == WorkInv /\ FlushMode /\ OrderInv

LEMMA ItemInit == Init => ItemInv
<1> SUFFICES ASSUME Init PROVE ItemInv
  OBVIOUS
<1>1. FlushMode
  BY DEF Init, FlushMode, FlushPcs
<1>2. OrderInv
  <2> DEFINE z == [q \in 0..NumStages |-> 0]
  <2>1. z \in Positions /\ \A q \in 0..NumStages : z[q] = 0
    BY DEF Positions
  <2> HIDE DEF z
  <2>2. Run(0, 0) = <<>>
    BY RunEmpty
  <2>3. \A s \in Stage : InHand(s) = <<>>
    BY PipelineAssumption DEF Init, InHand
  <2>4. \A q \in 0..NumStages : queue[q] = <<>>
    BY DEF Init
  <2>5. Ordered(z, z)
    BY <2>1, <2>2, <2>3, <2>4, QueueNumbers DEF Init, Ordered
  <2> QED
    BY <2>1, <2>5 DEF OrderInv
<1> QED
  BY <1>1, <1>2, WorkInit DEF ItemInv

LEMMA ItemStep ==
    ASSUME ~FlushUnfrozen, ItemInv, [Next]_vars
    PROVE  ItemInv'
<1>1. WorkInv'
  BY WorkStep DEF ItemInv
<1> QED
  BY <1>1, FlushModeStep, OrderStep DEF ItemInv, WorkInv

LEMMA ItemInductive ==
    ASSUME ~FlushUnfrozen
    PROVE  Spec => []ItemInv
<1>1. Init => ItemInv
  BY ItemInit
<1>2. ItemInv /\ [Next]_vars => ItemInv'
  BY ItemStep
<1> QED
  BY <1>1, <1>2, PTL DEF Spec

\* No queue is ahead of what was submitted.
LEMMA WithinSent ==
    ASSUME NEW a \in Positions, NEW o \in Positions, Ordered(a, o), NEW s \in 0..NumStages
    PROVE  a[s] <= sent /\ o[s] <= sent
<1> DEFINE S == {r \in 0..NumStages : ~(a[r] <= sent)}
<1>1. \A r \in 0..NumStages : r \in Nat /\ a[r] \in Nat /\ o[r] \in Nat /\ o[r] <= a[r]
  BY DEF Positions, Ordered
<1>2. a[0] = sent /\ 0 \in 0..NumStages
  BY QueueNumbers DEF Ordered
<1>3. ASSUME S # {} PROVE FALSE
  <2>1. PICK r \in S : \A q \in S : r <= q
    BY <1>1, <1>3, Least
  <2>2. r \in Stage /\ r - 1 \in 0..NumStages /\ r \in Nat
    BY <1>1, <1>2, QueueNumbers
  <2>3. a[r - 1] <= sent
    BY <2>1, <2>2
  <2>4. a[r] <= o[r - 1] /\ o[r - 1] <= a[r - 1]
    BY <1>1, <2>2 DEF Ordered
  <2>5. a[r] \in Nat /\ o[r - 1] \in Nat /\ a[r - 1] \in Nat /\ sent \in Nat
    BY <1>1, <1>2, <2>2
  <2> QED
    BY <2>1, <2>3, <2>4, <2>5
<1>4. a[s] <= sent
  BY <1>3
<1> QED
  BY <1>1, <1>2, <1>4

\* Flow, which is defined by recursion on the stages, is the run of items behind each of
\* the queues.
LEMMA FlowIsRun ==
    ASSUME NEW a \in Positions, NEW o \in Positions, Ordered(a, o)
    PROVE  \A s \in 0..NumStages : Flow[s] = Run(o[s], sent)
<1>1. \A s \in 0..NumStages : s \in Nat /\ a[s] \in Nat /\ o[s] \in Nat
  BY DEF Positions
<1>2. a[0] = sent /\ 0 \in 0..NumStages /\ sent \in Nat
  BY <1>1, QueueNumbers DEF Ordered
<1> DEFINE Eq(f) == f = [s \in 0..NumStages |->
                          IF s = 0 THEN queue[0] ELSE queue[s] \o InHand(s) \o f[s - 1]]
           F == [s \in 0..NumStages |-> Run(o[s], sent)]
<1>3. ASSUME NEW s \in Stage
      PROVE  queue[s] \o InHand(s) \o Run(o[s - 1], sent) = Run(o[s], sent)
  <2>1. s \in 0..NumStages /\ s - 1 \in 0..NumStages
    BY QueueNumbers
  <2>2. /\ queue[s] = Run(o[s], a[s]) /\ o[s] <= a[s]
        /\ InHand(s) = Run(a[s], o[s - 1]) /\ a[s] <= o[s - 1]
        /\ o[s - 1] <= sent
    BY <2>1, WithinSent DEF Ordered
  <2>3. /\ o[s] \in Nat /\ a[s] \in Nat /\ o[s - 1] \in Nat /\ o[s] <= o[s - 1]
    BY <1>1, <2>1, <2>2
  <2>4. queue[s] \o InHand(s) = Run(o[s], o[s - 1])
    BY <2>2, <2>3, RunConcat
  <2>5. Run(o[s], o[s - 1]) \o Run(o[s - 1], sent) = Run(o[s], sent)
    BY <1>2, <2>2, <2>3, RunConcat
  <2> QED
    BY <2>4, <2>5
<1>4. Eq(F)
  <2>1. ASSUME NEW s \in 0..NumStages
        PROVE  F[s] = IF s = 0 THEN queue[0] ELSE queue[s] \o InHand(s) \o F[s - 1]
    <3>1. CASE s = 0
      BY <1>2, <3>1 DEF Ordered
    <3>2. CASE s # 0
      <4>1. s \in Stage /\ s - 1 \in 0..NumStages
        BY <3>2, QueueNumbers
      <4>2. F[s] = Run(o[s], sent) /\ F[s - 1] = Run(o[s - 1], sent)
        BY <4>1
      <4> HIDE DEF F
      <4> QED
        BY <1>3, <3>2, <4>1, <4>2
    <3> QED
      BY <3>1, <3>2
  <2> QED
    BY <2>1
<1>5. Flow = CHOOSE f : Eq(f)
  BY DEF Flow
<1> HIDE DEF F, Eq
<1>6. Eq(Flow)
  BY <1>4, <1>5
<1>7. \A s \in 0..NumStages :
        Flow[s] = IF s = 0 THEN queue[0] ELSE queue[s] \o InHand(s) \o Flow[s - 1]
  BY <1>6 DEF Eq
<1> DEFINE S == {s \in 0..NumStages : Flow[s] # Run(o[s], sent)}
<1>8. ASSUME S # {} PROVE FALSE
  <2>1. PICK s \in S : \A q \in S : s <= q
    BY <1>1, <1>8, Least
  <2>2. CASE s = 0
    BY <1>2, <1>7, <2>1, <2>2 DEF Ordered
  <2>3. CASE s # 0
    <3>1. s \in Stage /\ s - 1 \in 0..NumStages /\ s \in Nat
      BY <2>3, QueueNumbers
    <3>2. Flow[s - 1] = Run(o[s - 1], sent)
      BY <2>1, <3>1
    <3>3. Flow[s] = queue[s] \o InHand(s) \o Flow[s - 1]
      BY <1>7, <2>3, <3>1
    <3> QED
      BY <1>3, <2>1, <3>1, <3>2, <3>3
  <2> QED
    BY <2>2, <2>3
<1> QED
  BY <1>8

\* When nothing is in a queue before the table or in hand, the table holds everything.
LEMMA Settled ==
    ASSUME DataTypeOK, CountInv, Drained, mHeld = <<>>, \A t \in Thread : tHeld[t] = <<>>
    PROVE  Len(queue[NumStages]) = sent
<1>1. PICK o \in Positions : Conserved(o)
  BY DEF CountInv
<1>2. \A s \in 0..NumStages : s \in Nat /\ o[s] \in Nat /\ Len(queue[s]) \in Nat
  BY DEF Positions, DataTypeOK
<1>3. o[0] = sent /\ 0 \in 0..NumStages /\ sent \in Nat /\ 1 \in Stage
  <2>1. queue[0] = <<>>
    BY PipelineAssumption DEF Drained, Stage
  <2> QED
    BY <1>1, <1>2, <2>1, QueueNumbers DEF Conserved, Stage
<1>4. ASSUME NEW s \in Stage PROVE o[s - 1] = o[s] + Len(queue[s])
  <2>1. InHand(s) = <<>>
    BY HandCases, PipelineAssumption DEF HandShape
  <2>2. Len(InHand(s)) = 0 /\ s \in 0..NumStages
    BY <2>1, QueueNumbers
  <2> QED
    BY <1>1, <1>2, <2>2 DEF Conserved
<1> DEFINE S == {s \in 0..(NumStages - 1) : o[s] # sent}
<1>5. ASSUME S # {} PROVE FALSE
  <2> HIDE DEF S
  <2>1. PICK s \in S : \A q \in S : s <= q
    <3>1. S \subseteq Nat
      BY QueueNumbers DEF S
    <3> QED
      BY <1>5, <3>1, Least
  <2> USE DEF S
  <2>2. s \in Stage /\ s + 1 \in Stage /\ s - 1 \in 0..(NumStages - 1) /\ s \in 0..NumStages
    BY <1>3, <2>1, QueueNumbers DEF Stage
  <2>3. o[s - 1] = sent
    BY <2>1, <2>2
  <2>4. queue[s] = <<>>
    <3>1. queue[(s + 1) - 1] = <<>> /\ (s + 1) - 1 = s
      BY <2>2 DEF Drained
    <3> QED
      BY <3>1
  <2>5. o[s - 1] = o[s] + 0
    BY <1>4, <2>2, <2>4
  <2> QED
    BY <1>2, <2>1, <2>2, <2>3, <2>5
<1>6. o[NumStages - 1] = sent
  BY <1>5, QueueNumbers
<1>7. o[NumStages - 1] = o[NumStages] + Len(queue[NumStages])
  BY <1>4, QueueNumbers
<1> QED
  BY <1>1, <1>2, <1>6, <1>7, QueueNumbers DEF Conserved

--------------------------------------------------------------------------------
(***************************************************************************)
(* The theorems.                                                           *)
(***************************************************************************)
\* Stage::processOne on any thread, the drain loops, the flush and the teardown lose,
\* duplicate and overtake nothing: whatever the interleaving, and for every number of
\* stages and threads, the pipeline read from the table back to its head holds exactly
\* the submitted items in order.
THEOREM ItemsInOrder ==
    ASSUME ~FlushUnfrozen
    PROVE  Spec => []InOrder
<1>1. ItemInv => InOrder
  <2> SUFFICES ASSUME ItemInv PROVE InOrder
    OBVIOUS
  <2>1. PICK a \in Positions, o \in Positions : Ordered(a, o)
    BY DEF ItemInv, OrderInv
  <2>2. Flow[NumStages] = Run(0, sent)
    BY <2>1, FlowIsRun, QueueNumbers DEF Ordered
  <2>3. sent \in Nat
    BY DEF ItemInv, WorkInv, IInv, TypeOK, DataTypeOK
  <2>4. Run(0, sent) = [k \in 1..sent |-> k]
    BY <2>3 DEF Run
  <2> QED
    BY <2>2, <2>4 DEF InOrder
<1> QED
  BY <1>1, ItemInductive, PTL

\* Flusher::flush() under a hard disabler returns with every item submitted before the
\* call in the table, although it only stops when one pass did no work.  This holds for
\* every application: also for one that has flushed before beside running threads, or
\* without any disabler, and whose items that has reordered.
THEOREM FlushIsExact == Spec => []FlushExact
<1>1. WorkInv => FlushExact
  <2> SUFFICES ASSUME WorkInv, mpc = "flushed", mode = "hard"
               PROVE  Len(queue[NumStages]) = sent
    BY DEF FlushExact
  <2>1. Drained /\ mHeld = <<>>
    BY DEF WorkInv, DrainInv, FlushDrain, HandsInv, MainHandInv
  <2>2. \A t \in Thread : tHeld[t] = <<>>
    BY MainAlone DEF WorkInv, MainRuns
  <2> QED
    BY <2>1, <2>2, Settled DEF WorkInv, IInv, TypeOK
<1> QED
  BY <1>1, WorkInductive, PTL

\* postSimLoopTeardown returns with every submitted item in the table and every polling
\* thread gone, although it closes the threads one by one while those after them still
\* run, and then visits the stages by thread instead of in pipeline order; whichever
\* flushes, frozen or not, the application has made before.
THEOREM TeardownIsComplete == Spec => []TeardownDrains
<1>1. WorkInv => TeardownDrains
  <2> SUFFICES ASSUME WorkInv, mpc = "closed"
               PROVE  /\ Len(queue[NumStages]) = sent
                      /\ \A t \in Thread : ~running[t] /\ pc[t] = "exited"
    BY DEF TeardownDrains
  <2>1. Drained /\ mHeld = <<>>
    BY DEF WorkInv, DrainInv, TeardownDrain, HandsInv, MainHandInv
  <2>2. \A t \in Thread : tHeld[t] = <<>>
    BY MainAlone DEF WorkInv, MainRuns
  <2>3. \A t \in Thread : ~running[t] /\ pc[t] = "exited"
    BY DEF WorkInv, HandsInv, JoinInv, Joined
  <2> QED
    BY <2>1, <2>2, <2>3, Settled DEF WorkInv, IInv, TypeOK
<1> QED
  BY <1>1, WorkInductive, PTL

--------------------------------------------------------------------------------
(***************************************************************************)
(* The pipeline keeps its promise: every step is a step of PipelinePromise *)
(* or one that the application cannot see.                                 *)
(***************************************************************************)
\* processOne moves one item at a time.
OneInHand ==
    /\ \A t \in Thread : pc[t] = "push" => Len(tHeld[t]) = 1
    /\ mpc \in {"flushPush", "teardownPush"} => Len(mHeld) = 1

LEMMA OneInHandStep ==
    ASSUME TypeOK, OneInHand, [Next]_vars
    PROVE  OneInHand'
<1> USE DEF OneInHand
<1>1. ASSUME NEW t \in Thread, StagePops(t) PROVE OneInHand'
  BY <1>1 DEF StagePops, Goto, mainVars, TypeOK, DataTypeOK, RunTypeOK
<1>2. ASSUME NEW t \in Thread, ThreadStep(t) \/ Unpark(t), ~StagePops(t)
      PROVE  OneInHand'
  <2>1. /\ \A r \in Thread : r # t => pc'[r] = pc[r] /\ tHeld'[r] = tHeld[r]
        /\ pc'[t] # "push"
    BY <1>2 DEF ThreadStep, LeaveLoop, Park, EnterRun, BeginRun, SkipDisabled, CallStage,
         StageSleeps, StagePushes, YieldToEval, KeepPolling, EndRound, ReturnFromRun,
         WakeFromNap, Unpark, Goto, AfterCall, AfterRun, dataVars, TypeOK, DataTypeOK,
         RunTypeOK
  <2> QED
    BY <1>2, <2>1, ThreadFrame DEF mainVars
<1>3. CASE FlushPops \/ TeardownPops
  BY <1>3 DEF FlushPops, TeardownPops, MainPops, runVars
<1>4. CASE OpenThread
  BY <1>4 DEF OpenThread, dataVars, TypeOK, RunTypeOK
<1>5. ASSUME MainContinues \/ MainCalls, ~FlushPops, ~TeardownPops, ~OpenThread
      PROVE  OneInHand'
  <2>1. mpc' \notin {"flushPush", "teardownPush"}
    BY <1>5 DEF MainContinues, MainCalls, DisableStage, DisabledThread,
         RequestPause, PauseNotify, PauseAcknowledged, ResumeThread, ResumeNotify,
         ResumedAll, EnableStage, EnabledAll, LockForFlush, FlushPushes, FlushNextStage,
         EndFlush, RequestStop, CloseNotify, JoinThread, TeardownPushes,
         TeardownNextStage, MainPushes, SubmitItem, ScopedDisableAll, ReleaseDisabler,
         BeginFlush, BeginTeardown, mainVars
  <2> QED
    BY <1>5, <2>1, MainFrame, MainKeepsPc
<1>6. CASE PostTask \/ RunTasks \/ Finished \/ UNCHANGED vars
  BY <1>6, TaskFrame DEF Finished, vars, dataVars, runVars, mainVars
<1> QED
  BY <1>1, <1>2, <1>3, <1>4, <1>5, <1>6 DEF Next, MainContinues, MainCalls

PromiseInv == ItemInv /\ OneInHand

\* The last stage writes the next item.
LEMMA WritesNext ==
    ASSUME DataTypeOK, OrderInv, Len(InHand(NumStages)) = 1,
           queue' = [queue EXCEPT ![NumStages] = @ \o InHand(NumStages)]
    PROVE  /\ Len(queue[NumStages]) < sent
           /\ queue'[NumStages] = Append(queue[NumStages], Len(queue[NumStages]) + 1)
<1> DEFINE n == NumStages
<1>1. PICK a \in Positions, o \in Positions : Ordered(a, o)
  BY DEF OrderInv
<1>2. n \in 0..n /\ n - 1 \in 0..n /\ n \in Stage
  BY QueueNumbers
<1>3. a[n] \in Nat /\ o[n - 1] \in Nat /\ o[n - 1] <= sent
  BY <1>1, <1>2, WithinSent DEF Positions
<1>4. /\ queue[n] = Run(0, a[n])
      /\ InHand(n) = Run(a[n], o[n - 1]) /\ a[n] <= o[n - 1]
  BY <1>1, <1>2 DEF Ordered
<1>5. o[n - 1] = a[n] + 1
  <2>1. Len(Run(a[n], o[n - 1])) = o[n - 1] - a[n]
    BY <1>3, <1>4, RunIsSeq
  <2>2. o[n - 1] - a[n] = 1
    BY <1>4, <2>1
  <2> QED
    BY <1>3, <2>2
<1>6. 0 \in Nat /\ 0 <= a[n] /\ a[n] + 1 \in Nat /\ a[n] <= a[n] + 1
  BY <1>3
<1>7. Len(queue[n]) = a[n]
  <2>1. Len(Run(0, a[n])) = a[n] - 0
    BY <1>3, <1>6, RunIsSeq
  <2> QED
    BY <1>3, <1>4, <2>1
<1>8. queue'[n] = queue[n] \o InHand(n)
  BY <1>2 DEF DataTypeOK
<1>9. queue[n] \o InHand(n) = Run(0, a[n] + 1)
  <2>1. Run(0, a[n]) \o Run(a[n], a[n] + 1) = Run(0, a[n] + 1)
    BY <1>3, <1>6, RunConcat
  <2> QED
    BY <1>4, <1>5, <2>1
<1>10. Run(0, a[n] + 1) = Append(Run(0, a[n]), a[n] + 1)
  BY <1>3, <1>6, RunAppend
<1>11. sent \in Nat
  BY DEF DataTypeOK
<1> QED
  BY <1>3, <1>4, <1>5, <1>7, <1>8, <1>9, <1>10, <1>11

LEMMA PromiseStages ==
    ASSUME PromiseInv, PromiseInv', [Next]_vars,
           \/ \E t \in Thread : StagePops(t) \/ StagePushes(t)
           \/ FlushPops \/ FlushPushes \/ TeardownPops \/ TeardownPushes
    PROVE  [Promise!PromiseNext]_(Promise!promiseVars)
<1> DEFINE rows == queue[NumStages]
           Seen == UNCHANGED <<sent, PromisePhase>>
                   /\ (rows' = rows \/ (/\ PromisePhase \in {"open", "flushing"}
                                       /\ Len(rows) < sent
                                       /\ rows' = Append(rows, Len(rows) + 1)))
<1>1. /\ DataTypeOK /\ OrderInv /\ HandShape /\ IInv /\ HandsInv /\ FlushMode
      /\ NumStages \in 0..NumStages /\ NumStages \in Stage
      /\ \A s \in Stage : s - 1 # NumStages /\ s - 1 \in 0..NumStages
      /\ ThreadOf[NumStages] \in Thread
  BY HandCases, QueueNumbers, PipelineAssumption
     DEF PromiseInv, ItemInv, WorkInv, IInv, TypeOK, Stage
<1>2. queue \in [0..NumStages -> Seq(Item)]
  BY <1>1 DEF DataTypeOK
<1>3. ASSUME NEW t \in Thread, StagePops(t) \/ StagePushes(t)
      PROVE  Seen
  <2>1. pc[t] \in {"call", "push"} /\ cur[t] \in Stage /\ ThreadOf[cur[t]] = t
    BY <1>1, <1>3 DEF StagePops, StagePushes, IInv, CursorInv, ThreadCursor, HandsInv,
       OwnCursor
  <2>2. PromisePhase = "open" /\ PromisePhase' = PromisePhase
    <3>1. ~Frozen
      BY <1>1, <2>1 DEF Frozen, IInv, DisablerInv, ThreadsInv, Held, HandshakeInv, PauseInv
    <3>2. mpc # "closed"
      BY <1>1, <2>1, MainAlone DEF MainRuns, FlushMode, FlushPcs
    <3>3. UNCHANGED mainVars
      BY <1>3 DEF StagePops, StagePushes
    <3> QED
      BY <3>1, <3>2, <3>3 DEF PromisePhase, Frozen, mainVars
  <2>3. sent' = sent
    BY <1>3 DEF StagePops, StagePushes
  <2>4. CASE StagePops(t)
    <3>1. rows' = rows
      BY <1>1, <1>2, <2>1, <2>4 DEF StagePops
    <3> QED
      BY <2>2, <2>3, <3>1
  <2>5. CASE StagePushes(t) /\ cur[t] # NumStages
    <3>1. rows' = rows
      BY <1>1, <1>2, <2>1, <2>5 DEF StagePushes
    <3> QED
      BY <2>2, <2>3, <3>1
  <2>6. CASE StagePushes(t) /\ cur[t] = NumStages
    <3>1. mHeld = <<>>
      BY <1>1, <2>1, MainAlone DEF HandsInv, MainHandInv, MainRuns, FlushMode, FlushPcs
    <3>2. InHand(NumStages) = tHeld[t] /\ Len(tHeld[t]) = 1
      BY <1>1, <2>1, <2>6, <3>1 DEF HandShape, PromiseInv, OneInHand, StagePushes
    <3>3. queue' = [queue EXCEPT ![NumStages] = @ \o InHand(NumStages)]
      BY <2>6, <3>2 DEF StagePushes
    <3> QED
      BY <1>1, <2>2, <2>3, <3>2, <3>3, WritesNext
  <2> QED
    BY <1>3, <2>4, <2>5, <2>6
<1>4. ASSUME FlushPops \/ FlushPushes \/ TeardownPops \/ TeardownPushes
      PROVE  Seen
  <2>1. /\ mpc \in {"flush", "flushPush", "teardown", "teardownPush"}
        /\ mpc' \in {"flush", "flushPush"} <=> mpc \in {"flush", "flushPush"}
        /\ mpc' \in {"teardown", "teardownPush"} <=> mpc \in {"teardown", "teardownPush"}
        /\ UNCHANGED <<sent, mode>>
    BY <1>4 DEF FlushPops, FlushPushes, TeardownPops, TeardownPushes, MainPops, MainPushes
  <2>2. PromisePhase \in {"open", "flushing"} /\ PromisePhase' = PromisePhase
    BY <1>1, <2>1 DEF PromisePhase, Frozen, HandsInv, FlushMode, FlushPcs
  <2>3. CASE FlushPops \/ TeardownPops
    <3>1. rows' = rows
      BY <1>1, <1>2, <2>3 DEF FlushPops, TeardownPops, MainPops
    <3> QED
      BY <2>1, <2>2, <3>1
  <2>4. CASE (FlushPushes \/ TeardownPushes) /\ ms # NumStages
    <3>1. rows' = rows
      BY <1>1, <1>2, <2>4 DEF FlushPushes, TeardownPushes, MainPushes
    <3> QED
      BY <2>1, <2>2, <3>1
  <2>5. CASE (FlushPushes \/ TeardownPushes) /\ ms = NumStages
    <3>1. mpc \in {"flushPush", "teardownPush"}
      BY <2>5 DEF FlushPushes, TeardownPushes, MainPushes
    <3>2. tHeld[ThreadOf[NumStages]] = <<>> /\ Len(mHeld) = 1
      BY <1>1, <3>1, MainAlone DEF MainRuns, FlushMode, FlushPcs, PromiseInv, OneInHand
    <3>3. InHand(NumStages) = mHeld
      BY <1>1, <2>5, <3>2 DEF HandShape
    <3>4. queue' = [queue EXCEPT ![NumStages] = @ \o InHand(NumStages)]
      BY <2>5, <3>3 DEF FlushPushes, TeardownPushes, MainPushes
    <3> QED
      BY <1>1, <2>1, <2>2, <3>2, <3>3, <3>4, WritesNext
  <2> QED
    BY <1>4, <2>3, <2>4, <2>5
<1>5. Seen
  BY <1>3, <1>4
<1> QED
  BY <1>5 DEF Promise!PromiseNext, Promise!Write, Promise!promiseVars

\* The steps that write nothing: the phase follows the main thread.
LEMMA PromiseCalls ==
    ASSUME PromiseInv, PromiseInv', MainContinues \/ MainCalls,
           ~FlushPops, ~FlushPushes, ~TeardownPops, ~TeardownPushes
    PROVE  [Promise!PromiseNext]_(Promise!promiseVars)
<1> DEFINE rows == queue[NumStages]
<1> USE DEF Promise!PromiseNext, Promise!promiseVars, PromisePhase, Frozen
<1>1. CASE SubmitItem
  <2>1. rows' = rows
    BY <1>1, QueueNumbers DEF SubmitItem, PromiseInv, ItemInv, WorkInv, IInv, TypeOK, DataTypeOK
  <2>2. UNCHANGED <<mpc, mode>> /\ mpc \in {"idle", "frozen"} /\ sent' = sent + 1
    BY <1>1 DEF SubmitItem, mainVars
  <2> QED
    BY <2>1, <2>2 DEF Promise!Submit
<1>2. CASE PauseAcknowledged
  <2>1. mpc = "awaitAck" /\ mode = "hard"
    BY <1>2 DEF PauseAcknowledged, PromiseInv, ItemInv, WorkInv, IInv, DisablerInv, ModeInv
  <2>2. UNCHANGED <<sent, rows, mode>> /\ mpc' \in {"frozen", "pausing"}
    BY <1>2 DEF PauseAcknowledged, dataVars
  <2> QED
    BY <2>1, <2>2 DEF Promise!Freeze
<1>3. CASE ReleaseDisabler
  <2>1. UNCHANGED <<sent, rows, mode>> /\ mpc = "frozen" /\ mpc' = "resuming"
    BY <1>3 DEF ReleaseDisabler, dataVars
  <2> QED
    BY <2>1 DEF Promise!Thaw
<1>4. CASE BeginFlush
  <2>1. UNCHANGED <<sent, rows, mode>> /\ mpc \in {"idle", "frozen"} /\ mpc' = "lockDb"
    BY <1>4 DEF BeginFlush, dataVars
  <2>2. mode = "hard"
    BY <2>1 DEF PromiseInv, ItemInv, FlushMode, FlushPcs
  <2>3. mpc = "frozen"
    BY <2>1, <2>2 DEF PromiseInv, ItemInv, WorkInv, IInv, DisablerInv, ModeInv, ActivePcs, FlushPcs
  <2> QED
    BY <2>1, <2>2, <2>3 DEF Promise!BeginFlush
<1>5. CASE EndFlush
  <2>1. UNCHANGED <<sent, rows, mode>> /\ mpc = "flushed"
        /\ mpc' = IF mode = "none" THEN "idle" ELSE "frozen"
    BY <1>5 DEF EndFlush, dataVars
  <2>2. mode = "hard"
    BY <2>1 DEF PromiseInv, ItemInv, FlushMode, FlushPcs
  <2>3. Len(rows) = sent
    <3>1. Drained /\ mHeld = <<>>
      BY <2>1, <2>2
         DEF PromiseInv, ItemInv, WorkInv, DrainInv, FlushDrain, HandsInv, MainHandInv
    <3>2. \A t \in Thread : tHeld[t] = <<>>
      BY <2>1, MainAlone DEF PromiseInv, ItemInv, WorkInv, MainRuns, FlushMode, FlushPcs
    <3> QED
      BY <3>1, <3>2, Settled DEF PromiseInv, ItemInv, WorkInv, IInv, TypeOK
  <2> QED
    BY <2>1, <2>2, <2>3 DEF Promise!EndFlush, Promise!Complete
<1>6. CASE LockForFlush \/ FlushNextStage
  <2>1. /\ UNCHANGED <<sent, rows, mode>>
        /\ mpc \in {"lockDb", "flush"} /\ mpc' \in {"flush", "flushed"}
    BY <1>6 DEF LockForFlush, FlushNextStage, dataVars
  <2> QED
    BY <2>1
<1>7. CASE TeardownNextStage
  <2>1. /\ UNCHANGED <<sent, queue, mode>>
        /\ mpc = "teardown" /\ mpc' \in {"teardown", "closed"}
    BY <1>7 DEF TeardownNextStage, dataVars
  <2>2. CASE mpc' = "teardown"
    BY <2>1, <2>2
  <2>3. CASE mpc' = "closed"
    <3>1. Drained /\ mHeld = <<>>
      <4>1. Drained'
        BY <2>3 DEF PromiseInv, ItemInv, WorkInv, DrainInv, TeardownDrain
      <4> QED
        BY <2>1, <4>1 DEF Drained, PromiseInv, ItemInv, WorkInv, HandsInv, MainHandInv
    <3>2. \A t \in Thread : tHeld[t] = <<>>
      BY <2>1, MainAlone DEF PromiseInv, ItemInv, WorkInv, MainRuns, FlushMode, FlushPcs
    <3>3. Len(rows) = sent
      BY <3>1, <3>2, Settled DEF PromiseInv, ItemInv, WorkInv, IInv, TypeOK
    <3> QED
      BY <2>1, <2>3, <3>3 DEF Promise!Close, Promise!Complete
  <2> QED
    BY <2>1, <2>2, <2>3
<1>8. ASSUME ~SubmitItem, ~PauseAcknowledged, ~ReleaseDisabler, ~BeginFlush, ~EndFlush,
             ~LockForFlush, ~FlushNextStage, ~TeardownNextStage
      PROVE  UNCHANGED <<sent, rows, PromisePhase>>
  <2>1. /\ UNCHANGED <<sent, rows>>
        /\ mpc \notin {"frozen", "lockDb", "flush", "flushPush", "flushed", "closed"}
        /\ mpc' \notin {"lockDb", "flush", "flushPush", "flushed", "closed"}
        /\ mpc' = "frozen" => mode' # "hard"
    BY <1>8 DEF MainContinues, MainCalls, OpenThread, DisableStage, DisabledThread,
       RequestPause, PauseNotify, ResumeThread, ResumeNotify, ResumedAll, EnableStage,
       EnabledAll, RequestStop, CloseNotify, JoinThread, ScopedDisableAll,
       BeginTeardown, dataVars
  <2> QED
    BY <2>1
<1> QED
  BY <1>1, <1>2, <1>3, <1>4, <1>5, <1>6, <1>7, <1>8

LEMMA PromiseStep ==
    ASSUME PromiseInv, PromiseInv', [Next]_vars
    PROVE  [Promise!PromiseNext]_(Promise!promiseVars)
<1> DEFINE rows == queue[NumStages]
           StageStep == \/ \E t \in Thread : StagePops(t) \/ StagePushes(t)
                        \/ FlushPops \/ FlushPushes \/ TeardownPops \/ TeardownPushes
<1>1. CASE StageStep
  BY <1>1, PromiseStages
<1>2. ASSUME NEW t \in Thread, ThreadStep(t) \/ Unpark(t), ~StagePops(t), ~StagePushes(t)
      PROVE  UNCHANGED <<sent, rows, PromisePhase>>
  <2>1. UNCHANGED <<dataVars, mainVars>>
    BY <1>2 DEF ThreadStep, LeaveLoop, Park, EnterRun, BeginRun, SkipDisabled, CallStage,
       StageSleeps, YieldToEval, KeepPolling, EndRound, ReturnFromRun, WakeFromNap,
       Unpark
  <2> QED
    BY <2>1 DEF dataVars, mainVars, PromisePhase, Frozen
<1>3. CASE (MainContinues \/ MainCalls) /\ ~StageStep
  BY <1>3, PromiseCalls
<1>4. ASSUME PostTask \/ RunTasks \/ Finished \/ UNCHANGED vars
      PROVE  UNCHANGED <<sent, rows, PromisePhase>>
  BY <1>4, TaskFrame DEF Finished, vars, dataVars, mainVars, PromisePhase, Frozen
<1> QED
  BY <1>1, <1>2, <1>3, <1>4 DEF Next, Promise!promiseVars

\* The running pipeline, with its threads, disablers, drain loops, flush and teardown,
\* implements PipelinePromise: rows appear one at a time in submission order, none while
\* the pipeline is frozen and not flushing, and a flush and the teardown end only when
\* the table is complete.
THEOREM PipelineKeepsPromise ==
    ASSUME ~FlushUnfrozen
    PROVE  Spec => KeepsPromise
<1>1. Init => PromiseInv
  BY ItemInit DEF PromiseInv, OneInHand, Init
<1>2. PromiseInv /\ [Next]_vars => PromiseInv'
  BY ItemStep, OneInHandStep DEF PromiseInv, ItemInv, WorkInv, IInv
<1>3. Init => Promise!PromiseInit
  BY QueueNumbers DEF Init, Promise!PromiseInit, PromisePhase, Frozen
<1>4. PromiseInv /\ PromiseInv' /\ [Next]_vars
         => [Promise!PromiseNext]_(Promise!promiseVars)
  BY PromiseStep
<1> QED
  BY <1>1, <1>2, <1>3, <1>4, PTL DEF Spec, KeepsPromise, Promise!PromiseSpec
================================================================================
