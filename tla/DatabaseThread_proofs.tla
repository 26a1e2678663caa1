-------------------------- MODULE DatabaseThread_proofs --------------------------
(***************************************************************************)
(* Proofs about DatabaseThread, for every set of callers and every number  *)
(* of calls, items and BUSY answers.                                       *)
(***************************************************************************)
EXTENDS DatabaseThread, SequenceTheorems, FiniteSetTheorems, TLAPS

--------------------------------------------------------------------------------
(***************************************************************************)
(* The inductive invariant.                                                *)
(***************************************************************************)
\* A call has a task, and so has the dormant thread between popping and answering.
CallInv ==
    /\ \A c \in Caller : callPc[c] # "idle" => current[c] \in Task
    /\ dpc \in {"run", "answer", "fail"} => task \in Task

WriterBody == {"poll", "insert", "check", "commit"}
DormantBody == {"drain", "run", "answer", "fail", "commit"}
InlineBody == {"inlineRun", "inlineCommit"}

\* Who is inside a transaction.
OwnerInv ==
    /\ (owner = "writer") <=> (wpc \in WriterBody)
    /\ (owner = "dormant") <=> (dpc \in DormantBody)
    /\ (owner = "flush") <=> (mpc = "flushing")
    /\ \A c \in Caller : (owner = c) <=> (callPc[c] \in InlineBody)

\* Nothing is half written outside a transaction.
CleanInv == owner = "free" => txn = <<>> /\ \A t \in Task : effect[t] # "open"

\* A row begun while a task waits is the last one: the task is still waiting when the
\* writer looks.
LateInv ==
    /\ wpc = "poll" => late = 0
    /\ wpc \in {"insert", "check"} /\ late # 0 => late = 1 /\ pending # <<>>
    /\ late <= 1

\* A thread that has not been opened has not started.
OpenInv ==
    /\ mpc = "opening" => wpc = "off"
    /\ mpc \in {"opening", "openDormant"} => dpc = "off"

IInv == TypeOK /\ CallInv /\ OpenInv /\ OwnerInv /\ CleanInv /\ LateInv
--------------------------------------------------------------------------------
(***************************************************************************)
(* Types.                                                                  *)
(***************************************************************************)
LEMMA ItemsTyped ==
    ASSUME NEW s \in Seq(Item)
    PROVE  Items(s) \in SUBSET Item
  BY DEF Items

LEMMA CommitTyped ==
    ASSUME ConnTypeOK, NEW who, Commit(who)
    PROVE  ConnTypeOK'
<1>1. table \o txn \in Seq(Item) /\ <<>> \in Seq(Item)
  BY DEF ConnTypeOK
<1> QED
  BY <1>1 DEF Commit, ConnTypeOK

LEMMA BeginTyped ==
    ASSUME ConnTypeOK, NEW who \in {"writer", "dormant", "flush"} \cup Caller, Begin(who)
    PROVE  ConnTypeOK'
  BY DEF Begin, ConnTypeOK

LEMMA RollbackTyped ==
    ASSUME ConnTypeOK, ItemTypeOK, NEW who, Rollback(who), busy' \in 0..MaxBusy
    PROVE  ConnTypeOK'
<1>1. txn \o hand \in Seq(Item) /\ <<>> \in Seq(Item)
  BY DEF ConnTypeOK, ItemTypeOK
<1>2. Items(txn \o hand) \in SUBSET Item
  BY <1>1, ItemsTyped
<1> QED
  BY <1>1, <1>2 DEF Rollback, ConnTypeOK

LEMMA BusyTyped ==
    ASSUME ConnTypeOK, ItemTypeOK, NEW who, Busy(who)
    PROVE  ConnTypeOK'
<1>1. busy' \in 0..MaxBusy
  BY DatabaseAssumption DEF Busy, ConnTypeOK
<1> QED
  BY <1>1, RollbackTyped DEF Busy

LEMMA ConnTypeStep ==
    ASSUME TypeOK, CallInv, [Next]_vars
    PROVE  ConnTypeOK'
<1> USE DEF TypeOK
<1>1. CASE WriterBegins \/ DormantBegins \/ FlushBegins \/ \E c \in Caller : InlineBegins(c)
  BY <1>1, BeginTyped DEF WriterBegins, DormantBegins, FlushBegins, InlineBegins
<1>2. CASE WriterCommits \/ DormantCommits \/ FlushCommits \/ \E c \in Caller : InlineCommits(c)
  BY <1>2, CommitTyped DEF WriterCommits, DormantCommits, FlushCommits, InlineCommits
<1>3. CASE BusyStep
  BY <1>3, BusyTyped DEF BusyStep, WriterBusy, DormantBusy, FlushBusy, InlineBusy
<1>4. ASSUME NEW c \in Caller, InlineThrows(c) PROVE ConnTypeOK'
  <2>1. busy' \in 0..MaxBusy
    BY <1>4 DEF InlineThrows, ConnTypeOK
  <2> QED
    BY <1>4, <2>1, RollbackTyped DEF InlineThrows
<1>5. ASSUME NEW c \in Caller, InlineRuns(c) PROVE ConnTypeOK'
  BY <1>5 DEF InlineRuns, ConnTypeOK
<1>6. CASE DormantRuns
  BY <1>6 DEF DormantRuns, ConnTypeOK
<1>7. CASE WriterInserts
  <2>1. txn \o hand \in Seq(Item)
    BY DEF ConnTypeOK, ItemTypeOK
  <2> QED
    BY <1>7, <2>1 DEF WriterInserts, ConnTypeOK
<1>8. CASE FlushInserts
  <2>1. Append(txn, Head(input)) \in Seq(Item)
    BY <1>8 DEF FlushInserts, ConnTypeOK, ItemTypeOK
  <2> QED
    BY <1>8, <2>1 DEF FlushInserts, ConnTypeOK
<1>9. CASE \/ Arrive \/ WriterEnters \/ WriterPops \/ WriterSleeps \/ WriterChecks
           \/ WriterWakes \/ DormantTests \/ DormantDozes \/ DormantPops
           \/ DormantAnswers \/ DormantDrained \/ DormantWakes \/ OpenWriter
           \/ OpenDormant \/ JoinWriter \/ CloseNotify \/ JoinDormant \/ StopWriter
           \/ StopDormant \/ Finished \/ UNCHANGED vars
  <2>1. UNCHANGED connVars
    BY <1>9 DEF Arrive, WriterEnters, WriterPops, WriterSleeps, WriterChecks,
         WriterWakes, DormantTests, DormantDozes, DormantPops, DormantAnswers,
         DormantDrained, DormantWakes, OpenWriter, OpenDormant, JoinWriter, CloseNotify,
         JoinDormant, StopWriter, StopDormant, Finished, vars
  <2> QED
    BY <2>1 DEF connVars, ConnTypeOK
<1>10. ASSUME NEW c \in Caller,
              CallEval(c) \/ Emplace(c) \/ Notify(c) \/ GetAnswer(c) \/ TimedOut(c)
       PROVE  ConnTypeOK'
  BY <1>10 DEF CallEval, Emplace, Notify, GetAnswer, TimedOut, connVars, ConnTypeOK
<1> QED
  BY <1>1, <1>2, <1>3, <1>4, <1>5, <1>6, <1>7, <1>8, <1>9, <1>10
     DEF Next, WriterStep, CallerStep, DormantStep, MainStep

LEMMA ItemTypeStep ==
    ASSUME TypeOK, [Next]_vars
    PROVE  ItemTypeOK'
<1> USE DEF TypeOK, ItemTypeOK
<1>1. CASE Arrive
  <2>1. sent + 1 \in Item /\ sent + 1 \in 0..MaxItems
    BY <1>1, DatabaseAssumption DEF Arrive, Item
  <2> QED
    BY <1>1, <2>1 DEF Arrive
<1>2. CASE WriterPops
  BY <1>2 DEF WriterPops
<1>3. CASE WriterInserts \/ WriterBusy
  <2>1. hand' = <<>> /\ sent' = sent /\ input' = input
    BY <1>3 DEF WriterInserts, WriterBusy
  <2>2. <<>> \in Seq(Item)
    OBVIOUS
  <2> QED
    BY <2>1, <2>2
<1>4. CASE FlushInserts
  BY <1>4 DEF FlushInserts
<1>5. CASE \/ WriterEnters \/ WriterBegins \/ WriterSleeps \/ WriterChecks
           \/ WriterCommits \/ WriterWakes \/ DormantStep \/ DormantBegins
           \/ DormantWakes \/ OpenWriter \/ OpenDormant \/ JoinWriter \/ CloseNotify
           \/ JoinDormant \/ FlushCommits \/ StopWriter \/ StopDormant \/ FlushBegins
           \/ DormantBusy \/ FlushBusy \/ Finished \/ UNCHANGED vars
  <2>1. UNCHANGED itemVars
    BY <1>5 DEF WriterEnters, WriterBegins, WriterSleeps, WriterChecks, WriterCommits,
         WriterWakes, DormantStep, DormantTests, DormantDozes, DormantPops, DormantRuns,
         DormantAnswers, DormantDrained, DormantCommits, DormantBegins, DormantWakes,
         OpenWriter, OpenDormant, JoinWriter, CloseNotify, JoinDormant, FlushCommits,
         StopWriter, StopDormant, FlushBegins, DormantBusy, FlushBusy, Finished, vars
  <2> QED
    BY <2>1 DEF itemVars
<1>6. ASSUME NEW c \in Caller,
             CallEval(c) \/ CallerStep(c) \/ InlineBegins(c) \/ InlineBusy(c)
      PROVE  ItemTypeOK'
  BY <1>6 DEF CallEval, CallerStep, Emplace, Notify, GetAnswer, TimedOut, InlineRuns,
       InlineThrows, InlineCommits, InlineBegins, InlineBusy, itemVars
<1> QED
  BY <1>1, <1>2, <1>3, <1>4, <1>5, <1>6 DEF Next, WriterStep, MainStep, BusyStep

\* The writer's own variables change in its own steps only.
LEMMA WriterFrame ==
    ASSUME [Next]_vars,
           ~(\/ WriterEnters \/ WriterBegins \/ WriterPops \/ WriterSleeps
             \/ WriterInserts \/ WriterChecks \/ WriterCommits \/ WriterBusy
             \/ WriterWakes \/ OpenWriter \/ StopWriter)
    PROVE  UNCHANGED writerVars
<1>1. CASE Arrive \/ Finished \/ UNCHANGED vars
  BY <1>1 DEF Arrive, Finished, vars
<1>2. CASE DormantStep \/ DormantBegins \/ DormantWakes \/ DormantBusy
  BY <1>2 DEF DormantStep, DormantTests, DormantDozes, DormantPops, DormantRuns,
       DormantAnswers, DormantDrained, DormantCommits, DormantBegins, DormantWakes,
       DormantBusy
<1>3. CASE \/ OpenDormant \/ JoinWriter \/ CloseNotify \/ JoinDormant \/ FlushInserts
           \/ FlushCommits \/ StopDormant \/ FlushBegins \/ FlushBusy
  BY <1>3 DEF OpenDormant, JoinWriter, CloseNotify, JoinDormant, FlushInserts,
       FlushCommits, StopDormant, FlushBegins, FlushBusy
<1>4. ASSUME NEW c \in Caller,
             CallEval(c) \/ CallerStep(c) \/ InlineBegins(c) \/ InlineBusy(c)
      PROVE  UNCHANGED writerVars
  BY <1>4 DEF CallEval, CallerStep, Emplace, Notify, GetAnswer, TimedOut, InlineRuns,
       InlineThrows, InlineCommits, InlineBegins, InlineBusy
<1> QED
  BY <1>1, <1>2, <1>3, <1>4 DEF Next, WriterStep, MainStep, BusyStep

LEMMA WriterTypeStep ==
    ASSUME TypeOK, [Next]_vars
    PROVE  WriterTypeOK'
<1> USE DEF TypeOK, WriterTypeOK
<1>1. CASE WriterEnters
  <2>1. wDrain' \in BOOLEAN /\ wDidWork' \in BOOLEAN
    BY <1>1 DEF WriterEnters
  <2> QED
    BY <1>1, <2>1 DEF WriterEnters
<1>2. CASE WriterBegins
  BY <1>2 DEF WriterBegins
<1>3. CASE WriterPops
  BY <1>3 DEF WriterPops
<1>4. CASE WriterSleeps \/ WriterInserts
  BY <1>4 DEF WriterSleeps, WriterInserts
<1>5. CASE WriterChecks
  BY <1>5 DEF WriterChecks
<1>6. CASE WriterCommits
  BY <1>6 DEF WriterCommits, AfterRun
<1>7. CASE WriterBusy \/ WriterWakes \/ OpenWriter \/ StopWriter
  BY <1>7 DEF WriterBusy, WriterWakes, OpenWriter, StopWriter
<1>8. CASE UNCHANGED writerVars
  BY <1>8 DEF writerVars
<1> QED
  BY <1>1, <1>2, <1>3, <1>4, <1>5, <1>6, <1>7, <1>8, WriterFrame

\* The variables of eval() change in eval() only.
LEMMA CallFrame ==
    ASSUME [Next]_vars,
           ~ \E c \in Caller : CallEval(c) \/ CallerStep(c) \/ InlineBegins(c) \/ InlineBusy(c)
    PROVE  UNCHANGED callVars
<1>1. CASE Arrive \/ Finished \/ UNCHANGED vars
  BY <1>1 DEF Arrive, Finished, vars
<1>2. CASE WriterStep \/ WriterBegins \/ WriterBusy
  BY <1>2 DEF WriterStep, WriterEnters, WriterPops, WriterSleeps, WriterInserts,
       WriterChecks, WriterCommits, WriterWakes, WriterBegins, WriterBusy
<1>3. CASE DormantStep \/ DormantBegins \/ DormantWakes \/ DormantBusy
  BY <1>3 DEF DormantStep, DormantTests, DormantDozes, DormantPops, DormantRuns,
       DormantAnswers, DormantDrained, DormantCommits, DormantBegins, DormantWakes,
       DormantBusy
<1>4. CASE MainStep \/ StopWriter \/ StopDormant \/ FlushBegins \/ FlushBusy
  BY <1>4 DEF MainStep, OpenWriter, OpenDormant, JoinWriter, CloseNotify, JoinDormant,
       FlushInserts, FlushCommits, StopWriter, StopDormant, FlushBegins, FlushBusy
<1> QED
  BY <1>1, <1>2, <1>3, <1>4 DEF Next, BusyStep

LEMMA CallTypeStep ==
    ASSUME TypeOK, CallInv, [Next]_vars
    PROVE  CallTypeOK'
<1> USE DEF TypeOK, CallTypeOK
<1>1. ASSUME NEW c \in Caller, CallEval(c) PROVE CallTypeOK'
  <2>1. calls + 1 \in 0..MaxCalls
    BY <1>1, DatabaseAssumption DEF CallEval
  <2> QED
    BY <1>1, <2>1 DEF CallEval, Move
<1>2. ASSUME NEW c \in Caller, Emplace(c) \/ Notify(c) \/ InlineBegins(c)
                               \/ InlineRuns(c) \/ InlineBusy(c)
      PROVE  CallTypeOK'
  BY <1>2 DEF Emplace, Notify, InlineBegins, InlineRuns, InlineBusy, Move
<1>3. ASSUME NEW c \in Caller, GetAnswer(c) \/ TimedOut(c) \/ InlineThrows(c)
                               \/ InlineCommits(c)
      PROVE  CallTypeOK'
  <2>1. current[c] \in Task
    BY <1>3 DEF CallInv, GetAnswer, TimedOut, InlineThrows, InlineCommits
  <2>2. PICK outcome \in {"ok", "error", "timeout"} : Return(c, outcome)
    BY <1>3, <2>1 DEF GetAnswer, TimedOut, InlineThrows, InlineCommits, TaskTypeOK
  <2>3. calls' = calls
    BY <1>3 DEF GetAnswer, TimedOut, InlineThrows, InlineCommits
  <2>4. 0 \in 0..MaxCalls
    BY DatabaseAssumption
  <2> QED
    BY <2>2, <2>3, <2>4 DEF Return, Move
<1>4. CASE UNCHANGED callVars
  BY <1>4 DEF callVars
<1> QED
  BY <1>1, <1>2, <1>3, <1>4, CallFrame DEF CallerStep

\* Only eval() and the dormant thread touch the tasks.
LEMMA TaskFrame ==
    ASSUME [Next]_vars,
           ~(DormantPops \/ DormantRuns \/ DormantAnswers \/ \E c \in Caller : Emplace(c))
    PROVE  UNCHANGED taskVars
<1>1. CASE Arrive \/ Finished \/ UNCHANGED vars
  BY <1>1 DEF Arrive, Finished, vars
<1>2. CASE WriterStep \/ WriterBegins \/ WriterBusy
  BY <1>2 DEF WriterStep, WriterEnters, WriterPops, WriterSleeps, WriterInserts,
       WriterChecks, WriterCommits, WriterWakes, WriterBegins, WriterBusy
<1>3. CASE \/ DormantTests \/ DormantDozes \/ DormantDrained \/ DormantCommits
           \/ DormantBegins \/ DormantWakes \/ DormantBusy
  BY <1>3 DEF DormantTests, DormantDozes, DormantDrained, DormantCommits, DormantBegins,
       DormantWakes, DormantBusy
<1>4. CASE MainStep \/ StopWriter \/ StopDormant \/ FlushBegins \/ FlushBusy
  BY <1>4 DEF MainStep, OpenWriter, OpenDormant, JoinWriter, CloseNotify, JoinDormant,
       FlushInserts, FlushCommits, StopWriter, StopDormant, FlushBegins, FlushBusy
<1>5. ASSUME NEW c \in Caller,
             \/ CallEval(c) \/ Notify(c) \/ GetAnswer(c) \/ TimedOut(c) \/ InlineRuns(c)
             \/ InlineThrows(c) \/ InlineCommits(c) \/ InlineBegins(c) \/ InlineBusy(c)
      PROVE  UNCHANGED taskVars
  BY <1>5 DEF CallEval, Notify, GetAnswer, TimedOut, InlineRuns, InlineThrows,
       InlineCommits, InlineBegins, InlineBusy
<1> QED
  BY <1>1, <1>2, <1>3, <1>4, <1>5 DEF Next, BusyStep, CallerStep, DormantStep

LEMMA TaskTypeStep ==
    ASSUME TypeOK, CallInv, [Next]_vars
    PROVE  TaskTypeOK'
<1> USE DEF TypeOK, TaskTypeOK
<1>1. CASE DormantPops
  BY <1>1 DEF DormantPops
<1>2. CASE DormantRuns
  <2>1. task \in Task /\ ran[task] + 1 \in Nat
    BY <1>2 DEF DormantRuns, CallInv
  <2> QED
    BY <1>2, <2>1 DEF DormantRuns
<1>3. CASE DormantAnswers
  BY <1>3 DEF DormantAnswers
<1>4. ASSUME NEW c \in Caller, Emplace(c) PROVE TaskTypeOK'
  <2>1. current[c] \in Task
    BY <1>4 DEF CallInv, Emplace
  <2> QED
    BY <1>4, <2>1 DEF Emplace
<1>5. CASE UNCHANGED taskVars
  BY <1>5 DEF taskVars
<1> QED
  BY <1>1, <1>2, <1>3, <1>4, <1>5, TaskFrame

\* The dormant thread's own variables, a notification aside.
LEMMA DormantFrame ==
    ASSUME [Next]_vars, ~(DormantStep \/ DormantBegins \/ DormantWakes \/ DormantBusy
                          \/ OpenDormant)
    PROVE  UNCHANGED <<dpc, task>> /\ (notified' = notified \/ NotifyDormant)
<1>1. CASE Arrive \/ Finished \/ UNCHANGED vars
  BY <1>1 DEF Arrive, Finished, vars, dormantVars
<1>2. CASE WriterStep \/ WriterBegins \/ WriterBusy
  BY <1>2 DEF WriterStep, WriterEnters, WriterPops, WriterSleeps, WriterInserts,
       WriterChecks, WriterCommits, WriterWakes, WriterBegins, WriterBusy, dormantVars
<1>3. CASE \/ OpenWriter \/ JoinWriter \/ CloseNotify \/ JoinDormant \/ FlushInserts
           \/ FlushCommits \/ StopWriter \/ StopDormant \/ FlushBegins \/ FlushBusy
  BY <1>3 DEF OpenWriter, JoinWriter, CloseNotify, JoinDormant, FlushInserts,
       FlushCommits, StopWriter, StopDormant, FlushBegins, FlushBusy, dormantVars
<1>4. ASSUME NEW c \in Caller,
             CallEval(c) \/ CallerStep(c) \/ InlineBegins(c) \/ InlineBusy(c)
      PROVE  UNCHANGED <<dpc, task>> /\ (notified' = notified \/ NotifyDormant)
  BY <1>4 DEF CallEval, CallerStep, Emplace, Notify, GetAnswer, TimedOut, InlineRuns,
       InlineThrows, InlineCommits, InlineBegins, InlineBusy, dormantVars
<1> QED
  BY <1>1, <1>2, <1>3, <1>4 DEF Next, MainStep, BusyStep

LEMMA DormantTypeStep ==
    ASSUME TypeOK, [Next]_vars
    PROVE  DormantTypeOK'
<1> USE DEF TypeOK, DormantTypeOK
<1>1. CASE DormantTests \/ DormantDozes \/ DormantDrained \/ DormantWakes \/ DormantBegins
  BY <1>1 DEF DormantTests, DormantDozes, DormantDrained, DormantWakes, DormantBegins
<1>2. CASE DormantPops
  <2>1. Head(pending) \in Task
    BY <1>2 DEF DormantPops, TaskTypeOK
  <2>2. Head(pending) \in 0..MaxCalls
    BY <2>1, DatabaseAssumption DEF Task
  <2> QED
    BY <1>2, <2>2 DEF DormantPops
<1>3. CASE DormantRuns
  BY <1>3 DEF DormantRuns
<1>4. CASE DormantAnswers
  BY <1>4, DatabaseAssumption DEF DormantAnswers
<1>5. CASE DormantCommits \/ DormantBusy \/ OpenDormant
  BY <1>5 DEF DormantCommits, DormantBusy, OpenDormant
<1>6. CASE UNCHANGED <<dpc, task>> /\ (notified' = notified \/ NotifyDormant)
  BY <1>6 DEF NotifyDormant
<1> QED
  BY <1>1, <1>2, <1>3, <1>4, <1>5, <1>6, DormantFrame DEF DormantStep

LEMMA OtherTypeStep ==
    ASSUME TypeOK, [Next]_vars
    PROVE  /\ stop' \in BOOLEAN
           /\ mpc' \in {"opening", "openDormant", "running", "joinWriter", "stopDormant",
                        "notifyDormant", "joinDormant", "flush", "flushing", "closed"}
<1> USE DEF TypeOK
<1>1. CASE Arrive \/ Finished \/ UNCHANGED vars
  BY <1>1 DEF Arrive, Finished, vars
<1>2. CASE WriterStep \/ WriterBegins \/ WriterBusy
  BY <1>2 DEF WriterStep, WriterEnters, WriterPops, WriterSleeps, WriterInserts,
       WriterChecks, WriterCommits, WriterWakes, WriterBegins, WriterBusy
<1>3. CASE DormantStep \/ DormantBegins \/ DormantWakes \/ DormantBusy
  BY <1>3 DEF DormantStep, DormantTests, DormantDozes, DormantPops, DormantRuns,
       DormantAnswers, DormantDrained, DormantCommits, DormantBegins, DormantWakes,
       DormantBusy
<1>4. CASE MainStep \/ StopWriter \/ StopDormant \/ FlushBegins \/ FlushBusy
  BY <1>4 DEF MainStep, OpenWriter, OpenDormant, JoinWriter, CloseNotify, JoinDormant,
       FlushInserts, FlushCommits, StopWriter, StopDormant, FlushBegins, FlushBusy
<1>5. ASSUME NEW c \in Caller,
             CallEval(c) \/ CallerStep(c) \/ InlineBegins(c) \/ InlineBusy(c)
      PROVE  stop' = stop /\ mpc' = mpc
  BY <1>5 DEF CallEval, CallerStep, Emplace, Notify, GetAnswer, TimedOut, InlineRuns,
       InlineThrows, InlineCommits, InlineBegins, InlineBusy
<1> QED
  BY <1>1, <1>2, <1>3, <1>4, <1>5 DEF Next, BusyStep

LEMMA TypeStep ==
    ASSUME TypeOK, CallInv, [Next]_vars
    PROVE  TypeOK'
<1>1. ConnTypeOK' /\ ItemTypeOK' /\ WriterTypeOK'
  BY ConnTypeStep, ItemTypeStep, WriterTypeStep
<1>2. CallTypeOK' /\ TaskTypeOK' /\ DormantTypeOK'
  BY CallTypeStep, TaskTypeStep, DormantTypeStep
<1> QED
  BY <1>1, <1>2, OtherTypeStep DEF TypeOK
--------------------------------------------------------------------------------
(***************************************************************************)
(* The rest of the invariant, conjunct by conjunct.                        *)
(***************************************************************************)
LEMMA CallInvStep ==
    ASSUME TypeOK, CallInv, [Next]_vars
    PROVE  CallInv'
<1> USE DEF TypeOK, CallInv, CallTypeOK
<1>1. \A c \in Caller : callPc'[c] # "idle" => current'[c] \in Task
  <2>1. ASSUME NEW c \in Caller, CallEval(c)
        PROVE  \A d \in Caller : callPc'[d] # "idle" => current'[d] \in Task
    <3>1. calls + 1 \in Task
      BY <2>1, DatabaseAssumption DEF CallEval, Task
    <3> QED
      BY <2>1, <3>1 DEF CallEval, Move
  <2>2. ASSUME NEW c \in Caller, Emplace(c) \/ Notify(c) \/ InlineBegins(c)
                                 \/ InlineRuns(c) \/ InlineBusy(c)
        PROVE  \A d \in Caller : callPc'[d] # "idle" => current'[d] \in Task
    BY <2>2 DEF Emplace, Notify, InlineBegins, InlineRuns, InlineBusy, Move
  <2>3. ASSUME NEW c \in Caller, GetAnswer(c) \/ TimedOut(c) \/ InlineThrows(c)
                                 \/ InlineCommits(c)
        PROVE  \A d \in Caller : callPc'[d] # "idle" => current'[d] \in Task
    BY <2>3 DEF GetAnswer, TimedOut, InlineThrows, InlineCommits, Return, Move
  <2>4. CASE UNCHANGED callVars
    BY <2>4 DEF callVars
  <2> QED
    BY <2>1, <2>2, <2>3, <2>4, CallFrame DEF CallerStep
<1>2. dpc' \in {"run", "answer", "fail"} => task' \in Task
  <2>1. CASE DormantPops
    <3>1. Head(pending) \in Task
      BY <2>1 DEF DormantPops, TaskTypeOK
    <3> QED
      BY <2>1, <3>1 DEF DormantPops
  <2>2. CASE DormantRuns
    BY <2>2 DEF DormantRuns
  <2>3. CASE \/ DormantTests \/ DormantDozes \/ DormantAnswers \/ DormantDrained
             \/ DormantCommits \/ DormantBegins \/ DormantWakes \/ DormantBusy
             \/ OpenDormant
    BY <2>3 DEF DormantTests, DormantDozes, DormantAnswers, DormantDrained,
         DormantCommits, DormantBegins, DormantWakes, DormantBusy, OpenDormant
  <2>4. CASE UNCHANGED <<dpc, task>>
    BY <2>4
  <2> QED
    BY <2>1, <2>2, <2>3, <2>4, DormantFrame DEF DormantStep
<1> QED
  BY <1>1, <1>2

\* Writer, dormant thread, flush and callers are told apart.
LEMMA ActorsDiffer ==
    /\ \A c \in Caller : c \notin {"free", "writer", "dormant", "flush"}
    /\ "free" \notin {"writer", "dormant", "flush"} \cup Caller
  BY DatabaseAssumption

\* The steps that leave alone who is inside a transaction.
LEMMA OwnerFrame ==
    ASSUME OwnerInv,
           owner' = owner,
           (wpc' \in WriterBody) = (wpc \in WriterBody),
           (dpc' \in DormantBody) = (dpc \in DormantBody),
           (mpc' = "flushing") = (mpc = "flushing"),
           \A c \in Caller : (callPc'[c] \in InlineBody) = (callPc[c] \in InlineBody)
    PROVE  OwnerInv'
  BY DEF OwnerInv

LEMMA OwnerInvStep ==
    ASSUME TypeOK, OpenInv, OwnerInv, [Next]_vars
    PROVE  OwnerInv'
<1> USE DEF WriterBody, DormantBody, InlineBody
<1> DEFINE SameWriter == (wpc' \in WriterBody) = (wpc \in WriterBody)
           SameDormant == (dpc' \in DormantBody) = (dpc \in DormantBody)
           SameMain == (mpc' = "flushing") = (mpc = "flushing")
           SameCalls == \A c \in Caller : (callPc'[c] \in InlineBody) = (callPc[c] \in InlineBody)
           Same == owner' = owner /\ SameWriter /\ SameDormant /\ SameMain /\ SameCalls
\* The writer.
<1>1. CASE WriterBegins
  BY <1>1, ActorsDiffer DEF WriterBegins, Begin, OwnerInv, callVars, dormantVars
<1>2. CASE WriterCommits
  BY <1>2, ActorsDiffer DEF WriterCommits, Commit, AfterRun, OwnerInv, callVars, dormantVars
<1>3. CASE WriterBusy
  BY <1>3, ActorsDiffer DEF WriterBusy, Busy, Rollback, OwnerInv, callVars, dormantVars
<1>4. CASE \/ Arrive \/ WriterEnters \/ WriterPops \/ WriterSleeps \/ WriterInserts
           \/ WriterChecks \/ WriterWakes \/ Finished \/ UNCHANGED vars
  <2>1. Same
    BY <1>4 DEF Arrive, WriterEnters, WriterPops, WriterSleeps, WriterInserts,
         WriterChecks, WriterWakes, Finished, vars, connVars, callVars, dormantVars,
         writerVars
  <2> QED
    BY <2>1, OwnerFrame
\* The dormant thread.
<1>5. CASE DormantBegins
  BY <1>5, ActorsDiffer DEF DormantBegins, Begin, OwnerInv, callVars, writerVars
<1>6. CASE DormantCommits
  BY <1>6, ActorsDiffer DEF DormantCommits, Commit, OwnerInv, callVars, writerVars
<1>7. CASE DormantBusy
  BY <1>7, ActorsDiffer DEF DormantBusy, Busy, Rollback, OwnerInv, callVars, writerVars
<1>8. CASE \/ DormantTests \/ DormantDozes \/ DormantPops \/ DormantRuns
           \/ DormantAnswers \/ DormantDrained \/ DormantWakes
  <2>1. Same
    BY <1>8 DEF DormantTests, DormantDozes, DormantPops, DormantRuns, DormantAnswers,
         DormantDrained, DormantWakes, connVars, callVars, writerVars
  <2> QED
    BY <2>1, OwnerFrame
\* The main thread.
<1>9. CASE FlushBegins
  BY <1>9, ActorsDiffer DEF FlushBegins, Begin, OwnerInv, callVars, writerVars, dormantVars
<1>10. CASE FlushCommits
  BY <1>10, ActorsDiffer
     DEF FlushCommits, Commit, OwnerInv, callVars, writerVars, dormantVars
<1>11. CASE FlushBusy
  BY <1>11, ActorsDiffer
     DEF FlushBusy, Busy, Rollback, OwnerInv, callVars, writerVars, dormantVars
<1>12. CASE \/ OpenWriter \/ OpenDormant \/ JoinWriter \/ CloseNotify \/ JoinDormant
            \/ FlushInserts \/ StopWriter \/ StopDormant
  <2>1. owner' = owner /\ SameMain /\ SameCalls
    BY <1>12 DEF OpenWriter, OpenDormant, JoinWriter, CloseNotify, JoinDormant,
         FlushInserts, StopWriter, StopDormant, connVars, callVars
  <2>2. SameWriter /\ SameDormant
    BY <1>12 DEF OpenInv, OpenWriter, OpenDormant, JoinWriter, CloseNotify, JoinDormant,
         FlushInserts, StopWriter, StopDormant, writerVars, dormantVars
  <2> QED
    BY <2>1, <2>2, OwnerFrame
\* eval().
<1>13. ASSUME NEW c \in Caller, InlineBegins(c) PROVE OwnerInv'
  BY <1>13, ActorsDiffer
     DEF InlineBegins, Begin, Move, OwnerInv, writerVars, dormantVars, TypeOK, CallTypeOK
<1>14. ASSUME NEW c \in Caller, InlineCommits(c) \/ InlineThrows(c) \/ InlineBusy(c)
       PROVE  OwnerInv'
  BY <1>14, ActorsDiffer
     DEF InlineCommits, InlineThrows, InlineBusy, Commit, Busy, Rollback, Return, Move,
         OwnerInv, writerVars, dormantVars, TypeOK, CallTypeOK
<1>15. ASSUME NEW c \in Caller, \/ CallEval(c) \/ Emplace(c) \/ Notify(c) \/ GetAnswer(c)
                                \/ TimedOut(c) \/ InlineRuns(c)
       PROVE  OwnerInv'
  <2>1. SameCalls
    BY <1>15 DEF CallEval, Emplace, Notify, GetAnswer, TimedOut, InlineRuns, Return, Move,
         TypeOK, CallTypeOK
  <2>2. owner' = owner /\ SameWriter /\ SameDormant /\ SameMain
    BY <1>15 DEF CallEval, Emplace, Notify, GetAnswer, TimedOut, InlineRuns, connVars,
         writerVars, dormantVars
  <2> QED
    BY <2>1, <2>2, OwnerFrame
<1> QED
  BY <1>1, <1>2, <1>3, <1>4, <1>5, <1>6, <1>7, <1>8, <1>9, <1>10, <1>11, <1>12, <1>13,
     <1>14, <1>15 DEF Next, WriterStep, DormantStep, MainStep, CallerStep, BusyStep

LEMMA OpenInvStep ==
    ASSUME OpenInv, [Next]_vars
    PROVE  OpenInv'
<1> USE DEF OpenInv
<1>1. CASE OpenWriter
  BY <1>1 DEF OpenWriter, dormantVars
<1>2. CASE OpenDormant
  BY <1>2 DEF OpenDormant
<1>3. CASE \/ JoinWriter \/ CloseNotify \/ JoinDormant \/ FlushInserts \/ FlushCommits
           \/ StopWriter \/ StopDormant \/ FlushBegins \/ FlushBusy
  BY <1>3 DEF JoinWriter, CloseNotify, JoinDormant, FlushInserts, FlushCommits,
       StopWriter, StopDormant, FlushBegins, FlushBusy
<1>4. CASE WriterStep \/ WriterBegins \/ WriterBusy
  BY <1>4 DEF WriterStep, WriterEnters, WriterPops, WriterSleeps, WriterInserts,
       WriterChecks, WriterCommits, WriterWakes, WriterBegins, WriterBusy, dormantVars
<1>5. CASE DormantStep \/ DormantBegins \/ DormantWakes \/ DormantBusy
  BY <1>5 DEF DormantStep, DormantTests, DormantDozes, DormantPops, DormantRuns,
       DormantAnswers, DormantDrained, DormantCommits, DormantBegins, DormantWakes,
       DormantBusy, writerVars
<1>6. CASE Arrive \/ Finished \/ UNCHANGED vars
  BY <1>6 DEF Arrive, Finished, vars, writerVars, dormantVars
<1>7. ASSUME NEW c \in Caller,
             CallEval(c) \/ CallerStep(c) \/ InlineBegins(c) \/ InlineBusy(c)
      PROVE  UNCHANGED <<mpc, wpc, dpc>>
  BY <1>7 DEF CallEval, CallerStep, Emplace, Notify, GetAnswer, TimedOut, InlineRuns,
       InlineThrows, InlineCommits, InlineBegins, InlineBusy, writerVars, dormantVars
<1> QED
  BY <1>1, <1>2, <1>3, <1>4, <1>5, <1>6, <1>7 DEF Next, MainStep, BusyStep

\* COMMIT and ROLLBACK close what their transaction wrote.
LEMMA Closes ==
    ASSUME ConnTypeOK, NEW who, Commit(who) \/ Rollback(who)
    PROVE  txn' = <<>> /\ \A t \in Task : effect'[t] # "open"
  BY DEF Commit, Rollback, ConnTypeOK

LEMMA CleanInvStep ==
    ASSUME TypeOK, OpenInv, OwnerInv, CleanInv, [Next]_vars
    PROVE  CleanInv'
<1> USE DEF CleanInv
<1>1. CASE WriterBegins \/ DormantBegins \/ FlushBegins \/ \E c \in Caller : InlineBegins(c)
  <2>1. PICK who \in {"writer", "dormant", "flush"} \cup Caller : Begin(who)
    BY <1>1 DEF WriterBegins, DormantBegins, FlushBegins, InlineBegins
  <2> QED
    BY <2>1, ActorsDiffer DEF Begin
<1>2. CASE WriterCommits \/ DormantCommits \/ FlushCommits \/ \E c \in Caller : InlineCommits(c)
  <2>1. \E who : Commit(who)
    BY <1>2 DEF WriterCommits, DormantCommits, FlushCommits, InlineCommits
  <2> QED
    BY <2>1, Closes DEF TypeOK
<1>3. CASE BusyStep \/ \E c \in Caller : InlineThrows(c)
  <2>1. \E who : Rollback(who)
    BY <1>3 DEF BusyStep, WriterBusy, DormantBusy, FlushBusy, InlineBusy, InlineThrows, Busy
  <2> QED
    BY <2>1, Closes DEF TypeOK
<1>4. CASE WriterInserts \/ FlushInserts \/ DormantRuns \/ \E c \in Caller : InlineRuns(c)
  <2>1. owner' = owner /\ owner # "free"
    BY <1>4, ActorsDiffer
       DEF WriterInserts, FlushInserts, DormantRuns, InlineRuns, OwnerInv, WriterBody,
           DormantBody, InlineBody
  <2> QED
    BY <2>1
<1>5. CASE \/ Arrive \/ WriterEnters \/ WriterPops \/ WriterSleeps \/ WriterChecks
           \/ WriterWakes \/ DormantTests \/ DormantDozes \/ DormantPops
           \/ DormantAnswers \/ DormantDrained \/ DormantWakes \/ OpenWriter
           \/ OpenDormant \/ JoinWriter \/ CloseNotify \/ JoinDormant \/ StopWriter
           \/ StopDormant \/ Finished \/ UNCHANGED vars
  <2>1. UNCHANGED connVars
    BY <1>5 DEF Arrive, WriterEnters, WriterPops, WriterSleeps, WriterChecks,
         WriterWakes, DormantTests, DormantDozes, DormantPops, DormantAnswers,
         DormantDrained, DormantWakes, OpenWriter, OpenDormant, JoinWriter, CloseNotify,
         JoinDormant, StopWriter, StopDormant, Finished, vars
  <2> QED
    BY <2>1 DEF connVars
<1>6. ASSUME NEW c \in Caller,
             CallEval(c) \/ Emplace(c) \/ Notify(c) \/ GetAnswer(c) \/ TimedOut(c)
      PROVE  UNCHANGED connVars
  BY <1>6 DEF CallEval, Emplace, Notify, GetAnswer, TimedOut
<1> QED
  BY <1>1, <1>2, <1>3, <1>4, <1>5, <1>6
     DEF Next, WriterStep, CallerStep, DormantStep, MainStep, connVars

\* Inside the writer's transaction nobody takes a task out of the queue.
LEMMA LateInvStep ==
    ASSUME TypeOK, CallInv, OwnerInv, LateInv, [Next]_vars
    PROVE  LateInv'
<1> USE DEF LateInv
<1>1. CASE WriterEnters \/ WriterWakes \/ OpenWriter \/ StopWriter \/ WriterBusy
  BY <1>1 DEF WriterEnters, WriterWakes, OpenWriter, StopWriter, WriterBusy, taskVars
<1>2. CASE WriterBegins \/ WriterSleeps \/ WriterInserts
  BY <1>2 DEF WriterBegins, WriterSleeps, WriterInserts, taskVars
<1>3. CASE WriterPops
  BY <1>3 DEF WriterPops, taskVars
<1>4. CASE WriterChecks
  BY <1>4 DEF WriterChecks, taskVars
<1>5. CASE WriterCommits
  BY <1>5 DEF WriterCommits, AfterRun
<1>6. CASE DormantPops
  <2>1. wpc \notin WriterBody
    BY <1>6, ActorsDiffer DEF DormantPops, OwnerInv, DormantBody
  <2> QED
    BY <1>6, <2>1 DEF DormantPops, writerVars, WriterBody
<1>7. ASSUME UNCHANGED writerVars,
             pending' = pending \/ \E t \in Task : pending' = Append(pending, t)
      PROVE  LateInv'
  <2>1. pending # <<>> => pending' # <<>>
    BY <1>7 DEF TypeOK, TaskTypeOK
  <2> QED
    BY <1>7, <2>1 DEF writerVars
<1>8. pending' = pending \/ DormantPops \/ \E t \in Task : pending' = Append(pending, t)
  <2>1. CASE UNCHANGED taskVars \/ DormantRuns \/ DormantAnswers
    BY <2>1 DEF taskVars, DormantRuns, DormantAnswers
  <2>2. ASSUME NEW c \in Caller, Emplace(c) PROVE \E t \in Task : pending' = Append(pending, t)
    <3>1. current[c] \in Task
      BY <2>2 DEF CallInv, Emplace
    <3> QED
      BY <2>2, <3>1 DEF Emplace
  <2> QED
    BY <2>1, <2>2, TaskFrame
<1> QED
  BY <1>1, <1>2, <1>3, <1>4, <1>5, <1>6, <1>7, <1>8, WriterFrame
--------------------------------------------------------------------------------
LEMMA InitInv ==
    ASSUME Init
    PROVE  IInv
<1> USE DEF Init
<1>1. ConnTypeOK
  BY DatabaseAssumption DEF ConnTypeOK
<1>2. 0 \in 0..MaxItems /\ 0 \in 0..MaxCalls
  BY DatabaseAssumption
<1>3. <<>> \in Seq(Item) /\ <<>> \in Seq(Task)
  OBVIOUS
<1>4. ItemTypeOK
  BY <1>2, <1>3 DEF ItemTypeOK
<1>5. WriterTypeOK /\ DormantTypeOK
  BY <1>2 DEF WriterTypeOK, DormantTypeOK
<1>6. CallTypeOK /\ TaskTypeOK
  BY <1>2, <1>3 DEF CallTypeOK, TaskTypeOK
<1>7. TypeOK
  BY <1>1, <1>4, <1>5, <1>6 DEF TypeOK
<1>8. OwnerInv
  BY ActorsDiffer DEF OwnerInv, WriterBody, DormantBody, InlineBody
<1>9. CallInv /\ OpenInv /\ CleanInv /\ LateInv
  BY DEF CallInv, OpenInv, CleanInv, LateInv
<1> QED
  BY <1>7, <1>8, <1>9 DEF IInv

LEMMA StepInv ==
    ASSUME IInv, [Next]_vars
    PROVE  IInv'
  BY TypeStep, CallInvStep, OpenInvStep, OwnerInvStep, CleanInvStep, LateInvStep DEF IInv

LEMMA Inductive == Spec => []IInv
<1>1. Init => IInv
  BY InitInv
<1>2. IInv /\ [Next]_vars => IInv'
  BY StepInv
<1> QED
  BY <1>1, <1>2, PTL DEF Spec
--------------------------------------------------------------------------------
(***************************************************************************)
(* What a reader should know.                                              *)
(***************************************************************************)
\* Every variable keeps its type, with any number of callers, calls, items and BUSY
\* answers.
THEOREM TypeCorrect == Spec => []TypeOK
<1>1. IInv => TypeOK
  BY DEF IInv
<1> QED
  BY <1>1, Inductive, PTL

\* Transaction::safeTransaction serializes everything that uses the connection: at most
\* one of the writer, the dormant thread, the final flush and the threads inside an
\* inline eval() is between BEGIN and COMMIT, and between transactions nothing is half
\* written.
THEOREM Serialized == Spec => []OneTransaction
<1>1. IInv => OneTransaction
  BY DEF IInv, OwnerInv, CleanInv, OneTransaction, WriterBody, DormantBody, InlineBody
<1> QED
  BY <1>1, Inductive, PTL

\* DatabaseThread::run_ gives way to eval(): it begins at most one row after a task
\* entered the queue, whatever BUSY answers and other callers do meanwhile.
THEOREM WriterGivesWay == Spec => []Preempted
<1>1. IInv => Preempted
  BY DEF IInv, LateInv, Preempted
<1> QED
  BY <1>1, Inductive, PTL

--------------------------------------------------------------------------------
(***************************************************************************)
(* Rows: every item is in the table, in the open transaction, in the       *)
(* writer's hand, in its queue, or was taken by a rollback.                *)
(***************************************************************************)
Sorted(s) == \A i, j \in DOMAIN s : i < j => s[i] < s[j]

Before(a, b) == \A x \in Items(a), y \in Items(b) : x < y

\* What a concatenation holds, and when it is sorted.
LEMMA ItemsConcat ==
    ASSUME NEW a \in Seq(Nat), NEW b \in Seq(Nat)
    PROVE  /\ a \o b \in Seq(Nat)
           /\ Items(a \o b) = Items(a) \cup Items(b)
           /\ Sorted(a \o b) <=> Sorted(a) /\ Sorted(b) /\ Before(a, b)
<1> DEFINE c == a \o b
           m == Len(a)
           n == Len(b)
<1>1. /\ m \in Nat /\ n \in Nat /\ c \in Seq(Nat)
      /\ DOMAIN a = 1..m /\ DOMAIN b = 1..n /\ DOMAIN c = 1..(m + n)
  BY ConcatProperties
<1>2. \A k \in 1..(m + n) : c[k] = IF k <= m THEN a[k] ELSE b[k - m]
  BY ConcatProperties
<1> HIDE DEF c, m, n
<1>3. \A i \in 1..m : i \in 1..(m + n) /\ c[i] = a[i]
  BY <1>1, <1>2
<1>4. \A j \in 1..n : m + j \in 1..(m + n) /\ c[m + j] = b[j]
  <2>1. SUFFICES ASSUME NEW j \in 1..n PROVE m + j \in 1..(m + n) /\ c[m + j] = b[j]
    OBVIOUS
  <2>2. m + j \in 1..(m + n) /\ ~(m + j <= m) /\ (m + j) - m = j
    BY <1>1
  <2> QED
    BY <1>2, <2>2
<1>5. \A k \in 1..(m + n) : k \in 1..m \/ \E j \in 1..n : k = m + j
  <2>1. SUFFICES ASSUME NEW k \in 1..(m + n), k \notin 1..m PROVE \E j \in 1..n : k = m + j
    OBVIOUS
  <2>2. k - m \in 1..n /\ k = m + (k - m)
    BY <1>1, <2>1
  <2> QED
    BY <2>2
<1>6. Items(c) = Items(a) \cup Items(b)
  <2>1. ASSUME NEW x \in Items(c) PROVE x \in Items(a) \cup Items(b)
    <3>1. PICK k \in 1..(m + n) : x = c[k]
      BY <1>1 DEF Items
    <3>2. CASE k \in 1..m
      BY <1>1, <1>3, <3>1, <3>2 DEF Items
    <3>3. ASSUME NEW j \in 1..n, k = m + j PROVE x \in Items(b)
      BY <1>1, <1>4, <3>1, <3>3 DEF Items
    <3> QED
      BY <1>5, <3>2, <3>3
  <2>2. ASSUME NEW x \in Items(a) PROVE x \in Items(c)
    BY <1>1, <1>3 DEF Items
  <2>3. ASSUME NEW x \in Items(b) PROVE x \in Items(c)
    BY <1>1, <1>4 DEF Items
  <2> QED
    BY <2>1, <2>2, <2>3
<1>7. ASSUME Sorted(c) PROVE Sorted(a) /\ Sorted(b) /\ Before(a, b)
  <2>1. ASSUME NEW i \in 1..m, NEW j \in 1..m, i < j PROVE a[i] < a[j]
    BY <1>1, <1>3, <1>7, <2>1 DEF Sorted
  <2>2. ASSUME NEW i \in 1..n, NEW j \in 1..n, i < j PROVE b[i] < b[j]
    <3>1. m + i < m + j
      BY <1>1, <2>2
    <3> QED
      BY <1>1, <1>4, <1>7, <3>1 DEF Sorted
  <2>3. ASSUME NEW i \in 1..m, NEW j \in 1..n PROVE a[i] < b[j]
    <3>1. i < m + j
      BY <1>1
    <3> QED
      BY <1>1, <1>3, <1>4, <1>7, <3>1 DEF Sorted
  <2> QED
    BY <1>1, <2>1, <2>2, <2>3 DEF Sorted, Before, Items
<1>8. ASSUME Sorted(a), Sorted(b), Before(a, b), NEW i \in 1..(m + n), NEW j \in 1..(m + n), i < j
      PROVE  c[i] < c[j]
  <2>1. CASE j \in 1..m
    <3>1. i \in 1..m
      BY <1>1, <1>8, <2>1
    <3> QED
      BY <1>1, <1>3, <1>8, <2>1, <3>1 DEF Sorted
  <2>2. ASSUME i \in 1..m, NEW k \in 1..n, j = m + k PROVE c[i] < c[j]
    <3>1. a[i] \in Items(a) /\ b[k] \in Items(b)
      BY <1>1, <2>2 DEF Items
    <3> QED
      BY <1>3, <1>4, <1>8, <2>2, <3>1 DEF Before
  <2>3. ASSUME NEW h \in 1..n, i = m + h, NEW k \in 1..n, j = m + k PROVE c[i] < c[j]
    <3>1. h < k
      BY <1>1, <1>8, <2>3
    <3> QED
      BY <1>1, <1>4, <1>8, <2>3, <3>1 DEF Sorted
  <2> QED
    BY <1>5, <2>1, <2>2, <2>3
<1>9. (Sorted(a) /\ Sorted(b) /\ Before(a, b)) => Sorted(c)
  BY <1>1, <1>8 DEF Sorted
<1>10. Sorted(c) <=> (Sorted(a) /\ Sorted(b) /\ Before(a, b))
  BY <1>7, <1>9
<1> QED
  BY <1>1, <1>6, <1>10 DEF c

\* Sequences of no item and of one.
LEMMA ItemsShort ==
    /\ <<>> \in Seq(Nat) /\ Items(<<>>) = {} /\ Sorted(<<>>)
    /\ \A x \in Nat : <<x>> \in Seq(Nat) /\ Items(<<x>>) = {x} /\ Sorted(<<x>>)
  BY DEF Items, Sorted

\* One more at the end.
LEMMA ItemsAppend ==
    ASSUME NEW a \in Seq(Nat), NEW x \in Nat, \A y \in Items(a) : y < x
    PROVE  /\ Items(a \o <<x>>) = Items(a) \cup {x}
           /\ Sorted(a) => Sorted(a \o <<x>>)
<1> DEFINE b == <<x>>
<1>1. b \in Seq(Nat) /\ Items(b) = {x} /\ Sorted(b)
  BY ItemsShort
<1> HIDE DEF b
<1>2. Before(a, b)
  BY <1>1 DEF Before
<1>3. Items(a \o b) = Items(a) \cup Items(b) /\ (Sorted(a \o b) <=> Sorted(a) /\ Sorted(b) /\ Before(a, b))
  BY <1>1, ItemsConcat
<1>4. Items(a \o b) = Items(a) \cup {x} /\ (Sorted(a) => Sorted(a \o b))
  BY <1>1, <1>2, <1>3
<1> QED
  BY <1>4 DEF b

\* Popping the head.
LEMMA ItemsPop ==
    ASSUME NEW s \in Seq(Nat), s # <<>>
    PROVE  /\ Head(s) \in Nat /\ Tail(s) \in Seq(Nat)
           /\ Items(s) = {Head(s)} \cup Items(Tail(s))
           /\ Sorted(s) => Sorted(Tail(s)) /\ Before(<<Head(s)>>, Tail(s))
<1> DEFINE h == <<Head(s)>>
           t == Tail(s)
<1>1. Head(s) \in Nat /\ t \in Seq(Nat)
  OBVIOUS
<1>2. h \in Seq(Nat) /\ Items(h) = {Head(s)}
  BY <1>1, ItemsShort
<1>3. s = h \o t
  OBVIOUS
<1> HIDE DEF h, t
<1>4. Items(s) = Items(h) \cup Items(t) /\ (Sorted(s) <=> Sorted(h) /\ Sorted(t) /\ Before(h, t))
  BY <1>1, <1>2, <1>3, ItemsConcat
<1> QED
  BY <1>1, <1>2, <1>4 DEF h, t

\* The writer holds an item only until it inserts it, and only the writer and the final
\* flush write rows.
PlaceInv ==
    /\ hand # <<>> => wpc = "insert"
    /\ txn # <<>> => owner \in {"writer", "flush"}

\* The parts of Stream, in order and disjoint from what rollbacks took.
PartsSorted ==
    /\ Sorted(table) /\ Sorted(txn) /\ Sorted(hand) /\ Sorted(input)
    /\ Before(table, txn) /\ Before(table, hand) /\ Before(table, input)
    /\ Before(txn, hand) /\ Before(txn, input) /\ Before(hand, input)

OnTheWay == Items(table) \cup Items(txn) \cup Items(hand) \cup Items(input)

PartsInv == PartsSorted /\ OnTheWay \cup lost = 1..sent /\ OnTheWay \cap lost = {}

RowInv == PlaceInv /\ PartsInv

\* Rows, open rows, hand and queue are sequences of numbers.
LEMMA PartsTyped ==
    ASSUME TypeOK
    PROVE  /\ table \in Seq(Nat) /\ txn \in Seq(Nat) /\ hand \in Seq(Nat)
           /\ input \in Seq(Nat)
           /\ sent \in Nat
<1>1. \A s \in Seq(Item) : s \in Seq(Nat)
  BY DatabaseAssumption DEF Item
<1> QED
  BY <1>1 DEF TypeOK, ConnTypeOK, ItemTypeOK

\* COMMIT moves the open rows behind the committed ones.
LEMMA CommitParts ==
    ASSUME TypeOK, PartsInv, NEW who, Commit(who), UNCHANGED itemVars
    PROVE  PartsInv'
<1>1. /\ table' = table \o txn /\ txn' = <<>>
      /\ UNCHANGED <<lost, sent, hand, input>>
  BY DEF Commit, itemVars
<1>2. /\ Items(table') = Items(table) \cup Items(txn)
      /\ Sorted(table') <=> Sorted(table) /\ Sorted(txn) /\ Before(table, txn)
  BY <1>1, ItemsConcat, PartsTyped
<1>3. Items(txn') = {} /\ Sorted(txn')
  BY <1>1, ItemsShort
<1>4. PartsSorted'
  BY <1>1, <1>2, <1>3 DEF PartsInv, PartsSorted, Before
<1> QED
  BY <1>1, <1>2, <1>3, <1>4 DEF PartsInv, OnTheWay

\* ROLLBACK takes the open rows and the item in hand.
LEMMA RollbackParts ==
    ASSUME TypeOK, PartsInv, NEW who, Rollback(who), hand' = <<>>, UNCHANGED <<sent, input>>
    PROVE  PartsInv'
<1>1. /\ txn' = <<>> /\ table' = table /\ lost' = lost \cup Items(txn \o hand)
  BY DEF Rollback
<1>2. Items(txn \o hand) = Items(txn) \cup Items(hand)
  BY ItemsConcat, PartsTyped
<1>3. /\ Items(txn') = {} /\ Sorted(txn') /\ Items(hand') = {} /\ Sorted(hand')
  BY <1>1, ItemsShort
<1>4. PartsSorted'
  BY <1>1, <1>3 DEF PartsInv, PartsSorted, Before
<1>5. (OnTheWay \cup lost)' = 1..sent
  BY <1>1, <1>2, <1>3 DEF PartsInv, OnTheWay
<1>6. ASSUME NEW x \in OnTheWay', x \in lost' PROVE FALSE
  <2>1. x \in Items(table) \cup Items(input)
    BY <1>1, <1>3, <1>6 DEF OnTheWay
  <2>2. x \in OnTheWay
    BY <2>1 DEF OnTheWay
  <2>3. x \in Items(txn) \cup Items(hand)
    BY <1>1, <1>2, <1>6, <2>2 DEF PartsInv
  <2>4. x \in Nat
    BY <2>2, PartsTyped DEF PartsInv
  <2>5. x < x
    BY <2>1, <2>3 DEF PartsInv, PartsSorted, Before
  <2> QED
    BY <2>4, <2>5
<1> QED
  BY <1>4, <1>5, <1>6 DEF PartsInv

\* An item arrives at the end of the queue, numbered past all before it.
LEMMA ArriveParts ==
    ASSUME TypeOK, PartsInv, Arrive
    PROVE  PartsInv'
<1> DEFINE k == sent + 1
<1>1. /\ sent' = k /\ input' = input \o <<k>>
      /\ UNCHANGED <<table, txn, hand, lost>>
  BY PartsTyped DEF Arrive, connVars
<1>2. k \in Nat /\ sent \in Nat /\ 1..k = (1..sent) \cup {k}
  BY PartsTyped
<1>3. \A x \in OnTheWay \cup lost : x < k
  BY <1>2 DEF PartsInv
<1> HIDE DEF k
<1>4. \A x \in Items(input) : x < k
  BY <1>3 DEF OnTheWay
<1>5. Items(input') = Items(input) \cup {k} /\ (Sorted(input) => Sorted(input'))
  BY <1>1, <1>2, <1>4, ItemsAppend, PartsTyped
<1>7. PartsSorted'
  BY <1>1, <1>3, <1>5 DEF PartsInv, PartsSorted, Before, OnTheWay
<1>8. (OnTheWay \cup lost)' = 1..k
  BY <1>1, <1>2, <1>5 DEF PartsInv, OnTheWay
<1>9. k \notin lost /\ (OnTheWay \cap lost)' = {}
  BY <1>1, <1>2, <1>3, <1>5 DEF PartsInv, OnTheWay
<1> QED
  BY <1>1, <1>7, <1>8, <1>9 DEF PartsInv

\* The writer pops: it had nothing in hand.
LEMMA WriterPopsParts ==
    ASSUME TypeOK, PlaceInv, PartsInv, WriterPops
    PROVE  PartsInv'
<1>1. /\ hand = <<>> /\ input # <<>>
      /\ hand' = <<Head(input)>> /\ input' = Tail(input)
      /\ UNCHANGED <<table, txn, lost, sent>>
  BY DEF WriterPops, PlaceInv, connVars
<1>2. /\ Head(input) \in Nat
      /\ Items(input) = {Head(input)} \cup Items(input')
      /\ Sorted(input) => Sorted(input') /\ Before(hand', input')
  BY <1>1, ItemsPop, PartsTyped
<1>3. Items(hand') = {Head(input)} /\ Sorted(hand') /\ Items(hand) = {}
  BY <1>1, <1>2, ItemsShort
<1>4. PartsSorted'
  BY <1>1, <1>2, <1>3 DEF PartsInv, PartsSorted, Before
<1> QED
  BY <1>1, <1>2, <1>3, <1>4 DEF PartsInv, OnTheWay

\* The writer inserts what it holds behind the open rows.
LEMMA WriterInsertsParts ==
    ASSUME TypeOK, PartsInv, WriterInserts
    PROVE  PartsInv'
<1>1. /\ txn' = txn \o hand /\ hand' = <<>>
      /\ UNCHANGED <<table, input, lost, sent>>
  BY DEF WriterInserts
<1>2. /\ Items(txn') = Items(txn) \cup Items(hand)
      /\ Sorted(txn') <=> Sorted(txn) /\ Sorted(hand) /\ Before(txn, hand)
  BY <1>1, ItemsConcat, PartsTyped
<1>3. Items(hand') = {} /\ Sorted(hand')
  BY <1>1, ItemsShort
<1>4. PartsSorted'
  BY <1>1, <1>2, <1>3 DEF PartsInv, PartsSorted, Before
<1> QED
  BY <1>1, <1>2, <1>3, <1>4 DEF PartsInv, OnTheWay

\* The final flush pops and inserts in one go; the writer is gone.
LEMMA FlushInsertsParts ==
    ASSUME TypeOK, PartsInv, FlushInserts, hand = <<>>
    PROVE  PartsInv'
<1> DEFINE x == Head(input)
<1>1. x \in Nat /\ input # <<>>
  BY PartsTyped DEF FlushInserts
<1>2. /\ txn' = txn \o <<x>> /\ input' = Tail(input)
      /\ UNCHANGED <<table, hand, lost, sent>>
  BY <1>1, PartsTyped DEF FlushInserts
<1>3. /\ Items(input) = {x} \cup Items(input')
      /\ Sorted(input) => Sorted(input') /\ Before(<<x>>, input')
  BY <1>1, <1>2, ItemsPop, PartsTyped
<1>4. Items(<<x>>) = {x}
  BY <1>1, ItemsShort
<1> HIDE DEF x
<1>5. \A y \in Items(txn) : y < x
  BY <1>3 DEF PartsInv, PartsSorted, Before
<1>6. Items(txn') = Items(txn) \cup {x} /\ (Sorted(txn) => Sorted(txn'))
  BY <1>1, <1>2, <1>5, ItemsAppend, PartsTyped
<1>7. Items(hand) = {} /\ hand' = hand
  BY <1>2, ItemsShort
<1>8. PartsSorted'
  BY <1>2, <1>3, <1>4, <1>5, <1>6, <1>7 DEF PartsInv, PartsSorted, Before
<1> QED
  BY <1>2, <1>3, <1>6, <1>7, <1>8 DEF PartsInv, OnTheWay

\* A transaction of any other actor wrote no rows, and the writer has nothing in hand.
LEMMA PlaceInvStep ==
    ASSUME TypeOK, OpenInv, OwnerInv, CleanInv, PlaceInv, [Next]_vars
    PROVE  PlaceInv'
<1> USE DEF PlaceInv
<1>1. CASE WriterPops \/ WriterInserts
  BY <1>1 DEF WriterPops, WriterInserts, OwnerInv, WriterBody, connVars
<1>2. CASE \/ WriterBegins \/ DormantBegins \/ FlushBegins
           \/ \E c \in Caller : InlineBegins(c)
  <2>1. txn' = <<>>
    BY <1>2 DEF WriterBegins, DormantBegins, FlushBegins, InlineBegins, Begin, CleanInv
  <2>2. hand' = hand /\ (wpc = "insert" => wpc' = "insert")
    BY <1>2 DEF WriterBegins, DormantBegins, FlushBegins, InlineBegins, itemVars, writerVars
  <2> QED
    BY <2>1, <2>2
<1>3. CASE \/ WriterCommits \/ DormantCommits \/ FlushCommits \/ BusyStep
           \/ \E c \in Caller : InlineCommits(c) \/ InlineThrows(c)
  <2>1. txn' = <<>>
    BY <1>3 DEF WriterCommits, DormantCommits, FlushCommits, InlineCommits, InlineThrows,
         BusyStep, WriterBusy, DormantBusy, FlushBusy, InlineBusy, Busy, Commit, Rollback
  <2>2. \/ hand' = <<>>
        \/ hand' = hand /\ (wpc = "insert" => wpc' = "insert")
    BY <1>3 DEF WriterCommits, DormantCommits, FlushCommits, InlineCommits, InlineThrows,
         BusyStep, WriterBusy, DormantBusy, FlushBusy, InlineBusy, itemVars, writerVars
  <2> QED
    BY <2>1, <2>2
<1>4. CASE FlushInserts
  BY <1>4 DEF FlushInserts, OwnerInv, writerVars
<1>5. CASE \/ Arrive \/ WriterEnters \/ WriterSleeps \/ WriterChecks \/ WriterWakes
           \/ OpenWriter \/ OpenDormant \/ JoinWriter \/ CloseNotify \/ JoinDormant
           \/ StopWriter \/ StopDormant \/ Finished \/ UNCHANGED vars
  <2>1. UNCHANGED <<txn, owner, hand>> /\ (wpc = "insert" => wpc' = "insert")
    BY <1>5 DEF OpenInv, Arrive, WriterEnters, WriterSleeps, WriterChecks, WriterWakes, OpenDormant,
         OpenWriter, JoinWriter, CloseNotify, JoinDormant, StopWriter, StopDormant,
         Finished, vars, connVars, itemVars, writerVars
  <2> QED
    BY <2>1
<1>6. CASE \/ DormantTests \/ DormantDozes \/ DormantPops \/ DormantRuns
           \/ DormantAnswers \/ DormantDrained \/ DormantWakes
  BY <1>6 DEF DormantTests, DormantDozes, DormantPops, DormantRuns, DormantAnswers,
       DormantDrained, DormantWakes, connVars, itemVars, writerVars
<1>7. ASSUME NEW c \in Caller,
             \/ CallEval(c) \/ Emplace(c) \/ Notify(c) \/ GetAnswer(c) \/ TimedOut(c)
             \/ InlineRuns(c)
      PROVE  PlaceInv'
  BY <1>7 DEF CallEval, Emplace, Notify, GetAnswer, TimedOut, InlineRuns, connVars,
       itemVars, writerVars
<1> QED
  BY <1>1, <1>2, <1>3, <1>4, <1>5, <1>6, <1>7
     DEF Next, WriterStep, CallerStep, DormantStep, MainStep

\* An actor other than the writer, inside a transaction, meets an empty hand.
LEMMA EmptyHand ==
    ASSUME OwnerInv, PlaceInv, owner # "writer"
    PROVE  hand = <<>>
  BY DEF OwnerInv, PlaceInv, WriterBody

LEMMA PartsInvStep ==
    ASSUME TypeOK, OwnerInv, PlaceInv, PartsInv, [Next]_vars
    PROVE  PartsInv'
<1>1. CASE Arrive
  BY <1>1, ArriveParts
<1>2. CASE WriterPops
  BY <1>2, WriterPopsParts
<1>3. CASE WriterInserts
  BY <1>3, WriterInsertsParts
<1>4. CASE FlushInserts
  <2>1. owner # "writer"
    BY <1>4 DEF FlushInserts, OwnerInv
  <2> QED
    BY <1>4, <2>1, EmptyHand, FlushInsertsParts
<1>5. CASE \/ WriterCommits \/ DormantCommits \/ FlushCommits
           \/ \E c \in Caller : InlineCommits(c)
  <2>1. UNCHANGED itemVars /\ \E who : Commit(who)
    BY <1>5 DEF WriterCommits, DormantCommits, FlushCommits, InlineCommits
  <2> QED
    BY <2>1, CommitParts
<1>6. CASE WriterBusy
  <2>1. Rollback("writer") /\ hand' = <<>> /\ UNCHANGED <<sent, input>>
    BY <1>6 DEF WriterBusy, Busy
  <2> QED
    BY <2>1, RollbackParts
<1>7. CASE DormantBusy \/ FlushBusy \/ \E c \in Caller : InlineBusy(c) \/ InlineThrows(c)
  <2>1. PICK who \in {"dormant", "flush"} \cup Caller : Rollback(who) /\ UNCHANGED itemVars
    BY <1>7 DEF DormantBusy, FlushBusy, InlineBusy, InlineThrows, Busy
  <2>2. owner # "writer"
    BY <2>1, ActorsDiffer DEF Rollback
  <2> QED
    BY <2>1, <2>2, EmptyHand, RollbackParts DEF itemVars
<1>8. CASE UNCHANGED <<table, txn, lost, itemVars>>
  BY <1>8 DEF PartsInv, PartsSorted, OnTheWay, itemVars
<1>9. CASE \/ WriterBegins \/ DormantBegins \/ FlushBegins \/ DormantRuns
           \/ \E c \in Caller : InlineBegins(c) \/ InlineRuns(c)
  BY <1>8, <1>9
     DEF WriterBegins, DormantBegins, FlushBegins, DormantRuns, InlineBegins, InlineRuns, Begin
<1>10. CASE \/ WriterEnters \/ WriterSleeps \/ WriterChecks \/ WriterWakes
            \/ DormantTests \/ DormantDozes \/ DormantPops \/ DormantAnswers
            \/ DormantDrained \/ DormantWakes \/ OpenWriter \/ OpenDormant \/ JoinWriter
            \/ CloseNotify \/ JoinDormant \/ StopWriter \/ StopDormant \/ Finished
            \/ UNCHANGED vars
  BY <1>8, <1>10
     DEF WriterEnters, WriterSleeps, WriterChecks, WriterWakes, DormantTests, DormantDozes,
         DormantPops, DormantAnswers, DormantDrained, DormantWakes, OpenWriter,
         OpenDormant, JoinWriter, CloseNotify, JoinDormant, StopWriter, StopDormant,
         Finished, vars, connVars
<1>11. ASSUME NEW c \in Caller,
              CallEval(c) \/ Emplace(c) \/ Notify(c) \/ GetAnswer(c) \/ TimedOut(c)
       PROVE  PartsInv'
  BY <1>8, <1>11 DEF CallEval, Emplace, Notify, GetAnswer, TimedOut, connVars
<1> QED
  BY <1>1, <1>2, <1>3, <1>4, <1>5, <1>6, <1>7, <1>9, <1>10, <1>11
     DEF Next, WriterStep, CallerStep, DormantStep, MainStep, BusyStep

LEMMA RowsInductive == Spec => []RowInv
<1>1. Init => RowInv
  <2>1. Init => 1..sent = {}
    BY DEF Init
  <2> QED
    BY <2>1, ItemsShort
       DEF Init, RowInv, PlaceInv, PartsInv, PartsSorted, OnTheWay, Before
<1>2. IInv /\ RowInv /\ [Next]_vars => RowInv'
  BY PlaceInvStep, PartsInvStep DEF IInv, RowInv
<1> QED
  BY <1>1, <1>2, Inductive, PTL DEF Spec

\* The rows of DatabaseThread's stage: the committed rows, those of the open
\* transaction, the item in hand and the queue are the items that ever arrived, each
\* once and in their order, but for those a rollback of safeTransaction took after they
\* had left the queue - whatever the number of BUSY answers and whoever shares the
\* connection.
THEOREM RowsKept == Spec => []RowsAccounted
<1>1. ASSUME IInv, RowInv PROVE RowsAccounted
  <2> DEFINE a == table \o txn
             b == a \o hand
             s == b \o input
  <2>1. /\ table \in Seq(Nat) /\ txn \in Seq(Nat) /\ hand \in Seq(Nat)
        /\ input \in Seq(Nat)
    BY <1>1, PartsTyped DEF IInv
  <2>2. /\ PartsSorted
        /\ OnTheWay \cup lost = 1..sent /\ OnTheWay \cap lost = {}
    BY <1>1 DEF RowInv, PartsInv
  <2>3. /\ a \in Seq(Nat) /\ Items(a) = Items(table) \cup Items(txn)
        /\ Sorted(a) <=> Sorted(table) /\ Sorted(txn) /\ Before(table, txn)
    BY <2>1, ItemsConcat
  <2> HIDE DEF a
  <2>4. /\ b \in Seq(Nat) /\ Items(b) = Items(a) \cup Items(hand)
        /\ Sorted(b) <=> Sorted(a) /\ Sorted(hand) /\ Before(a, hand)
    BY <2>1, <2>3, ItemsConcat
  <2> HIDE DEF b
  <2>5. /\ s \in Seq(Nat) /\ Items(s) = Items(b) \cup Items(input)
        /\ Sorted(s) <=> Sorted(b) /\ Sorted(input) /\ Before(b, input)
    BY <2>1, <2>4, ItemsConcat
  <2> HIDE DEF s
  <2>6. Before(a, hand) /\ Before(b, input)
    BY <2>2, <2>3, <2>4 DEF PartsSorted, Before
  <2>7. Sorted(s)
    BY <2>2, <2>3, <2>4, <2>5, <2>6 DEF PartsSorted
  <2>8. Items(s) = OnTheWay
    BY <2>3, <2>4, <2>5 DEF OnTheWay
  <2>9. s = Stream
    BY <2>1 DEF s, b, a, Stream
  <2> QED
    BY <2>2, <2>7, <2>8, <2>9 DEF RowsAccounted, Sorted
<1> QED
  BY <1>1, Inductive, RowsInductive, PTL
--------------------------------------------------------------------------------
(***************************************************************************)
(* What becomes of a task.                                                 *)
(***************************************************************************)
\* What a functor wrote may be committed or undone, it is not forgotten.
LEMMA EffectKept ==
    ASSUME TypeOK, CallInv, [Next]_vars, NEW t \in Task, effect[t] # "none"
    PROVE  effect'[t] # "none"
<1> USE DEF TypeOK, ConnTypeOK
<1>1. CASE \/ WriterCommits \/ DormantCommits \/ FlushCommits
           \/ \E c \in Caller : InlineCommits(c)
  BY <1>1 DEF WriterCommits, DormantCommits, FlushCommits, InlineCommits, Commit
<1>2. CASE BusyStep \/ \E c \in Caller : InlineThrows(c)
  BY <1>2 DEF BusyStep, WriterBusy, DormantBusy, FlushBusy, InlineBusy, InlineThrows,
       Busy, Rollback
<1>3. CASE DormantRuns
  BY <1>3 DEF DormantRuns
<1>4. ASSUME NEW c \in Caller, InlineRuns(c) PROVE effect'[t] # "none"
  BY <1>4 DEF InlineRuns
<1>5. CASE \/ WriterBegins \/ DormantBegins \/ FlushBegins
           \/ \E c \in Caller : InlineBegins(c)
  BY <1>5 DEF WriterBegins, DormantBegins, FlushBegins, InlineBegins, Begin
<1>6. CASE \/ Arrive \/ WriterEnters \/ WriterPops \/ WriterSleeps \/ WriterInserts
           \/ WriterChecks \/ WriterWakes \/ DormantTests \/ DormantDozes \/ DormantPops
           \/ DormantAnswers \/ DormantDrained \/ DormantWakes \/ OpenWriter
           \/ OpenDormant \/ JoinWriter \/ CloseNotify \/ JoinDormant \/ FlushInserts
           \/ StopWriter \/ StopDormant \/ Finished \/ UNCHANGED vars
  BY <1>6 DEF Arrive, WriterEnters, WriterPops, WriterSleeps, WriterInserts, WriterChecks,
       WriterWakes, DormantTests, DormantDozes, DormantPops, DormantAnswers,
       DormantDrained, DormantWakes, OpenWriter, OpenDormant, JoinWriter, CloseNotify,
       JoinDormant, FlushInserts, StopWriter, StopDormant, Finished, vars, connVars
<1>7. ASSUME NEW c \in Caller,
             CallEval(c) \/ Emplace(c) \/ Notify(c) \/ GetAnswer(c) \/ TimedOut(c)
      PROVE  effect'[t] # "none"
  BY <1>7 DEF CallEval, Emplace, Notify, GetAnswer, TimedOut, connVars
<1> QED
  BY <1>1, <1>2, <1>3, <1>4, <1>5, <1>6, <1>7
     DEF Next, WriterStep, CallerStep, DormantStep, MainStep

\* An answer, and a result, of "ok" stand behind a functor that wrote.
EffectInv ==
    /\ dpc = "answer" => effect[task] # "none"
    /\ \A t \in Task : /\ answer[t] = "ok" => effect[t] # "none"
                       /\ result[t] = "ok" => effect[t] # "none"
    /\ \A c \in Caller : callPc[c] = "inlineCommit" => effect[current[c]] # "none"

LEMMA EffectInvStep ==
    ASSUME TypeOK, CallInv, OpenInv, EffectInv, [Next]_vars
    PROVE  EffectInv'
<1> USE DEF EffectInv
<1>1. dpc' = "answer" => effect'[task'] # "none"
  <2>1. CASE DormantRuns
    BY <2>1 DEF DormantRuns, CallInv, TypeOK, ConnTypeOK
  <2>2. CASE \/ DormantTests \/ DormantDozes \/ DormantPops \/ DormantAnswers
             \/ DormantDrained \/ DormantCommits \/ DormantBegins \/ DormantWakes
             \/ DormantBusy \/ OpenDormant
    BY <2>2 DEF DormantTests, DormantDozes, DormantPops, DormantAnswers, DormantDrained,
         DormantCommits, DormantBegins, DormantWakes, DormantBusy, OpenDormant
  <2>3. CASE UNCHANGED <<dpc, task>>
    BY <2>3, EffectKept DEF CallInv
  <2> QED
    BY <2>1, <2>2, <2>3, DormantFrame DEF DormantStep
<1>2. ASSUME NEW t \in Task, answer'[t] = "ok" PROVE effect'[t] # "none"
  <2>1. CASE answer[t] = "ok"
    BY <2>1, EffectKept
  <2>2. CASE DormantAnswers
    <3>1. answer[t] = "ok" \/ (t = task /\ dpc = "answer")
      BY <1>2, <2>2 DEF DormantAnswers, TypeOK, TaskTypeOK
    <3> QED
      BY <2>1, <3>1, EffectKept
  <2>3. CASE \/ UNCHANGED taskVars \/ DormantPops \/ DormantRuns
             \/ \E c \in Caller : Emplace(c)
    BY <1>2, <2>1, <2>3 DEF taskVars, DormantPops, DormantRuns, Emplace
  <2> QED
    BY <2>2, <2>3, TaskFrame
<1>3. ASSUME NEW t \in Task, result'[t] = "ok" PROVE effect'[t] # "none"
  <2>1. CASE result[t] = "ok"
    BY <2>1, EffectKept
  <2>2. ASSUME NEW c \in Caller, GetAnswer(c) PROVE effect'[t] # "none"
    <3>1. result[t] = "ok" \/ (t = current[c] /\ answer[t] = "ok")
      BY <1>3, <2>2 DEF GetAnswer, Return, TypeOK, CallTypeOK
    <3> QED
      BY <2>1, <3>1, EffectKept
  <2>3. ASSUME NEW c \in Caller, InlineCommits(c) PROVE effect'[t] # "none"
    <3>1. result[t] = "ok" \/ (t = current[c] /\ callPc[c] = "inlineCommit")
      BY <1>3, <2>3 DEF InlineCommits, Return, TypeOK, CallTypeOK
    <3> QED
      BY <2>1, <3>1, EffectKept
  <2>4. ASSUME NEW c \in Caller, TimedOut(c) \/ InlineThrows(c) PROVE result[t] = "ok"
    BY <1>3, <2>4 DEF TimedOut, InlineThrows, Return, TypeOK, CallTypeOK
  <2>5. ASSUME NEW c \in Caller, \/ CallEval(c) \/ Emplace(c) \/ Notify(c) \/ InlineRuns(c)
                                 \/ InlineBegins(c) \/ InlineBusy(c)
        PROVE  result[t] = "ok"
    BY <1>3, <2>5 DEF CallEval, Emplace, Notify, InlineRuns, InlineBegins, InlineBusy
  <2>6. CASE UNCHANGED callVars
    BY <1>3, <2>1, <2>6 DEF callVars
  <2> QED
    BY <2>1, <2>2, <2>3, <2>4, <2>5, <2>6, CallFrame DEF CallerStep
<1>4. ASSUME NEW c \in Caller, callPc'[c] = "inlineCommit" PROVE effect'[current'[c]] # "none"
  <2>1. CASE callPc[c] = "inlineCommit" /\ current'[c] = current[c]
    BY <2>1, EffectKept DEF CallInv
  <2>2. ASSUME NEW d \in Caller, InlineRuns(d) PROVE effect'[current'[c]] # "none"
    <3>1. current' = current /\ (c # d => callPc[c] = "inlineCommit")
      BY <1>4, <2>2 DEF InlineRuns, Move, TypeOK, CallTypeOK
    <3>2. c = d => effect'[current[c]] = "open"
      BY <2>2 DEF InlineRuns, CallInv, TypeOK, ConnTypeOK
    <3> QED
      BY <2>1, <3>1, <3>2
  <2>3. ASSUME NEW d \in Caller, \/ CallEval(d) \/ Emplace(d) \/ Notify(d) \/ GetAnswer(d)
                                 \/ TimedOut(d) \/ InlineThrows(d) \/ InlineCommits(d)
                                 \/ InlineBegins(d) \/ InlineBusy(d)
        PROVE  callPc[c] = "inlineCommit" /\ current'[c] = current[c]
    BY <1>4, <2>3 DEF CallEval, Emplace, Notify, GetAnswer, TimedOut, InlineThrows,
         InlineCommits, InlineBegins, InlineBusy, Return, Move, TypeOK, CallTypeOK
  <2>4. CASE UNCHANGED callVars
    BY <1>4, <2>1, <2>4 DEF callVars
  <2> QED
    BY <2>1, <2>2, <2>3, <2>4, CallFrame DEF CallerStep
<1> QED
  BY <1>1, <1>2, <1>3, <1>4

InFlight(t) == dpc = "run" /\ task = t

\* A task is unplaced until it enters the queue, and then waits, is in flight or has run.
Unplaced(t) == t \notin Items(pending) /\ ran[t] = 0 /\ ~InFlight(t)
Placed(t) == t \in Items(pending) \/ ran[t] = 1 \/ InFlight(t)

\* Every call has a task of its own, numbered by the calls so far.
CurrentInv ==
    /\ \A c \in Caller : current[c] <= calls
    /\ \A c, d \in Caller :
           callPc[c] # "idle" /\ callPc[d] # "idle" /\ c # d => current[c] # current[d]

Distinct(s) == \A i, j \in DOMAIN s : i # j => s[i] # s[j]

\* A task enters the queue once.
OnceInv ==
    /\ \A t \in Task : t > calls => Unplaced(t)
    /\ \A c \in Caller : callPc[c] = "emplace" => Unplaced(current[c])
    /\ Distinct(pending)
    /\ \A t \in Items(pending) : ran[t] = 0 /\ ~InFlight(t)
    /\ dpc = "run" => ran[task] = 0
    /\ \A t \in Task : ran[t] <= 1

\* A caller that waits, or gave up, left its task placed.
PlacedInv ==
    /\ \A c \in Caller : callPc[c] \in {"notify", "get"} => Placed(current[c])
    /\ \A t \in Task : result[t] = "timeout" => Placed(t)

TaskInv == EffectInv /\ CurrentInv /\ OnceInv /\ PlacedInv

LEMMA CurrentInvStep ==
    ASSUME TypeOK, CurrentInv, [Next]_vars
    PROVE  CurrentInv'
<1> USE DEF CurrentInv, TypeOK, CallTypeOK
<1>1. ASSUME NEW c \in Caller, CallEval(c) PROVE CurrentInv'
  <2>1. /\ calls' = calls + 1 /\ calls \in Nat
        /\ \A d \in Caller : /\ current'[d] = IF d = c THEN calls + 1 ELSE current[d]
                             /\ d # c => callPc'[d] = callPc[d]
    BY <1>1, DatabaseAssumption DEF CallEval, Move
  <2>2. \A d \in Caller : current[d] \in Nat /\ current[d] <= calls
    BY DatabaseAssumption
  <2>3. \A d \in Caller : current'[d] <= calls'
    BY <2>1, <2>2
  <2>4. ASSUME NEW d \in Caller, NEW e \in Caller, callPc'[d] # "idle", callPc'[e] # "idle", d # e
        PROVE  current'[d] # current'[e]
    <3>1. CASE d # c /\ e # c
      BY <2>1, <2>4, <3>1
    <3>2. CASE d = c \/ e = c
      BY <2>1, <2>2, <2>4, <3>2
    <3> QED
      BY <3>1, <3>2
  <2> QED
    BY <2>3, <2>4
<1>2. ASSUME NEW c \in Caller, Emplace(c) \/ Notify(c) \/ InlineBegins(c)
                               \/ InlineRuns(c) \/ InlineBusy(c)
      PROVE  CurrentInv'
  <2>1. /\ calls' = calls /\ current' = current
        /\ \A d \in Caller : callPc'[d] # "idle" => callPc[d] # "idle"
    BY <1>2 DEF Emplace, Notify, InlineBegins, InlineRuns, InlineBusy, Move
  <2> QED
    BY <2>1
<1>3. ASSUME NEW c \in Caller, GetAnswer(c) \/ TimedOut(c) \/ InlineThrows(c)
                               \/ InlineCommits(c)
      PROVE  CurrentInv'
  <2>1. /\ calls' = calls /\ calls \in Nat
        /\ \A d \in Caller : /\ current'[d] = IF d = c THEN 0 ELSE current[d]
                             /\ callPc'[d] # "idle" => callPc[d] # "idle" /\ d # c
    BY <1>3, DatabaseAssumption
       DEF GetAnswer, TimedOut, InlineThrows, InlineCommits, Return, Move
  <2> QED
    BY <2>1
<1>4. CASE UNCHANGED callVars
  BY <1>4 DEF callVars
<1> QED
  BY <1>1, <1>2, <1>3, <1>4, CallFrame DEF CallerStep

LEMMA QueueAppend ==
    ASSUME NEW s \in Seq(Task), NEW x \in Task
    PROVE  /\ Items(Append(s, x)) = Items(s) \cup {x}
           /\ Distinct(s) /\ x \notin Items(s) => Distinct(Append(s, x))
<1> DEFINE r == Append(s, x)
<1>1. Len(s) \in Nat /\ DOMAIN s = 1..Len(s) /\ DOMAIN r = 1..(Len(s) + 1)
  OBVIOUS
<1>2. r[Len(s) + 1] = x /\ \A i \in 1..Len(s) : r[i] = s[i]
  OBVIOUS
<1>3. \A i \in 1..(Len(s) + 1) : i \in 1..Len(s) \/ i = Len(s) + 1
  BY <1>1
<1>4. \A i \in 1..Len(s) : i \in 1..(Len(s) + 1)
  BY <1>1
<1>5. Len(s) + 1 \in 1..(Len(s) + 1)
  BY <1>1
<1> HIDE DEF r
<1>6. Items(r) = Items(s) \cup {x}
  BY <1>1, <1>2, <1>3, <1>4, <1>5 DEF Items
<1>7. ASSUME Distinct(s), x \notin Items(s) PROVE Distinct(r)
  BY <1>1, <1>2, <1>3, <1>7 DEF Distinct, Items
<1> QED
  BY <1>6, <1>7 DEF r

LEMMA QueuePop ==
    ASSUME NEW s \in Seq(Task), s # <<>>
    PROVE  /\ Head(s) \in Task
           /\ Items(s) = {Head(s)} \cup Items(Tail(s))
           /\ Distinct(s) => Distinct(Tail(s)) /\ Head(s) \notin Items(Tail(s))
<1> DEFINE r == Tail(s)
           n == Len(r)
<1>1. n \in Nat /\ DOMAIN s = 1..(n + 1) /\ DOMAIN r = 1..n /\ Head(s) = s[1] /\ s[1] \in Task
  OBVIOUS
<1>2. \A i \in 1..n : r[i] = s[i + 1]
  OBVIOUS
<1> HIDE DEF r, n
<1>3. \A i \in 1..(n + 1) : i = 1 \/ \E j \in 1..n : i = j + 1
  <2>1. SUFFICES ASSUME NEW i \in 1..(n + 1), i # 1 PROVE \E j \in 1..n : i = j + 1
    OBVIOUS
  <2>2. i - 1 \in 1..n /\ i = (i - 1) + 1
    BY <1>1, <2>1
  <2> QED
    BY <2>2
<1>4. 1 \in 1..(n + 1) /\ \A j \in 1..n : j + 1 \in 1..(n + 1) /\ j + 1 # 1
  BY <1>1
<1>5. Items(s) = {Head(s)} \cup Items(r)
  <2>1. ASSUME NEW x \in Items(s) PROVE x \in {Head(s)} \cup Items(r)
    <3>1. PICK i \in 1..(n + 1) : x = s[i]
      BY <1>1, <2>1 DEF Items
    <3>2. ASSUME NEW j \in 1..n, i = j + 1 PROVE x \in Items(r)
      BY <1>1, <1>2, <3>1, <3>2 DEF Items
    <3> QED
      BY <1>1, <1>3, <3>1, <3>2
  <2>2. ASSUME NEW x \in Items(r) PROVE x \in Items(s)
    <3>1. PICK j \in 1..n : x = r[j]
      BY <1>1, <2>2 DEF Items
    <3> QED
      BY <1>1, <1>2, <1>4, <3>1 DEF Items
  <2>3. Head(s) \in Items(s)
    BY <1>1, <1>4 DEF Items
  <2> QED
    BY <2>1, <2>2, <2>3
<1>6. ASSUME Distinct(s) PROVE Head(s) \notin Items(r)
  BY <1>1, <1>2, <1>4, <1>6 DEF Distinct, Items
<1>7. ASSUME Distinct(s), NEW i \in 1..n, NEW j \in 1..n, i # j PROVE r[i] # r[j]
  <2>1. /\ i + 1 # j + 1
        /\ i + 1 \in DOMAIN s /\ j + 1 \in DOMAIN s
    BY <1>1, <1>7
  <2>2. s[i + 1] # s[j + 1]
    BY <1>7, <2>1 DEF Distinct
  <2> QED
    BY <1>2, <1>7, <2>2
<1>8. Distinct(s) => Distinct(r)
  BY <1>1, <1>7 DEF Distinct
<1> QED
  BY <1>1, <1>5, <1>6, <1>8 DEF r

\* The dormant thread takes a task into its hands, and out of them, in two steps only.
LEMMA FlightFrame ==
    ASSUME OpenInv, [Next]_vars, ~DormantPops, ~DormantRuns
    PROVE  (dpc' = "run" <=> dpc = "run") /\ (dpc = "run" => task' = task)
<1>1. CASE \/ DormantTests \/ DormantDozes \/ DormantAnswers \/ DormantDrained
           \/ DormantCommits \/ DormantBegins \/ DormantWakes \/ DormantBusy
           \/ OpenDormant
  BY <1>1 DEF DormantTests, DormantDozes, DormantAnswers, DormantDrained, DormantCommits,
       DormantBegins, DormantWakes, DormantBusy, OpenDormant, OpenInv
<1>2. CASE UNCHANGED <<dpc, task>>
  BY <1>2
<1> QED
  BY <1>1, <1>2, DormantFrame DEF DormantStep

\* How the steps of eval() move a caller, as far as its task is concerned.
LEMMA CallMoves ==
    ASSUME TypeOK, [Next]_vars, NEW c \in Caller,
           callPc'[c] \in {"emplace", "notify", "get"}
    PROVE  \/ CallEval(c) /\ current'[c] = calls + 1 /\ calls' = calls + 1
           \/ /\ current'[c] = current[c]
              /\ \/ callPc'[c] = callPc[c] /\ ~Emplace(c)
                 \/ callPc[c] = "emplace" /\ Emplace(c) /\ callPc'[c] = "notify"
                 \/ callPc[c] = "notify" /\ callPc'[c] = "get"
<1> USE DEF TypeOK, CallTypeOK
<1>1. ASSUME NEW d \in Caller, d # c,
             CallEval(d) \/ CallerStep(d) \/ InlineBegins(d) \/ InlineBusy(d)
      PROVE  callPc'[c] = callPc[c] /\ current'[c] = current[c]
  BY <1>1 DEF CallEval, CallerStep, Emplace, Notify, GetAnswer, TimedOut, InlineRuns,
       InlineThrows, InlineCommits, InlineBegins, InlineBusy, Return, Move
<1>2. ASSUME callPc'[c] = callPc[c] PROVE ~Emplace(c)
  BY <1>2 DEF Emplace, Move
<1>3. CASE CallEval(c)
  BY <1>3 DEF CallEval
<1>4. CASE Emplace(c)
  BY <1>4 DEF Emplace, Move
<1>5. CASE Notify(c)
  BY <1>5 DEF Notify, Move
<1>6. CASE \/ GetAnswer(c) \/ TimedOut(c) \/ InlineRuns(c) \/ InlineThrows(c)
           \/ InlineCommits(c) \/ InlineBegins(c) \/ InlineBusy(c)
  BY <1>6 DEF GetAnswer, TimedOut, InlineRuns, InlineThrows, InlineCommits, InlineBegins,
       InlineBusy, Return, Move
<1>7. CASE UNCHANGED callVars
  BY <1>2, <1>7 DEF callVars
<1> QED
  BY <1>1, <1>2, <1>3, <1>4, <1>5, <1>6, <1>7, CallFrame DEF CallerStep

\* The number of calls only grows, in CallEval.
LEMMA CallsGrow ==
    ASSUME TypeOK, [Next]_vars
    PROVE  calls \in Nat /\ calls' \in {calls, calls + 1}
<1>1. calls \in Nat
  BY DatabaseAssumption DEF TypeOK, CallTypeOK
<1>2. ASSUME NEW c \in Caller,
             CallEval(c) \/ CallerStep(c) \/ InlineBegins(c) \/ InlineBusy(c)
      PROVE  calls' \in {calls, calls + 1}
  BY <1>2 DEF CallEval, CallerStep, Emplace, Notify, GetAnswer, TimedOut, InlineRuns,
       InlineThrows, InlineCommits, InlineBegins, InlineBusy
<1>3. CASE UNCHANGED callVars
  BY <1>1, <1>3 DEF callVars
<1> QED
  BY <1>1, <1>2, <1>3, CallFrame

\* What each step does to the place of a task: the four that move one.
LEMMA EmplacePlaces ==
    ASSUME TypeOK, CallInv, OpenInv, OnceInv, NEW c \in Caller, Emplace(c)
    PROVE  /\ Items(pending') = Items(pending) \cup {current[c]}
           /\ current[c] \in Task /\ Unplaced(current[c])
           /\ Distinct(pending')
           /\ UNCHANGED <<ran, dpc, task>>
<1>1. current[c] \in Task /\ Unplaced(current[c])
  BY DEF CallInv, OnceInv, Emplace
<1>2. pending \in Seq(Task) /\ pending' = Append(pending, current[c])
  BY DEF TypeOK, TaskTypeOK, Emplace
<1>3. UNCHANGED <<ran, dpc, task>>
  BY DEF Emplace, dormantVars
<1>4. Distinct(pending) /\ current[c] \notin Items(pending)
  BY <1>1 DEF OnceInv, Unplaced
<1> QED
  BY <1>1, <1>2, <1>3, <1>4, QueueAppend

LEMMA PopsPlaces ==
    ASSUME TypeOK, OnceInv, DormantPops
    PROVE  /\ task' \in Task /\ dpc' = "run" /\ dpc = "drain"
           /\ Items(pending) = {task'} \cup Items(pending')
           /\ task' \notin Items(pending')
           /\ Distinct(pending')
           /\ UNCHANGED ran
<1>1. pending \in Seq(Task) /\ pending # <<>> /\ task' = Head(pending) /\ pending' = Tail(pending)
  BY DEF TypeOK, TaskTypeOK, DormantPops
<1>2. UNCHANGED ran /\ dpc' = "run" /\ dpc = "drain" /\ Distinct(pending)
  BY DEF DormantPops, OnceInv
<1> QED
  BY <1>1, <1>2, QueuePop

LEMMA RunsPlaces ==
    ASSUME TypeOK, CallInv, OnceInv, DormantRuns
    PROVE  /\ task \in Task /\ dpc = "run" /\ dpc' # "run"
           /\ ran[task] = 0
           /\ \A t \in Task : ran'[t] = IF t = task THEN 1 ELSE ran[t]
           /\ UNCHANGED pending
  BY DEF DormantRuns, TypeOK, TaskTypeOK, CallInv, OnceInv

\* ... and the others.
LEMMA PlacesFrame ==
    ASSUME OpenInv, [Next]_vars, ~DormantPops, ~DormantRuns, ~ \E c \in Caller : Emplace(c)
    PROVE  /\ UNCHANGED <<pending, ran>>
           /\ dpc' = "run" <=> dpc = "run"
           /\ dpc = "run" => task' = task
<1>1. UNCHANGED <<pending, ran>>
  <2>1. CASE DormantAnswers
    BY <2>1 DEF DormantAnswers
  <2>2. CASE UNCHANGED taskVars
    BY <2>2 DEF taskVars
  <2> QED
    BY <2>1, <2>2, TaskFrame
<1> QED
  BY <1>1, FlightFrame

\* A task that was unplaced stays so until its caller queues it ...
LEMMA StaysUnplaced ==
    ASSUME TypeOK, CallInv, OpenInv, OnceInv, [Next]_vars, NEW t \in Task, Unplaced(t),
           \A c \in Caller : Emplace(c) => t # current[c]
    PROVE  Unplaced(t)'
<1> USE DEF Unplaced, InFlight
<1>1. ASSUME NEW c \in Caller, Emplace(c) PROVE Unplaced(t)'
  BY <1>1, EmplacePlaces
<1>2. CASE DormantPops
  BY <1>2, PopsPlaces
<1>3. CASE DormantRuns
  BY <1>3, RunsPlaces
<1>4. CASE ~DormantPops /\ ~DormantRuns /\ ~ \E c \in Caller : Emplace(c)
  BY <1>4, PlacesFrame
<1> QED
  BY <1>1, <1>2, <1>3, <1>4

\* ... and one that was placed stays placed.
LEMMA StaysPlaced ==
    ASSUME TypeOK, CallInv, OpenInv, OnceInv, [Next]_vars, NEW t \in Task, Placed(t)
    PROVE  Placed(t)'
<1> USE DEF Placed, InFlight
<1>1. ASSUME NEW c \in Caller, Emplace(c) PROVE Placed(t)'
  BY <1>1, EmplacePlaces
<1>2. CASE DormantPops
  BY <1>2, PopsPlaces
<1>3. CASE DormantRuns
  BY <1>3, RunsPlaces
<1>4. CASE ~DormantPops /\ ~DormantRuns /\ ~ \E c \in Caller : Emplace(c)
  BY <1>4, PlacesFrame
<1> QED
  BY <1>1, <1>2, <1>3, <1>4

LEMMA OnceInvStep ==
    ASSUME TypeOK, CallInv, OpenInv, CurrentInv, OnceInv, [Next]_vars
    PROVE  OnceInv'
<1>1. ASSUME NEW t \in Task, t > calls' PROVE Unplaced(t)'
  <2>1. t > calls
    BY <1>1, CallsGrow DEF Task
  <2>2. ASSUME NEW c \in Caller PROVE t # current[c]
    BY <2>1, CallsGrow DEF CurrentInv, TypeOK, CallTypeOK, Task
  <2> QED
    BY <2>1, <2>2, StaysUnplaced DEF OnceInv
<1>2. ASSUME NEW c \in Caller, callPc'[c] = "emplace" PROVE Unplaced(current[c])'
  <2>1. current'[c] \in Task
    BY <1>2, CallInvStep DEF CallInv
  <2>2. PICK t \in Task : t = current'[c]
    BY <2>1
  <2>3. CASE CallEval(c) /\ current'[c] = calls + 1 /\ calls' = calls + 1
    <3>1. Unplaced(t)
      BY <2>2, <2>3, CallsGrow DEF OnceInv
    <3>2. \A d \in Caller : t # current[d]
      BY <2>2, <2>3, CallsGrow DEF CurrentInv, TypeOK, CallTypeOK
    <3> QED
      BY <2>2, <3>1, <3>2, StaysUnplaced DEF Unplaced, InFlight
  <2>4. CASE current'[c] = current[c] /\ callPc[c] = "emplace" /\ ~Emplace(c)
    <3>1. Unplaced(t)
      BY <2>2, <2>4 DEF OnceInv
    <3>2. ASSUME NEW d \in Caller, Emplace(d) PROVE t # current[d]
      <4>1. d # c /\ callPc[d] = "emplace"
        BY <2>4, <3>2 DEF Emplace
      <4> QED
        BY <2>2, <2>4, <4>1 DEF CurrentInv
    <3> QED
      BY <2>2, <3>1, <3>2, StaysUnplaced DEF Unplaced, InFlight
  <2> QED
    BY <1>2, <2>3, <2>4, CallMoves
<1>3. /\ Distinct(pending')
      /\ \A t \in Items(pending') : ran'[t] = 0 /\ ~InFlight(t)'
      /\ dpc' = "run" => ran'[task'] = 0
      /\ \A t \in Task : ran'[t] <= 1
  <2> USE DEF OnceInv, InFlight
  <2>1. ASSUME NEW c \in Caller, Emplace(c) PROVE <1>3!:
    BY <2>1, EmplacePlaces DEF Unplaced
  <2>2. CASE DormantPops
    BY <2>2, PopsPlaces
  <2>3. CASE DormantRuns
    <3>1. \A t \in Items(pending) : t \in Task
      BY DEF Items, TypeOK, TaskTypeOK
    <3> QED
      BY <2>3, <3>1, RunsPlaces
  <2>4. CASE ~DormantPops /\ ~DormantRuns /\ ~ \E c \in Caller : Emplace(c)
    BY <2>4, PlacesFrame
  <2> QED
    BY <2>1, <2>2, <2>3, <2>4
<1> QED
  BY <1>1, <1>2, <1>3 DEF OnceInv

LEMMA PlacedInvStep ==
    ASSUME TypeOK, CallInv, OpenInv, OnceInv, PlacedInv, [Next]_vars
    PROVE  PlacedInv'
<1>1. ASSUME NEW c \in Caller, callPc'[c] \in {"notify", "get"} PROVE Placed(current[c])'
  <2>1. PICK t \in Task : t = current'[c]
    BY <1>1, CallInvStep DEF CallInv
  <2>2. CASE Emplace(c) /\ current'[c] = current[c]
    BY <2>1, <2>2, EmplacePlaces DEF Placed
  <2>3. CASE current'[c] = current[c] /\ callPc[c] \in {"notify", "get"}
    <3>1. Placed(t)
      BY <2>1, <2>3 DEF PlacedInv
    <3> QED
      BY <2>1, <3>1, StaysPlaced DEF Placed, InFlight
  <2>4. ~CallEval(c)
    BY <1>1 DEF CallEval, Move, TypeOK, CallTypeOK
  <2> QED
    BY <1>1, <2>2, <2>3, <2>4, CallMoves
<1>2. ASSUME NEW t \in Task, result'[t] = "timeout" PROVE Placed(t)'
  <2>1. CASE result[t] = "timeout"
    BY <2>1, StaysPlaced DEF PlacedInv
  <2>2. ASSUME NEW c \in Caller, TimedOut(c) PROVE Placed(t)'
    <3>1. result[t] = "timeout" \/ (t = current[c] /\ callPc[c] = "get")
      BY <1>2, <2>2 DEF TimedOut, Return, TypeOK, CallTypeOK
    <3> QED
      BY <2>1, <3>1, StaysPlaced DEF PlacedInv
  <2>3. ASSUME NEW c \in Caller, GetAnswer(c) \/ InlineThrows(c) \/ InlineCommits(c)
        PROVE  result[t] = "timeout"
    BY <1>2, <2>3
       DEF GetAnswer, InlineThrows, InlineCommits, Return, TypeOK, CallTypeOK, TaskTypeOK, CallInv
  <2>4. ASSUME NEW c \in Caller, \/ CallEval(c) \/ Emplace(c) \/ Notify(c) \/ InlineRuns(c)
                                 \/ InlineBegins(c) \/ InlineBusy(c)
        PROVE  result[t] = "timeout"
    BY <1>2, <2>4 DEF CallEval, Emplace, Notify, InlineRuns, InlineBegins, InlineBusy
  <2>5. CASE UNCHANGED callVars
    BY <1>2, <2>1, <2>5 DEF callVars
  <2> QED
    BY <2>1, <2>2, <2>3, <2>4, <2>5, CallFrame DEF CallerStep
<1> QED
  BY <1>1, <1>2 DEF PlacedInv

LEMMA TasksInductive == Spec => []TaskInv
<1>1. Init => TaskInv
  <2>1. Init => Items(pending) = {} /\ Distinct(pending)
    BY DEF Init, Items, Distinct
  <2> QED
    BY <2>1, DatabaseAssumption
       DEF Init, TaskInv, EffectInv, CurrentInv, OnceInv, PlacedInv, Unplaced, InFlight, Task
<1>2. IInv /\ TaskInv /\ [Next]_vars => TaskInv'
  BY EffectInvStep, CurrentInvStep, OnceInvStep, PlacedInvStep DEF IInv, TaskInv
<1> QED
  BY <1>1, <1>2, Inductive, PTL DEF Spec

\* AsyncDatabaseAccessor::eval returns normally only when its functor wrote, on the
\* dormant thread or inline, and a queued functor runs at most once: neither a retried
\* transaction nor a timeout, nor both at once, makes the dormant thread run it again.
THEOREM EvalRunsOnce == Spec => []EvalRan
<1>1. TaskInv => EvalRan
  BY DEF TaskInv, EffectInv, OnceInv, EvalRan
<1> QED
  BY <1>1, TasksInductive, PTL
--------------------------------------------------------------------------------
(***************************************************************************)
(* Closing.                                                                *)
(***************************************************************************)
StopPcs == {"notifyDormant", "joinDormant", "flush", "flushing", "closed"}

\* While DatabaseThread::close runs nobody calls eval(), afterwards eval() runs its
\* functor on the spot; stop_ is set once the writer is gone, and what the dormant
\* thread leaves behind it from then on is an empty queue.
CloseInv ==
    /\ mpc \in ({"joinWriter", "stopDormant"} \cup StopPcs) \ {"closed"} =>
           \A c \in Caller : callPc[c] = "idle"
    /\ mpc = "closed" =>
           \A c \in Caller : callPc[c] \in {"idle", "inline", "inlineRun", "inlineCommit"}
    /\ mpc \in {"stopDormant"} \cup StopPcs => wpc = "exited"
    /\ mpc \in {"running", "joinWriter", "stopDormant"} => ~stop
    /\ mpc \in StopPcs => stop
    /\ dpc = "exited" => mpc \in StopPcs
    /\ mpc \in StopPcs /\ dpc \in {"commit", "exited"} => pending = <<>>
    /\ mpc \in {"flush", "flushing", "closed"} => dpc = "exited"
    /\ mpc = "closed" => input = <<>>

\* Only the main thread moves open and close along.
LEMMA MainFrame ==
    ASSUME [Next]_vars, ~(MainStep \/ StopWriter \/ StopDormant \/ FlushBegins \/ FlushBusy)
    PROVE  UNCHANGED <<mpc, stop>>
<1>1. CASE Arrive \/ Finished \/ UNCHANGED vars
  BY <1>1 DEF Arrive, Finished, vars
<1>2. CASE WriterStep \/ WriterBegins \/ WriterBusy
  BY <1>2 DEF WriterStep, WriterEnters, WriterPops, WriterSleeps, WriterInserts,
       WriterChecks, WriterCommits, WriterWakes, WriterBegins, WriterBusy
<1>3. CASE DormantStep \/ DormantBegins \/ DormantWakes \/ DormantBusy
  BY <1>3 DEF DormantStep, DormantTests, DormantDozes, DormantPops, DormantRuns,
       DormantAnswers, DormantDrained, DormantCommits, DormantBegins, DormantWakes,
       DormantBusy
<1>4. ASSUME NEW c \in Caller,
             CallEval(c) \/ CallerStep(c) \/ InlineBegins(c) \/ InlineBusy(c)
      PROVE  UNCHANGED <<mpc, stop>>
  BY <1>4 DEF CallEval, CallerStep, Emplace, Notify, GetAnswer, TimedOut, InlineRuns,
       InlineThrows, InlineCommits, InlineBegins, InlineBusy
<1> QED
  BY <1>1, <1>2, <1>3, <1>4 DEF Next, BusyStep

\* The steps of the main thread keep it.
LEMMA CloseMain ==
    ASSUME TypeOK, OpenInv, OwnerInv, CloseInv,
           MainStep \/ StopWriter \/ StopDormant \/ FlushBegins \/ FlushBusy
    PROVE  CloseInv'
<1> USE DEF CloseInv, StopPcs
<1>1. CASE OpenWriter
  BY <1>1 DEF OpenWriter, OpenInv, callVars, itemVars, taskVars, dormantVars
<1>2. CASE OpenDormant
  BY <1>2 DEF OpenDormant, callVars, itemVars, taskVars, writerVars
<1>3. CASE JoinWriter
  BY <1>3 DEF JoinWriter, callVars, itemVars, taskVars, writerVars, dormantVars
<1>4. CASE CloseNotify
  BY <1>4 DEF CloseNotify, callVars, itemVars, taskVars, writerVars
<1>5. CASE JoinDormant
  BY <1>5 DEF JoinDormant, callVars, itemVars, taskVars, writerVars, dormantVars
<1>6. CASE FlushInserts
  BY <1>6 DEF FlushInserts, callVars, taskVars, writerVars, dormantVars
<1>7. CASE FlushCommits
  BY <1>7 DEF FlushCommits, callVars, itemVars, taskVars, writerVars, dormantVars
<1>8. CASE StopWriter
  BY <1>8 DEF StopWriter, callVars, itemVars, taskVars, dormantVars
<1>9. CASE StopDormant
  BY <1>9 DEF StopDormant, HoldsMutex, callVars, itemVars, taskVars, writerVars, dormantVars
<1>10. CASE FlushBegins \/ FlushBusy
  BY <1>10 DEF FlushBegins, FlushBusy, callVars, itemVars, taskVars, writerVars, dormantVars
<1> QED
  BY <1>1, <1>2, <1>3, <1>4, <1>5, <1>6, <1>7, <1>8, <1>9, <1>10 DEF MainStep

\* The writer does not come back.
LEMMA ExitedStays ==
    ASSUME [Next]_vars, wpc = "exited", mpc # "opening"
    PROVE  wpc' = "exited"
<1>1. CASE \/ WriterEnters \/ WriterBegins \/ WriterPops \/ WriterSleeps \/ WriterInserts
           \/ WriterChecks \/ WriterCommits \/ WriterBusy \/ WriterWakes \/ OpenWriter
           \/ StopWriter
  BY <1>1 DEF WriterEnters, WriterBegins, WriterPops, WriterSleeps, WriterInserts,
       WriterChecks, WriterCommits, WriterBusy, WriterWakes, OpenWriter, StopWriter
<1>2. CASE UNCHANGED writerVars
  BY <1>2 DEF writerVars
<1> QED
  BY <1>1, <1>2, WriterFrame

\* Nobody calls eval() while close runs, and nobody queues a task after it.
LEMMA ClosedCalls ==
    ASSUME TypeOK, CloseInv, [Next]_vars, UNCHANGED <<mpc, stop>>
    PROVE  /\ mpc \in ({"joinWriter", "stopDormant"} \cup StopPcs) \ {"closed"} =>
                  \A c \in Caller : callPc'[c] = "idle"
           /\ mpc = "closed" =>
                  \A c \in Caller : callPc'[c] \in {"idle", "inline", "inlineRun", "inlineCommit"}
<1> USE DEF CloseInv, StopPcs
<1>1. ASSUME NEW c \in Caller,
             CallEval(c) \/ CallerStep(c) \/ InlineBegins(c) \/ InlineBusy(c),
             mpc \in ({"joinWriter", "stopDormant"} \cup StopPcs) \ {"closed"}
      PROVE  FALSE
  BY <1>1 DEF CallEval, CallerStep, Emplace, Notify, GetAnswer, TimedOut, InlineRuns,
       InlineThrows, InlineCommits, InlineBegins, InlineBusy
<1>2. ASSUME NEW c \in Caller,
             CallEval(c) \/ CallerStep(c) \/ InlineBegins(c) \/ InlineBusy(c),
             mpc = "closed", NEW d \in Caller
      PROVE  callPc'[d] \in {"idle", "inline", "inlineRun", "inlineCommit"}
  BY <1>2 DEF CallEval, CallerStep, Emplace, Notify, GetAnswer, TimedOut, InlineRuns,
       InlineThrows, InlineCommits, InlineBegins, InlineBusy, Return, Move, TypeOK,
       CallTypeOK
<1>3. CASE UNCHANGED callVars
  BY <1>3 DEF callVars
<1> QED
  BY <1>1, <1>2, <1>3, CallFrame

\* Only arrivals, the writer and the final flush touch the queue of the stage.
LEMMA InputFrame ==
    ASSUME [Next]_vars, ~(Arrive \/ FlushInserts \/ WriterPops)
    PROVE  input' = input
<1>1. CASE \/ WriterInserts \/ WriterBusy \/ WriterEnters \/ WriterBegins \/ WriterSleeps
           \/ WriterChecks \/ WriterCommits \/ WriterWakes
  BY <1>1 DEF WriterInserts, WriterBusy, WriterEnters, WriterBegins, WriterSleeps,
       WriterChecks, WriterCommits, WriterWakes, itemVars
<1>2. CASE DormantStep \/ DormantBegins \/ DormantWakes \/ DormantBusy
  BY <1>2 DEF DormantStep, DormantTests, DormantDozes, DormantPops, DormantRuns,
       DormantAnswers, DormantDrained, DormantCommits, DormantBegins, DormantWakes,
       DormantBusy, itemVars
<1>3. CASE \/ OpenWriter \/ OpenDormant \/ JoinWriter \/ CloseNotify \/ JoinDormant
           \/ FlushCommits \/ StopWriter \/ StopDormant \/ FlushBegins \/ FlushBusy
           \/ Finished \/ UNCHANGED vars
  BY <1>3 DEF OpenWriter, OpenDormant, JoinWriter, CloseNotify, JoinDormant, FlushCommits,
       StopWriter, StopDormant, FlushBegins, FlushBusy, Finished, vars, itemVars
<1>4. ASSUME NEW c \in Caller,
             CallEval(c) \/ CallerStep(c) \/ InlineBegins(c) \/ InlineBusy(c)
      PROVE  input' = input
  BY <1>4 DEF CallEval, CallerStep, Emplace, Notify, GetAnswer, TimedOut, InlineRuns,
       InlineThrows, InlineCommits, InlineBegins, InlineBusy, itemVars
<1> QED
  BY <1>1, <1>2, <1>3, <1>4 DEF Next, WriterStep, MainStep, BusyStep

LEMMA CloseInvStep ==
    ASSUME TypeOK, OpenInv, OwnerInv, CloseInv, [Next]_vars
    PROVE  CloseInv'
<1>1. CASE MainStep \/ StopWriter \/ StopDormant \/ FlushBegins \/ FlushBusy
  BY <1>1, CloseMain
<1>2. CASE UNCHANGED <<mpc, stop>>
  <2> USE DEF CloseInv, StopPcs
  <2>1. mpc' \in {"stopDormant"} \cup StopPcs => wpc' = "exited"
    BY <1>2, ExitedStays
  <2>2. /\ dpc' = "exited" => mpc' \in StopPcs
        /\ mpc' \in {"flush", "flushing", "closed"} => dpc' = "exited"
    <3>1. CASE DormantCommits
      BY <1>2, <3>1 DEF DormantCommits, OpenInv, TypeOK
    <3>2. CASE \/ DormantTests \/ DormantDozes \/ DormantPops \/ DormantRuns
               \/ DormantAnswers \/ DormantDrained \/ DormantBegins \/ DormantWakes
               \/ DormantBusy \/ OpenDormant
      BY <1>2, <3>2 DEF DormantTests, DormantDozes, DormantPops, DormantRuns,
           DormantAnswers, DormantDrained, DormantBegins, DormantWakes, DormantBusy,
           OpenDormant
    <3>3. CASE UNCHANGED <<dpc, task>>
      BY <1>2, <3>3
    <3> QED
      BY <3>1, <3>2, <3>3, DormantFrame DEF DormantStep
  <2>3. mpc' \in StopPcs /\ dpc' \in {"commit", "exited"} => pending' = <<>>
    <3>1. CASE DormantPops \/ DormantRuns \/ DormantAnswers
      BY <3>1 DEF DormantPops, DormantRuns, DormantAnswers
    <3>2. ASSUME NEW c \in Caller, Emplace(c) PROVE mpc \notin StopPcs
      BY <3>2 DEF Emplace
    <3>3. CASE UNCHANGED taskVars
      <4>1. CASE DormantDrained
        BY <4>1 DEF DormantDrained, taskVars
      <4>2. CASE DormantCommits
        BY <1>2, <4>2 DEF DormantCommits, taskVars
      <4>3. CASE \/ DormantTests \/ DormantDozes \/ DormantBegins \/ DormantWakes
                 \/ DormantBusy \/ OpenDormant
        BY <4>3 DEF DormantTests, DormantDozes, DormantBegins, DormantWakes, DormantBusy,
             OpenDormant
      <4>4. CASE UNCHANGED <<dpc, task>>
        BY <1>2, <3>3, <4>4 DEF taskVars
      <4> QED
        BY <3>1, <4>1, <4>2, <4>3, <4>4, DormantFrame DEF DormantStep
    <3> QED
      BY <1>2, <3>1, <3>2, <3>3, TaskFrame
  <2>4. mpc' = "closed" => input' = <<>>
    <3>1. CASE Arrive \/ FlushInserts
      BY <1>2, <3>1 DEF Arrive, FlushInserts
    <3>2. ASSUME mpc = "closed" PROVE ~WriterPops
      BY <3>2 DEF WriterPops
    <3>3. CASE input' = input
      BY <1>2, <3>3
    <3> QED
      BY <1>2, <3>1, <3>2, <3>3, InputFrame
  <2> QED
    BY <1>2, <2>1, <2>2, <2>3, <2>4, ClosedCalls
<1> QED
  BY <1>1, <1>2, MainFrame

\* A sorted sequence of numbers has as many elements as places.
LEMMA SortedCardinality ==
    ASSUME NEW s \in Seq(Nat), Sorted(s)
    PROVE  IsFiniteSet(Items(s)) /\ Cardinality(Items(s)) = Len(s)
<1> DEFINE n == Len(s)
           f == [i \in 1..n |-> s[i]]
<1>1. n \in Nat /\ DOMAIN s = 1..n /\ \A i \in 1..n : s[i] \in Nat
  OBVIOUS
<1>2. IsFiniteSet(1..n) /\ Cardinality(1..n) = n
  <2>1. IsFiniteSet(1..n) /\ Cardinality(1..n) = IF 1 > n THEN 0 ELSE n - 1 + 1
    BY <1>1, FS_Interval
  <2> QED
    BY <1>1, <2>1
<1> HIDE DEF n
<1>3. \A i \in 1..n, j \in 1..n : i # j => s[i] # s[j]
  <2>1. SUFFICES ASSUME NEW i \in 1..n, NEW j \in 1..n, i # j PROVE s[i] # s[j]
    OBVIOUS
  <2>2. i < j \/ j < i
    BY <1>1, <2>1
  <2>3. s[i] < s[j] \/ s[j] < s[i]
    BY <1>1, <2>1, <2>2 DEF Sorted
  <2> QED
    BY <1>1, <2>3
<1>4. f \in [1..n -> Items(s)]
  BY <1>1 DEF Items
<1>5. f \in Injection(1..n, Items(s))
  BY <1>3, <1>4 DEF Injection, IsInjective
<1>6. f \in Surjection(1..n, Items(s))
  BY <1>1, <1>4 DEF Surjection, Items
<1>7. ExistsBijection(1..n, Items(s))
  BY <1>5, <1>6 DEF ExistsBijection, Bijection
<1> QED
  BY <1>2, <1>7, FS_Bijection DEF n

\* DatabaseThread::close and the flush after it leave nothing behind: no task in the
\* queue, every task whose caller gave up has run, once, and every item that ever
\* arrived is a row, but for those a rollback took.
THEOREM ClosingDrains == Spec => []ClosedDrained
<1>1. Init => CloseInv
  BY DEF Init, CloseInv, StopPcs
<1>2. IInv /\ CloseInv /\ [Next]_vars => CloseInv'
  BY CloseInvStep DEF IInv
<1>3. ASSUME IInv, RowInv, TaskInv, CloseInv, mpc = "closed"
      PROVE  /\ pending = <<>>
             /\ \A t \in Task : result[t] = "timeout" => ran[t] = 1
             /\ Len(table) + Cardinality(lost) = sent
  <2>1. pending = <<>> /\ dpc = "exited" /\ wpc = "exited" /\ input = <<>>
    BY <1>3 DEF CloseInv, StopPcs
  <2>2. ASSUME NEW t \in Task, result[t] = "timeout" PROVE ran[t] = 1
    BY <1>3, <2>1, <2>2, ItemsShort DEF TaskInv, PlacedInv, Placed, InFlight
  <2>3. txn = <<>> /\ hand = <<>>
    BY <1>3, <2>1 DEF RowInv, PlaceInv, IInv, OwnerInv, WriterBody
  <2>4. /\ table \in Seq(Nat) /\ sent \in Nat /\ Sorted(table)
        /\ Items(table) \cup lost = 1..sent /\ Items(table) \cap lost = {}
    BY <1>3, <2>1, <2>3, PartsTyped, ItemsShort
       DEF IInv, RowInv, PartsInv, PartsSorted, OnTheWay
  <2>5. IsFiniteSet(Items(table)) /\ Cardinality(Items(table)) = Len(table)
    BY <2>4, SortedCardinality
  <2>6. IsFiniteSet(1..sent) /\ Cardinality(1..sent) = sent
    <3>1. IsFiniteSet(1..sent) /\ Cardinality(1..sent) = IF 1 > sent THEN 0 ELSE sent - 1 + 1
      BY <2>4, FS_Interval
    <3> QED
      BY <2>4, <3>1
  <2>7. lost = (1..sent) \ Items(table) /\ (1..sent) \cap Items(table) = Items(table)
    BY <2>4
  <2>8. Cardinality(lost) = sent - Len(table)
    <3> DEFINE S == 1..sent
               T == Items(table)
    <3>1. IsFiniteSet(S) /\ Cardinality(S) = sent /\ lost = S \ T /\ S \cap T = T
      BY <2>6, <2>7
    <3> HIDE DEF S, T
    <3>2. Cardinality(S \ T) = Cardinality(S) - Cardinality(S \cap T)
      BY <3>1, FS_Difference
    <3>3. Cardinality(T) = Len(table)
      BY <2>5 DEF T
    <3> QED
      BY <3>1, <3>2, <3>3
  <2>9. Len(table) \in Nat
    BY <2>4
  <2> QED
    BY <2>1, <2>2, <2>4, <2>8, <2>9
<1>4. IInv /\ RowInv /\ TaskInv /\ CloseInv => ClosedDrained
  BY <1>3 DEF ClosedDrained
<1> QED
  BY <1>1, <1>2, <1>4, Inductive, RowsInductive, TasksInductive, PTL DEF Spec
================================================================================
