----------------------------- MODULE DatabaseThread -----------------------------
(***************************************************************************)
(* The database thread: everything that shares SimDB's one connection.     *)
(*                                                                         *)
(*   writer    DatabaseThread::run_, called by PollingThread::loop_: runs  *)
(*             the database stage inside a transaction, and gives up the   *)
(*             transaction when an eval() task waits                       *)
(*   dormant   DormantThread::loop_: sleeps on cond_var_ until a task or   *)
(*             stop_ arrives, runs all waiting tasks in one transaction    *)
(*   callers   AsyncDatabaseAccessor::eval on stage threads and on the     *)
(*             application's main thread                                   *)
(*   main      DatabaseThread::open, close and flushRunnables              *)
(*                                                                         *)
(* They meet in Transaction::safeTransaction: one mutex, BEGIN, the        *)
(* functor, COMMIT; on SQLITE_BUSY, rollback and the functor once more.    *)
(* Another process that holds the database file is what makes SQLite       *)
(* answer BUSY; it may do so MaxBusy times.                                *)
(***************************************************************************)
EXTENDS Integers, Sequences, FiniteSets

CONSTANTS
    Caller,     \* threads that call eval()
    Main,       \* the caller that is the application's main thread
    Timed,      \* callers that pass a timeout
    MaxCalls,   \* bound: eval() calls, of all callers together
    MaxItems,   \* bound: items that reach the database stage
    MaxBusy     \* bound: BUSY answers that cost a transaction its work

ASSUME DatabaseAssumption ==
    /\ Main \in Caller
    /\ Timed \subseteq Caller
    /\ Caller \cap {"free", "writer", "dormant", "flush"} = {}
    /\ MaxCalls \in Nat
    /\ MaxItems \in Nat
    /\ MaxBusy \in Nat

Item == 1..MaxItems

\* The task of the n-th call of eval().
Task == 1..MaxCalls

VARIABLES
    \* ---- the connection
    owner,     \* whose transaction is open (Transaction::mutex_)
    table,     \* committed rows of the database stage
    txn,       \* rows of the open transaction
    effect,    \* per task: what became of the rows its functor wrote
    lost,      \* items whose row a rollback discarded
    busy,      \* BUSY answers so far
    \* ---- the database stage
    sent,      \* items that reached it so far; item k is the k-th
    input,     \* its input queue
    hand,      \* the item it has popped and not inserted yet
    wpc, wProceed, wDidWork, wDrain, wStop,
    late,      \* rows this transaction began after a task was waiting
    \* ---- eval()
    callPc,
    calls,     \* calls so far
    current,   \* the task of the call each caller is in (0: none)
    pending,   \* pending_async_db_tasks_
    answer,    \* exception_reason of each task
    result,    \* how each call ended
    ran,       \* times each task's functor was run by the dormant thread
    \* ---- the dormant thread
    dpc, task, notified, stop,
    \* ---- the main thread
    mpc

connVars   == <<owner, table, txn, effect, lost, busy>>
writerVars == <<wpc, wProceed, wDidWork, wDrain, wStop, late>>
itemVars   == <<sent, input, hand>>
callVars   == <<callPc, calls, current, result>>
taskVars   == <<pending, answer, ran>>
dormantVars == <<dpc, task, notified>>
vars == <<connVars, itemVars, writerVars, callVars, taskVars, dormantVars, stop, mpc>>

ConnTypeOK ==
    /\ owner \in {"free", "writer", "dormant", "flush"} \cup Caller
    /\ table \in Seq(Item)
    /\ txn \in Seq(Item)
    /\ effect \in [Task -> {"none", "open", "committed", "undone"}]
    /\ lost \in SUBSET Item
    /\ busy \in 0..MaxBusy

ItemTypeOK ==
    /\ sent \in 0..MaxItems
    /\ input \in Seq(Item)
    /\ hand \in Seq(Item)

WriterTypeOK ==
    /\ wpc \in {"off", "top", "begin", "poll", "insert", "check", "commit", "nap", "exited"}
    /\ wProceed \in BOOLEAN
    /\ wDidWork \in BOOLEAN
    /\ wDrain \in BOOLEAN
    /\ wStop \in BOOLEAN
    /\ late \in Nat

CallTypeOK ==
    /\ callPc \in [Caller -> {"idle", "emplace", "notify", "get",
                              "inline", "inlineRun", "inlineCommit"}]
    /\ calls \in 0..MaxCalls
    /\ current \in [Caller -> 0..MaxCalls]
    /\ result \in [Task -> {"pending", "ok", "error", "timeout"}]

TaskTypeOK ==
    /\ pending \in Seq(Task)
    /\ answer \in [Task -> {"none", "ok", "error"}]
    /\ ran \in [Task -> Nat]

DormantTypeOK ==
    /\ dpc \in {"off", "test", "dozing", "waiting", "begin", "drain", "run", "answer",
                "fail", "commit", "exited"}
    /\ task \in 0..MaxCalls
    /\ notified \in BOOLEAN

TypeOK ==
    /\ ConnTypeOK
    /\ ItemTypeOK
    /\ WriterTypeOK
    /\ CallTypeOK
    /\ TaskTypeOK
    /\ DormantTypeOK
    /\ stop \in BOOLEAN
    /\ mpc \in {"opening", "openDormant", "running", "joinWriter", "stopDormant",
                "notifyDormant", "joinDormant", "flush", "flushing", "closed"}

\* DormantThread has no initializer for stop_: until open() sets it, it reads as
\* anything.
Init ==
    /\ owner = "free"
    /\ table = <<>> /\ txn = <<>>
    /\ effect = [t \in Task |-> "none"]
    /\ lost = {}
    /\ busy = 0
    /\ sent = 0 /\ input = <<>> /\ hand = <<>>
    /\ wpc = "off"
    /\ wProceed = FALSE /\ wDidWork = FALSE /\ wDrain = FALSE /\ wStop = FALSE
    /\ late = 0
    /\ callPc = [c \in Caller |-> "idle"]
    /\ calls = 0
    /\ current = [c \in Caller |-> 0]
    /\ pending = <<>>
    /\ answer = [t \in Task |-> "none"]
    /\ result = [t \in Task |-> "pending"]
    /\ ran = [t \in Task |-> 0]
    /\ dpc = "off"
    /\ task = 0
    /\ notified = FALSE
    /\ stop \in BOOLEAN
    /\ mpc = "opening"
--------------------------------------------------------------------------------
(***************************************************************************)
(* safeTransaction, outermost call.                                        *)
(***************************************************************************)
\* Mutant: safeTransaction without its mutex.
BeginUnlocked(who) ==
    /\ owner' = who
    /\ UNCHANGED <<table, txn, effect, lost, busy>>

\* mutex_ and BEGIN TRANSACTION.  A BEGIN that finds the file locked releases the
\* mutex, sleeps and tries again, which changes nothing.
Begin(who) ==
    /\ owner = "free"
    /\ owner' = who
    /\ UNCHANGED <<table, txn, effect, lost, busy>>

\* COMMIT TRANSACTION.
Commit(who) ==
    /\ owner = who
    /\ owner' = "free"
    /\ table' = table \o txn
    /\ txn' = <<>>
    /\ effect' = [t \in Task |-> IF effect[t] = "open" THEN "committed" ELSE effect[t]]
    /\ UNCHANGED <<lost, busy>>

Items(s) == {s[i] : i \in DOMAIN s}

\* Mutant: the exception path sleeps without releasing the mutex.
RollbackKeepsLock(who) ==
    /\ owner = who
    /\ txn' = <<>>
    /\ lost' = lost \cup Items(txn \o hand)
    /\ effect' = [t \in Task |-> IF effect[t] = "open" THEN "undone" ELSE effect[t]]
    /\ UNCHANGED <<owner, table>>

\* Mutant: the exception path forgets ROLLBACK and the next transaction goes on.
RollbackForgotten(who) ==
    /\ owner = who
    /\ owner' = "free"
    /\ lost' = lost \cup Items(txn \o hand)
    /\ UNCHANGED <<table, txn, effect>>

\* ROLLBACK TRANSACTION: what the functor wrote is gone; what it took out of queues
\* is not put back.
Rollback(who) ==
    /\ owner = who
    /\ owner' = "free"
    /\ txn' = <<>>
    /\ lost' = lost \cup Items(txn \o hand)
    /\ effect' = [t \in Task |-> IF effect[t] = "open" THEN "undone" ELSE effect[t]]
    /\ UNCHANGED table

\* SafeTransactionSilentException: roll back, sleep, run the functor again.
Busy(who) ==
    /\ busy < MaxBusy
    /\ busy' = busy + 1
    /\ Rollback(who)
--------------------------------------------------------------------------------
(***************************************************************************)
(* The writer.                                                             *)
(***************************************************************************)
\* An upstream stage pushes an item.
Arrive ==
    /\ mpc \in {"opening", "openDormant", "running"}
    /\ sent < MaxItems
    /\ sent' = sent + 1
    /\ input' = Append(input, sent + 1)
    /\ UNCHANGED <<connVars, hand, writerVars, callVars, taskVars, dormantVars, stop,
                   mpc>>

\* loop_ calls run_; once stop_requested_ is set it does so to drain.
WriterEnters ==
    /\ wpc = "top"
    /\ wpc' = "begin"
    /\ wDrain' = wStop
    /\ wDidWork' = FALSE
    /\ UNCHANGED <<connVars, itemVars, wProceed, wStop, late, callVars, taskVars,
                   dormantVars, stop, mpc>>

WriterBegins ==
    /\ wpc = "begin"
    /\ Begin("writer")
    /\ wpc' = "poll"
    /\ late' = 0
    /\ UNCHANGED <<itemVars, wProceed, wDidWork, wDrain, wStop, callVars, taskVars,
                   dormantVars, stop, mpc>>

\* processOne: pop ...
WriterPops ==
    /\ wpc = "poll"
    /\ input # <<>>
    /\ hand' = <<Head(input)>>
    /\ input' = Tail(input)
    /\ late' = IF pending # <<>> THEN late + 1 ELSE late
    /\ wpc' = "insert"
    /\ UNCHANGED <<connVars, sent, wProceed, wDidWork, wDrain, wStop, callVars,
                   taskVars, dormantVars, stop, mpc>>

WriterSleeps ==
    /\ wpc = "poll"
    /\ input = <<>>
    /\ wProceed' = FALSE
    /\ wpc' = "check"
    /\ UNCHANGED <<connVars, itemVars, wDidWork, wDrain, wStop, late, callVars,
                   taskVars, dormantVars, stop, mpc>>

\* ... and insert the row.
WriterInserts ==
    /\ wpc = "insert"
    /\ txn' = txn \o hand
    /\ hand' = <<>>
    /\ wProceed' = TRUE
    /\ wpc' = "check"
    /\ UNCHANGED <<owner, table, effect, lost, busy, sent, input, wDidWork, wDrain,
                   wStop, late, callVars, taskVars, dormantVars, stop, mpc>>

\* Mutant: run_ does not look for waiting tasks.
WriterIgnoresTasks ==
    /\ wpc = "check"
    /\ UNCHANGED wProceed
    /\ wDidWork' = (wDidWork \/ wProceed)
    /\ wpc' = IF wProceed THEN "poll" ELSE "commit"
    /\ UNCHANGED <<connVars, itemVars, wDrain, wStop, late, callVars, taskVars,
                   dormantVars, stop, mpc>>

\* hasTasks() ends the round as one without work; the functor returns after such a
\* round.
WriterChecks ==
    /\ wpc = "check"
    /\ LET proceed == wProceed /\ pending = <<>>
       IN  /\ wProceed' = proceed
           /\ wDidWork' = (wDidWork \/ proceed)
           /\ wpc' = IF proceed THEN "poll" ELSE "commit"
    /\ UNCHANGED <<connVars, itemVars, wDrain, wStop, late, callVars, taskVars,
                   dormantVars, stop, mpc>>

\* run_ returns to loop_, which naps after a call without work, or to the drain loop,
\* which ends there.
AfterRun ==
    IF wDrain
    THEN IF wDidWork THEN "begin" ELSE "exited"
    ELSE IF wDidWork THEN "top" ELSE "nap"

WriterCommits ==
    /\ wpc = "commit"
    /\ Commit("writer")
    /\ wpc' = AfterRun
    /\ wDidWork' = FALSE
    /\ UNCHANGED <<itemVars, wProceed, wDrain, wStop, late, callVars, taskVars,
                   dormantVars, stop, mpc>>

\* The INSERT or the COMMIT finds the file locked.  did_work keeps its value.
WriterBusy ==
    /\ wpc \in {"insert", "commit"}
    /\ Busy("writer")
    /\ hand' = <<>>
    /\ wpc' = "begin"
    /\ UNCHANGED <<sent, input, wProceed, wDidWork, wDrain, wStop, late, callVars,
                   taskVars, dormantVars, stop, mpc>>

WriterWakes ==
    /\ wpc = "nap"
    /\ wpc' = "top"
    /\ UNCHANGED <<connVars, itemVars, wProceed, wDidWork, wDrain, wStop, late,
                   callVars, taskVars, dormantVars, stop, mpc>>
--------------------------------------------------------------------------------
(***************************************************************************)
(* eval().                                                                 *)
(***************************************************************************)
Move(c, where) == callPc' = [callPc EXCEPT ![c] = where]

\* A call ends and its caller sees outcome.
Return(c, outcome) ==
    /\ Move(c, "idle")
    /\ result' = [result EXCEPT ![current[c]] = outcome]
    /\ current' = [current EXCEPT ![c] = 0]

\* Stage threads call eval() from run_ until they are joined, the main thread whenever
\* it is not inside open or close.  With stop_ set the functor runs right here.
CallEval(c) ==
    /\ callPc[c] = "idle"
    /\ \/ mpc = "running"
       \/ mpc \in {"opening", "openDormant"} /\ c # Main
       \/ mpc = "closed" /\ c = Main
    /\ calls < MaxCalls
    /\ calls' = calls + 1
    /\ current' = [current EXCEPT ![c] = calls + 1]
    /\ Move(c, IF stop THEN "inline" ELSE "emplace")
    /\ UNCHANGED <<connVars, itemVars, writerVars, result, taskVars, dormantVars, stop,
                   mpc>>

Emplace(c) ==
    /\ callPc[c] = "emplace"
    /\ pending' = Append(pending, current[c])
    /\ Move(c, "notify")
    /\ UNCHANGED <<connVars, itemVars, writerVars, calls, current, result, answer, ran,
                   dormantVars, stop, mpc>>

\* cond_var_.notify_one(), without mutex_: wakes the dormant thread only if it is
\* already blocked.
NotifyDormant == notified' = (notified \/ dpc = "waiting")

Notify(c) ==
    /\ callPc[c] = "notify"
    /\ NotifyDormant
    /\ Move(c, "get")
    /\ UNCHANGED <<connVars, itemVars, writerVars, calls, current, result, taskVars,
                   dpc, task, stop, mpc>>

\* Mutant: eval() reads the future's value before it is set.
GetUnanswered(c) ==
    /\ callPc[c] = "get"
    /\ Return(c, answer[current[c]])
    /\ UNCHANGED <<connVars, itemVars, writerVars, calls, taskVars, dormantVars, stop, mpc>>

\* fut.get() returns.
GetAnswer(c) ==
    /\ callPc[c] = "get"
    /\ answer[current[c]] # "none"
    /\ Return(c, answer[current[c]])
    /\ UNCHANGED <<connVars, itemVars, writerVars, calls, taskVars, dormantVars, stop,
                   mpc>>

\* Mutant: the timeout is dropped on its way to wait_for.
NeverTimedOut(c) ==
    /\ callPc[c] = "get"
    /\ c \notin Caller
    /\ UNCHANGED vars

\* fut.wait_for() gives up and eval() throws; the task stays where it is.
TimedOut(c) ==
    /\ callPc[c] = "get"
    /\ c \in Timed
    /\ answer[current[c]] = "none"
    /\ Return(c, "timeout")
    /\ UNCHANGED <<connVars, itemVars, writerVars, calls, taskVars, dormantVars, stop,
                   mpc>>

\* safeTransaction on the calling thread.
InlineBegins(c) ==
    /\ callPc[c] = "inline"
    /\ Begin(c)
    /\ Move(c, "inlineRun")
    /\ UNCHANGED <<itemVars, writerVars, calls, current, result, taskVars, dormantVars,
                   stop, mpc>>

InlineRuns(c) ==
    /\ callPc[c] = "inlineRun"
    /\ effect' = [effect EXCEPT ![current[c]] = "open"]
    /\ Move(c, "inlineCommit")
    /\ UNCHANGED <<owner, table, txn, lost, busy, itemVars, writerVars, calls, current,
                   result, taskVars, dormantVars, stop, mpc>>

InlineThrows(c) ==
    /\ callPc[c] = "inlineRun"
    /\ Rollback(c)
    /\ Return(c, "error")
    /\ UNCHANGED <<busy, itemVars, writerVars, calls, taskVars, dormantVars, stop, mpc>>

InlineBusy(c) ==
    /\ callPc[c] \in {"inlineRun", "inlineCommit"}
    /\ Busy(c)
    /\ Move(c, "inline")
    /\ UNCHANGED <<itemVars, writerVars, calls, current, result, taskVars, dormantVars,
                   stop, mpc>>

InlineCommits(c) ==
    /\ callPc[c] = "inlineCommit"
    /\ Commit(c)
    /\ Return(c, "ok")
    /\ UNCHANGED <<itemVars, writerVars, calls, taskVars, dormantVars, stop, mpc>>
--------------------------------------------------------------------------------
(***************************************************************************)
(* The dormant thread.  It holds mutex_ from the test of the predicate     *)
(* until it blocks on cond_var_ or ends its transaction.                   *)
(***************************************************************************)
HoldsMutex == dpc \in {"dozing", "begin", "drain", "run", "answer", "fail", "commit"}

\* Mutant: the loop leaves as soon as it sees stop_, before it looks at the queue.
DormantTestsStopFirst ==
    /\ dpc = "test"
    /\ dpc' = IF stop THEN "exited" ELSE IF pending # <<>> THEN "begin" ELSE "dozing"
    /\ UNCHANGED <<connVars, itemVars, writerVars, callVars, taskVars, task, notified,
                   stop, mpc>>

\* The predicate of cond_var_.wait.
DormantTests ==
    /\ dpc = "test"
    /\ dpc' = IF pending # <<>> \/ stop THEN "begin" ELSE "dozing"
    /\ UNCHANGED <<connVars, itemVars, writerVars, callVars, taskVars, task, notified,
                   stop, mpc>>

\* It was false: release mutex_ and block.
DormantDozes ==
    /\ dpc = "dozing"
    /\ dpc' = "waiting"
    /\ notified' = FALSE
    /\ UNCHANGED <<connVars, itemVars, writerVars, callVars, taskVars, task, stop, mpc>>

\* Notified, or woken spuriously.
DormantWakes ==
    /\ dpc = "waiting"
    /\ dpc' = "test"
    /\ UNCHANGED <<connVars, itemVars, writerVars, callVars, taskVars, task, notified,
                   stop, mpc>>

DormantBegins ==
    /\ dpc = "begin"
    /\ Begin("dormant")
    /\ dpc' = "drain"
    /\ UNCHANGED <<itemVars, writerVars, callVars, taskVars, task, notified, stop, mpc>>

\* Mutant: the promise is set before the functor runs.
DormantAnswersFirst ==
    /\ dpc = "drain"
    /\ pending # <<>>
    /\ task' = Head(pending)
    /\ pending' = Tail(pending)
    /\ answer' = [answer EXCEPT ![Head(pending)] = "ok"]
    /\ dpc' = "run"
    /\ UNCHANGED <<connVars, itemVars, writerVars, callVars, ran, notified, stop, mpc>>

DormantPops ==
    /\ dpc = "drain"
    /\ pending # <<>>
    /\ task' = Head(pending)
    /\ pending' = Tail(pending)
    /\ dpc' = "run"
    /\ UNCHANGED <<connVars, itemVars, writerVars, callVars, answer, ran, notified,
                   stop, mpc>>

\* The functor writes and returns, or throws before or after it wrote: every exception
\* is caught, one that reports BUSY included, and what was written stays.
DormantRuns ==
    /\ dpc = "run"
    /\ ran' = [ran EXCEPT ![task] = @ + 1]
    /\ \/ /\ effect' = [effect EXCEPT ![task] = "open"]
          /\ dpc' \in {"answer", "fail"}
       \/ /\ UNCHANGED effect
          /\ dpc' = "fail"
    /\ UNCHANGED <<owner, table, txn, lost, busy, itemVars, writerVars, callVars,
                   pending, answer, task, notified, stop, mpc>>

DormantAnswers ==
    /\ dpc \in {"answer", "fail"}
    /\ answer' = [answer EXCEPT ![task] = IF dpc = "answer" THEN "ok" ELSE "error"]
    /\ task' = 0
    /\ dpc' = "drain"
    /\ UNCHANGED <<connVars, itemVars, writerVars, callVars, pending, ran, notified,
                   stop, mpc>>

DormantDrained ==
    /\ dpc = "drain"
    /\ pending = <<>>
    /\ dpc' = "commit"
    /\ UNCHANGED <<connVars, itemVars, writerVars, callVars, taskVars, task, notified,
                   stop, mpc>>

\* Commit, look at stop_, release mutex_.
DormantCommits ==
    /\ dpc = "commit"
    /\ Commit("dormant")
    /\ dpc' = IF stop THEN "exited" ELSE "test"
    /\ UNCHANGED <<itemVars, writerVars, callVars, taskVars, task, notified, stop, mpc>>

\* The functor of safeTransaction runs once more, on what is in the queue now.
DormantBusy ==
    /\ dpc = "commit"
    /\ Busy("dormant")
    /\ dpc' = "begin"
    /\ UNCHANGED <<itemVars, writerVars, callVars, taskVars, task, notified, stop, mpc>>
--------------------------------------------------------------------------------
(***************************************************************************)
(* The main thread: open, close, flushRunnables.                           *)
(***************************************************************************)
OpenWriter ==
    /\ mpc = "opening"
    /\ wpc' = "top"
    /\ mpc' = "openDormant"
    /\ UNCHANGED <<connVars, itemVars, wProceed, wDidWork, wDrain, wStop, late,
                   callVars, taskVars, dormantVars, stop>>

OpenDormant ==
    /\ mpc = "openDormant"
    /\ stop' = FALSE
    /\ dpc' = "test"
    /\ mpc' = "running"
    /\ UNCHANGED <<connVars, itemVars, writerVars, callVars, taskVars, task, notified>>

\* postSimLoopTeardown closes the database thread last: the stage threads have been
\* joined and the main thread is not inside eval().
StopWriter ==
    /\ mpc = "running"
    /\ \A c \in Caller : callPc[c] = "idle"
    /\ wStop' = TRUE
    /\ mpc' = "joinWriter"
    /\ UNCHANGED <<connVars, itemVars, wpc, wProceed, wDidWork, wDrain, late, callVars,
                   taskVars, dormantVars, stop>>

JoinWriter ==
    /\ mpc = "joinWriter"
    /\ wpc = "exited"
    /\ mpc' = "stopDormant"
    /\ UNCHANGED <<connVars, itemVars, writerVars, callVars, taskVars, dormantVars,
                   stop>>

\* DormantThread::close, under mutex_.
StopDormant ==
    /\ mpc = "stopDormant"
    /\ ~HoldsMutex
    /\ stop' = TRUE
    /\ mpc' = "notifyDormant"
    /\ UNCHANGED <<connVars, itemVars, writerVars, callVars, taskVars, dormantVars>>

\* Mutant: close() sets stop_ and does not notify.
CloseSilently ==
    /\ mpc = "notifyDormant"
    /\ mpc' = "joinDormant"
    /\ UNCHANGED <<connVars, itemVars, writerVars, callVars, taskVars, dormantVars, stop>>

CloseNotify ==
    /\ mpc = "notifyDormant"
    /\ NotifyDormant
    /\ mpc' = "joinDormant"
    /\ UNCHANGED <<connVars, itemVars, writerVars, callVars, taskVars, dpc, task, stop>>

JoinDormant ==
    /\ mpc = "joinDormant"
    /\ dpc = "exited"
    /\ mpc' = "flush"
    /\ UNCHANGED <<connVars, itemVars, writerVars, callVars, taskVars, dormantVars,
                   stop>>

\* flushRunnables: processAll of the stage in one transaction.
FlushBegins ==
    /\ mpc = "flush"
    /\ Begin("flush")
    /\ mpc' = "flushing"
    /\ UNCHANGED <<itemVars, writerVars, callVars, taskVars, dormantVars, stop>>

FlushInserts ==
    /\ mpc = "flushing"
    /\ input # <<>>
    /\ txn' = Append(txn, Head(input))
    /\ input' = Tail(input)
    /\ UNCHANGED <<owner, table, effect, lost, busy, sent, hand, writerVars, callVars,
                   taskVars, dormantVars, stop, mpc>>

FlushBusy ==
    /\ mpc = "flushing"
    /\ Busy("flush")
    /\ mpc' = "flush"
    /\ UNCHANGED <<itemVars, writerVars, callVars, taskVars, dormantVars, stop>>

FlushCommits ==
    /\ mpc = "flushing"
    /\ input = <<>>
    /\ Commit("flush")
    /\ mpc' = "closed"
    /\ UNCHANGED <<itemVars, writerVars, callVars, taskVars, dormantVars, stop>>
--------------------------------------------------------------------------------
WriterStep ==
    \/ WriterEnters \/ WriterPops \/ WriterSleeps \/ WriterInserts \/ WriterChecks
    \/ WriterCommits \/ WriterWakes

CallerStep(c) ==
    \/ Emplace(c) \/ Notify(c) \/ GetAnswer(c) \/ TimedOut(c)
    \/ InlineRuns(c) \/ InlineThrows(c) \/ InlineCommits(c)

DormantStep ==
    \/ DormantTests \/ DormantDozes \/ DormantPops \/ DormantRuns \/ DormantAnswers
    \/ DormantDrained \/ DormantCommits

MainStep ==
    \/ OpenWriter \/ OpenDormant \/ JoinWriter \/ CloseNotify \/ JoinDormant
    \/ FlushInserts \/ FlushCommits

BusyStep == WriterBusy \/ DormantBusy \/ FlushBusy \/ \E c \in Caller : InlineBusy(c)

Finished == mpc = "closed" /\ UNCHANGED vars

Next ==
    \/ Arrive
    \/ WriterStep \/ WriterBegins
    \/ \E c \in Caller : CallEval(c) \/ CallerStep(c) \/ InlineBegins(c)
    \/ DormantStep \/ DormantBegins \/ DormantWakes
    \/ MainStep \/ StopWriter \/ StopDormant \/ FlushBegins
    \/ BusyStep
    \/ Finished

Spec == Init /\ [][Next]_vars

(***************************************************************************)
(* Fairness: every thread that can run does; a timeout expires; a thread   *)
(* that waits for a mutex others keep releasing gets it in the end (of the *)
(* callers of eval(), one of those that wait: each leaves with the mutex,  *)
(* and there are finitely many calls).  The dormant thread is only sure to *)
(* wake up when notified, and nobody has to call, to submit, to answer     *)
(* BUSY or to tear down.                                                   *)
(***************************************************************************)
Fairness ==
    /\ WF_vars(WriterStep) /\ SF_vars(WriterBegins)
    /\ \A c \in Caller : WF_vars(CallerStep(c))
    /\ SF_vars(\E c \in Caller : InlineBegins(c))
    /\ WF_vars(DormantStep) /\ SF_vars(DormantBegins)
    /\ WF_vars(notified /\ DormantWakes)
    /\ WF_vars(MainStep) /\ SF_vars(StopDormant \/ FlushBegins)

FairSpec == Spec /\ Fairness
--------------------------------------------------------------------------------
(***************************************************************************)
(* Correctness.                                                            *)
(***************************************************************************)
\* safeTransaction serializes the connection: whoever is between BEGIN and COMMIT owns
\* it, alone, and outside transactions nothing is half written.
OneTransaction ==
    /\ (owner = "writer") <=> (wpc \in {"poll", "insert", "check", "commit"})
    /\ (owner = "dormant") <=> (dpc \in {"drain", "run", "answer", "fail", "commit"})
    /\ (owner = "flush") <=> (mpc = "flushing")
    /\ \A c \in Caller : (owner = c) <=> (callPc[c] \in {"inlineRun", "inlineCommit"})
    /\ owner = "free" => txn = <<>> /\ \A t \in Task : effect[t] # "open"

\* The rows and items of the database stage, oldest first.
Stream == table \o txn \o hand \o input

\* Retrying a transaction never writes a row twice or out of order, and the only items
\* that are not in the table or on their way to it are those a rollback took.
RowsAccounted ==
    /\ \A i, j \in DOMAIN Stream : i < j => Stream[i] < Stream[j]
    /\ Items(Stream) \cup lost = 1..sent
    /\ Items(Stream) \cap lost = {}

\* eval() returns normally only after its functor ran; however often the transaction
\* around it is retried and whatever timeouts fire, a queued functor runs at most once.
EvalRan ==
    \A t \in Task : /\ result[t] = "ok" => effect[t] # "none"
                    /\ ran[t] <= 1

\* A waiting task makes the writer give up its transaction: it begins at most one more
\* row (part6-advanced-pipelines.adoc, "Immediate commit, and the timeout").
Preempted == late <= 1

\* close() and the final flush leave nothing behind: every task that was ever queued,
\* abandoned ones included, has run, and every item is a row unless a rollback took it.
ClosedDrained ==
    mpc = "closed" =>
        /\ pending = <<>>
        /\ \A t \in Task : result[t] = "timeout" => ran[t] = 1
        /\ Len(table) + Cardinality(lost) = sent

\* eval() returns to its caller.
EvalReturns == \A c \in Caller : (callPc[c] # "idle") ~> (callPc[c] = "idle")

\* DatabaseThread::close and the flush after it return.
CloseReturns == (mpc = "joinWriter") ~> (mpc = "closed")

\* Every item gets out of the queue and into a committed transaction, or is lost to a
\* rollback: eval() tasks and BUSY answers do not starve the database stage.
RowsSettle == \A k \in Item : (sent >= k) ~> (k \in Items(table) \cup lost)

\* "retries until the transaction succeeds ... You do not manually retry INSERTs in
\* normal pipeline use" (part9-reference.adoc, 278): at the end every item is a row.
NoRowLost == mpc = "closed" => Len(table) = sent
================================================================================
