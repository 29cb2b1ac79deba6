------------------------------ MODULE TaskCenter ------------------------------
(***************************************************************************)
(* The task centre: the crawl_tasks table and every thread that writes it. *)
(* Request threads (tasks/routes.py) and timer threads (tasks/scheduler.py)*)
(* create tasks and call TaskWorker.submit_next; the jobs of the worker's  *)
(* thread pool run one task each and call submit_next when they are done;  *)
(* the main thread runs the start-up and shut-down of main.py.             *)
(*                                                                         *)
(* submit_next runs under a lock that is not reentrant. It is four steps   *)
(* here, because others act between them: claim_next selects a task        *)
(* (Select) and updates its row (Claim), the pool gets the job (Submit),   *)
(* the future gets its callback and the lock is released (AddCallback).    *)
(*                                                                         *)
(* SQLite's transactions begin at their first write in this application    *)
(* (core/database.py leaves the driver's mode as it is), so what one reads *)
(* before may have changed when it writes: claim_next and request_cancel   *)
(* are two steps each.                                                     *)
(*                                                                         *)
(* What a task's run does between its start and its terminal status is in  *)
(* TaskRun; here it is the one step Finish.                                *)
(***************************************************************************)
EXTENDS Naturals, Sequences, FiniteSets

CONSTANTS
    MaxTask,     \* bound: rows the table may get
    Rule,        \* collection rules
    NoRule,      \* the rule of a task that has no row yet
    Request,     \* threads of the web server that handle requests
    Timer,       \* threads of the scheduler that fire jobs
    Main,        \* the thread that runs the application's lifespan
    Free,        \* the lock has no holder
    MaxWorkers,  \* settings.tasks.max_workers
    CanRun,      \* a WebFetch service is configured: there is a runner_factory
    Faults,      \* the failures of the database or of the configuration that
                 \* may happen: "claim", "start" and "finish"
    MaxCrash     \* bound: how often the process dies

Task == 1..MaxTask

Thread == Request \cup Timer \cup {Main} \cup Task   \* t is also its job's thread

ASSUME CenterAssumption ==
    /\ MaxTask \in Nat
    /\ NoRule \notin Rule
    /\ Main \notin Request \cup Timer \cup Task
    /\ Request \cap Timer = {} /\ (Request \cup Timer) \cap Task = {}
    /\ Free \notin Thread
    /\ MaxWorkers \in Nat \ {0}
    /\ CanRun \in BOOLEAN
    /\ Faults \subseteq {"claim", "start", "finish"}
    /\ MaxCrash \in Nat

VARIABLES
    status, rule, cancel, doomed,  \* the table: see TaskLifecycle
    executor,  \* TaskWorker._executor is not None
    queue,     \* jobs the pool has accepted and no thread of it has taken
    lock,      \* holder of TaskWorker._lock
    pc,        \* where each thread is
    claimed,   \* the task a thread inside submit_next claims
    target,    \* the task a request is about to mark
    crashes

table == <<status, rule, cancel, doomed>>
vars == <<status, rule, cancel, doomed, executor, queue, lock, pc, claimed, target, crashes>>

Lifecycle == INSTANCE TaskLifecycle

(* What occupies a thread of the pool: a job that was taken and not ended. *)
InSubmitNext == {"wake", "claim", "submit", "callback", "stuck"}
Busy == {"starting", "running", "discard"} \cup InSubmitNext

PC == Busy \cup {"idle", "cancel", "boot", "serving", "draining", "down", "queued", "ended"}

TypeOK ==
    /\ Lifecycle!TypeOK
    /\ executor \in BOOLEAN
    /\ queue \in Seq(Task)
    /\ lock \in Thread \cup {Free}
    /\ pc \in [Thread -> PC]
    /\ claimed \in [Thread -> Task \cup {0}]
    /\ target \in [Request -> Task \cup {0}]
    /\ crashes \in 0..MaxCrash

(* The application before its first start-up: an empty table.              *)
Init ==
    /\ Lifecycle!Init
    /\ executor = FALSE
    /\ queue = <<>>
    /\ lock = Free
    /\ pc = [th \in Thread |-> IF th = Main THEN "down" ELSE "idle"]
    /\ claimed = [th \in Thread |-> 0]
    /\ target = [th \in Request |-> 0]
    /\ crashes = 0

-----------------------------------------------------------------------------
(* Requests and timers.                                                    *)

Serving == pc[Main] = "serving"

(* The id the table assigns to its next row.                               *)
IsNextId(t) == status[t] = "absent" /\ \A u \in Task : u < t => status[u] # "absent"

(* create_task of a request, which wants a worker that can run the task,   *)
(* and create_scheduled_task_once of a timer, which does not ask; either   *)
(* one wakes the worker once its row is committed. A timer may still fire  *)
(* while the worker is shut down: the scheduler is not waited for.         *)
Create(th, r, t) ==
    /\ pc[th] = "idle"
    /\ \/ th \in Request /\ Serving /\ executor /\ CanRun
       \/ th \in Timer /\ pc[Main] \in {"serving", "draining"}
    /\ IsNextId(t)
    /\ status' = [status EXCEPT ![t] = "pending"]
    /\ rule' = [rule EXCEPT ![t] = r]
    /\ pc' = [pc EXCEPT ![th] = "wake"]
    /\ UNCHANGED <<cancel, doomed, executor, queue, lock, claimed, target, crashes>>

(* request_cancel reads that the task is not finished and not marked ...   *)
RequestCancel(th, t) ==
    /\ pc[th] = "idle"
    /\ Serving
    /\ status[t] \in {"pending", "running"}
    /\ ~cancel[t]
    /\ target' = [target EXCEPT ![th] = t]
    /\ pc' = [pc EXCEPT ![th] = "cancel"]
    /\ UNCHANGED <<status, rule, cancel, doomed, executor, queue, lock, claimed, crashes>>

(* Broken variant: the request itself ends the task.                       *)
MarkCancelEndsTask(th) ==
    /\ pc[th] = "cancel"
    /\ cancel' = [cancel EXCEPT ![target[th]] = TRUE]
    /\ status' = [status EXCEPT ![target[th]] = "cancelled"]
    /\ target' = [target EXCEPT ![th] = 0]
    /\ pc' = [pc EXCEPT ![th] = "idle"]
    /\ UNCHANGED <<rule, doomed, executor, queue, lock, claimed, crashes>>

(* ... and marks it.                                                       *)
MarkCancel(th) ==
    /\ pc[th] = "cancel"
    /\ cancel' = [cancel EXCEPT ![target[th]] = TRUE]
    /\ target' = [target EXCEPT ![th] = 0]
    /\ pc' = [pc EXCEPT ![th] = "idle"]
    /\ UNCHANGED <<status, rule, doomed, executor, queue, lock, claimed, crashes>>

-----------------------------------------------------------------------------
(* TaskWorker.submit_next, whatever thread calls it.                       *)

(* Where a thread goes on when its call of submit_next returns or raises.  *)
(* A job whose run is over completes its future; the pool then invokes the *)
(* future's callback, if submit_next has added it by now.                  *)
Unregistered == {t \in Task : \E th \in Thread :
                    claimed[th] = t /\ pc[th] \in {"submit", "callback"}}

AfterRun(t) == IF t \in Unregistered THEN "ended" ELSE "discard"

After(th) ==
    IF th = Main THEN "serving"
    ELSE IF th \in Task THEN AfterRun(th)
    ELSE "idle"

(* Broken variant: the exclusion of rules with a running task is missing.  *)
MayRunAnyRule(t) == status[t] = "pending"

(* The condition of claim_next, in its SELECT and once more in its UPDATE. *)
MayRun(t) ==
    /\ status[t] = "pending"
    /\ ~ \E u \in Task : status[u] = "running" /\ rule[u] = rule[t]

Claimable == {t \in Task : MayRun(t)}

(* Broken variant: newest first.                                           *)
IsNewest(t, S) == t \in S /\ \A u \in S : u <= t

IsOldest(t, S) == t \in S /\ \A u \in S : t <= u

EntersLock(th) == pc[th] = "wake" /\ lock = Free

(* Nothing to do: no pool, no runner, or no task that may run.             *)
NothingToClaim(th) ==
    /\ EntersLock(th)
    /\ ~(executor /\ CanRun) \/ Claimable = {}
    /\ pc' = [pc EXCEPT ![th] = After(th)]
    /\ UNCHANGED <<status, rule, cancel, doomed, executor, queue, lock, claimed, target, crashes>>

(* claim_next selects the oldest task that may run ...                     *)
Select(th, t) ==
    /\ EntersLock(th)
    /\ executor /\ CanRun
    /\ IsOldest(t, Claimable)
    /\ lock' = th
    /\ claimed' = [claimed EXCEPT ![th] = t]
    /\ pc' = [pc EXCEPT ![th] = "claim"]
    /\ UNCHANGED <<status, rule, cancel, doomed, executor, queue, target, crashes>>

Unlock(th) ==
    /\ lock' = Free
    /\ claimed' = [claimed EXCEPT ![th] = 0]
    /\ pc' = [pc EXCEPT ![th] = After(th)]

(* ... and updates its row, if it may still run. (It always may: see       *)
(* SelectionHolds.)                                                        *)
Claim(th) ==
    /\ pc[th] = "claim"
    /\ LET t == claimed[th] IN
        IF MayRun(t)
        THEN /\ status' = [status EXCEPT ![t] = "running"]
             /\ doomed' = [doomed EXCEPT ![t] = cancel[t]]
             /\ pc' = [pc EXCEPT ![th] = "submit"]
             /\ UNCHANGED <<lock, claimed>>
        ELSE Unlock(th) /\ UNCHANGED <<status, doomed>>
    /\ UNCHANGED <<rule, cancel, executor, queue, target, crashes>>

(* claim_next raises and the transaction rolls back: the exception leaves  *)
(* the lock, answers the request with an error, ends the timer's job or    *)
(* the pool's, or makes the start-up fail.                                 *)
ClaimFails(th) ==
    /\ "claim" \in Faults
    /\ (EntersLock(th) /\ executor /\ CanRun) \/ pc[th] = "claim"
    /\ lock' = Free
    /\ claimed' = [claimed EXCEPT ![th] = 0]
    /\ executor' = (executor /\ th # Main)
    /\ pc' = [pc EXCEPT ![th] = IF th = Main THEN "draining" ELSE After(th)]
    /\ UNCHANGED <<status, rule, cancel, doomed, queue, target, crashes>>

(* executor.submit hands the job to the pool.                              *)
Submit(th) ==
    /\ pc[th] = "submit"
    /\ queue' = Append(queue, claimed[th])
    /\ pc' = [pc EXCEPT ![th] = "callback", ![claimed[th]] = "queued"]
    /\ UNCHANGED <<status, rule, cancel, doomed, executor, lock, claimed, target, crashes>>

(* add_done_callback: on a future that is already done it calls            *)
(* _discard_future at once, in this thread, which waits for the lock this  *)
(* thread holds.                                                           *)
AddCallback(th) ==
    /\ pc[th] = "callback"
    /\ IF pc[claimed[th]] = "ended"
       THEN /\ pc' = [pc EXCEPT ![th] = "stuck"]
            /\ UNCHANGED <<lock, claimed>>
       ELSE Unlock(th)
    /\ UNCHANGED <<status, rule, cancel, doomed, executor, queue, target, crashes>>

-----------------------------------------------------------------------------
(* The jobs of the pool: TaskWorker._run and the future's callback.        *)

(* A free thread of the pool takes the next job.                           *)
Take(t) ==
    /\ queue # <<>> /\ Head(queue) = t
    /\ Cardinality({u \in Task : pc[u] \in Busy}) < MaxWorkers
    /\ queue' = Tail(queue)
    /\ pc' = [pc EXCEPT ![t] = "starting"]
    /\ UNCHANGED <<status, rule, cancel, doomed, executor, lock, claimed, target, crashes>>

(* runner_factory and the first add_log succeed.                           *)
Start(t) ==
    /\ pc[t] = "starting"
    /\ pc' = [pc EXCEPT ![t] = "running"]
    /\ UNCHANGED <<status, rule, cancel, doomed, executor, queue, lock, claimed, target, crashes>>

(* Either of them raises, outside the try of _run: the future completes    *)
(* with the exception, the task stays running, submit_next is not called.  *)
StartFails(t) ==
    /\ "start" \in Faults
    /\ pc[t] = "starting"
    /\ pc' = [pc EXCEPT ![t] = AfterRun(t)]
    /\ UNCHANGED <<status, rule, cancel, doomed, executor, queue, lock, claimed, target, crashes>>

(* Broken variant: a job that has finished does not call submit_next.      *)
FinishWithoutWake(t, s) ==
    /\ pc[t] = "running"
    /\ s \in Lifecycle!Outcome(t)
    /\ status' = [status EXCEPT ![t] = s]
    /\ pc' = [pc EXCEPT ![t] = AfterRun(t)]
    /\ UNCHANGED <<rule, cancel, doomed, executor, queue, lock, claimed, target, crashes>>

(* run_claimed reaches its end and repository.finish commits.              *)
Finish(t, s) ==
    /\ pc[t] = "running"
    /\ s \in Lifecycle!Outcome(t)
    /\ status' = [status EXCEPT ![t] = s]
    /\ pc' = [pc EXCEPT ![t] = "wake"]
    /\ UNCHANGED <<rule, cancel, doomed, executor, queue, lock, claimed, target, crashes>>

(* finish cannot commit, TASK_FINALIZE_FAILED leaves run_claimed: only the *)
(* finally of _run is executed.                                            *)
FinishFails(t) ==
    /\ "finish" \in Faults
    /\ pc[t] = "running"
    /\ pc' = [pc EXCEPT ![t] = "wake"]
    /\ UNCHANGED <<status, rule, cancel, doomed, executor, queue, lock, claimed, target, crashes>>

(* _discard_future, called by the pool.                                    *)
Discard(t) ==
    /\ pc[t] = "discard"
    /\ lock = Free
    /\ pc' = [pc EXCEPT ![t] = "ended"]
    /\ UNCHANGED <<status, rule, cancel, doomed, executor, queue, lock, claimed, target, crashes>>

-----------------------------------------------------------------------------
(* The main thread: main.py's lifespan.                                    *)

(* The process is started again.                                           *)
Boot ==
    /\ pc[Main] = "down"
    /\ pc' = [pc EXCEPT ![Main] = "boot"]
    /\ UNCHANGED <<status, rule, cancel, doomed, executor, queue, lock, claimed, target, crashes>>

(* Broken variant: nothing is recovered.                                   *)
RecoveredNever(t) == status[t]

Recovered(t) == IF status[t] = "running" THEN "failed" ELSE status[t]

(* recover_interrupted, then TaskWorker.start up to its submit_next.       *)
Recover ==
    /\ pc[Main] = "boot"
    /\ status' = [t \in Task |-> Recovered(t)]
    /\ executor' = TRUE
    /\ pc' = [pc EXCEPT ![Main] = "wake"]
    /\ UNCHANGED <<rule, cancel, doomed, queue, lock, claimed, target, crashes>>

(* TaskWorker.shutdown drops the pool, once it gets the lock ...           *)
Shutdown ==
    /\ Serving
    /\ lock = Free
    /\ \A th \in Request : pc[th] = "idle"
    /\ executor' = FALSE
    /\ pc' = [pc EXCEPT ![Main] = "draining"]
    /\ UNCHANGED <<status, rule, cancel, doomed, queue, lock, claimed, target, crashes>>

(* ... waits for every job the pool has accepted, and the process exits.   *)
Exit ==
    /\ pc[Main] = "draining"
    /\ \A t \in Task : pc[t] \in {"idle", "ended"}
    /\ \A th \in Timer : pc[th] = "idle"
    /\ pc' = [th \in Thread |-> IF th = Main THEN "down" ELSE "idle"]
    /\ UNCHANGED <<status, rule, cancel, doomed, executor, queue, lock, claimed, target, crashes>>

(* The process dies: only the table is left.                               *)
Crash ==
    /\ crashes < MaxCrash
    /\ pc[Main] # "down"
    /\ crashes' = crashes + 1
    /\ executor' = FALSE
    /\ queue' = <<>>
    /\ lock' = Free
    /\ pc' = [th \in Thread |-> IF th = Main THEN "down" ELSE "idle"]
    /\ claimed' = [th \in Thread |-> 0]
    /\ target' = [th \in Request |-> 0]
    /\ UNCHANGED <<status, rule, cancel, doomed>>

-----------------------------------------------------------------------------
SubmitNext(th) ==
    \/ NothingToClaim(th)
    \/ \E t \in Task : Select(th, t)
    \/ Claim(th)
    \/ Submit(th)
    \/ AddCallback(th)

Job(t) ==
    \/ Take(t)
    \/ Start(t)
    \/ \E s \in Lifecycle!Terminal : Finish(t, s)
    \/ Discard(t)

Failure ==
    \/ \E th \in Thread : ClaimFails(th)
    \/ \E t \in Task : StartFails(t) \/ FinishFails(t)
    \/ Crash

Next ==
    \/ \E th \in Request \cup Timer, r \in Rule, t \in Task : Create(th, r, t)
    \/ \E th \in Request : (\E t \in Task : RequestCancel(th, t)) \/ MarkCancel(th)
    \/ \E th \in Thread : SubmitNext(th)
    \/ \E t \in Task : Job(t)
    \/ Boot \/ Recover \/ Shutdown \/ Exit
    \/ Failure

Spec == Init /\ [][Next]_vars

(* Threads run: each one that can take a step of the code takes it in the  *)
(* end. A run ends because every fetch has a timeout and the candidates    *)
(* are finitely many (TaskRun). Nobody has to create, cancel, shut down or *)
(* fail; the operator starts the service again when it is down.            *)
Fairness ==
    /\ \A th \in Thread : WF_vars(SubmitNext(th))
    /\ \A t \in Task : WF_vars(Job(t))
    /\ WF_vars(Boot \/ Recover \/ Exit)

FairSpec == Spec /\ Fairness

-----------------------------------------------------------------------------
(* The lock is held by the one thread that has claimed a task and not yet  *)
(* given the job away completely, so no two threads submit at a time.      *)
LockHasOneOwner ==
    \A th \in Thread :
        /\ pc[th] \in {"claim", "submit", "callback", "stuck"} <=> lock = th
        /\ claimed[th] # 0 <=> lock = th

(* What claim_next has selected still holds when it updates the row, so    *)
(* its update never misses: the task may run and is the oldest pending one *)
(* of its rule. It rests on the lock and on the order of the identifiers.  *)
SelectionHolds ==
    \A th \in Thread : pc[th] = "claim" =>
        LET t == claimed[th]
        IN MayRun(t) /\ \A u \in Task : status[u] = "pending" /\ rule[u] = rule[t] => t <= u

(* Nobody finishes a task behind the back of the job that runs it: as long *)
(* as a job has its run ahead of it or is in it, the row says running. It  *)
(* is what makes recover_interrupted safe, and finish's early return for   *)
(* a task that is not running unreachable.                                 *)
JobOwnsItsTask ==
    \A t \in Task :
        pc[t] \in {"queued", "starting", "running"} => status[t] = "running"

(* A running row has a job, or a thread about to submit one, or a process  *)
(* that has died and whose next start-up will fail it. Otherwise the rule  *)
(* would stay blocked. (If a start or a finish can fail, it does.)         *)
Owned(t) ==
    \/ pc[Main] \in {"down", "boot"}
    \/ pc[t] \in {"queued", "starting", "running"}
    \/ \E th \in Thread : pc[th] = "submit" /\ claimed[th] = t

RunningIsOwned ==
    Faults \cap {"start", "finish"} = {} =>
        \A t \in Task : status[t] = "running" => Owned(t)

(* No wake-up is lost: while the pool is open and a task may be claimed,   *)
(* some thread is on its way into submit_next. submit_next claims one task *)
(* per call, so this rests on every job calling it at its end.             *)
Waker(th) ==
    \/ pc[th] \in {"wake", "claim", "submit"}
    \/ th \in Task /\ pc[th] \in {"queued", "starting", "running"}

NoLostWakeup ==
    Faults = {} /\ executor /\ CanRun /\ Claimable # {} =>
        \E th \in Thread : Waker(th)

(* A thread that waits for the lock it holds would stop the whole worker.  *)
NoSelfDeadlock == "start" \notin Faults => \A th \in Thread : pc[th] # "stuck"

OneRunningPerRule == Lifecycle!OneRunningPerRule

(* No thread, however late, changes the status of a finished task: no      *)
(* cancel request that has read it running, no recovery, no second finish. *)
TerminalIsForever == Lifecycle!TerminalIsForever

(* The table as TaskLifecycle promises it, on every path, with every fault *)
(* and every crash.                                                        *)
ImplementsLifecycle == Lifecycle!Spec

(* A task that waits is run in the end, across restarts.                   *)
PendingIsSettled ==
    \A t \in Task : status[t] = "pending" ~> status[t] \in Lifecycle!Terminal

(* A task that a worker has claimed reaches a terminal status.             *)
RunningIsSettled ==
    \A t \in Task : status[t] = "running" ~> status[t] \in Lifecycle!Terminal
=============================================================================
