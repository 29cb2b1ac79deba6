----------------------------- MODULE AnalysisTasks ----------------------------
(***************************************************************************)
(* Analysis tasks: analysis/routes.py and service.py create them,          *)
(* worker.py claims them for a thread pool, runner.py executes one, and    *)
(* repository.py writes each part of the outcome in a transaction of its   *)
(* own. Collection rewrites the policies' texts meanwhile.                 *)
(*                                                                         *)
(* Thread t, for a task t, is the thread of the pool that runs t's job.    *)
(* Jobs enter the pool under the worker's lock and in the order of their   *)
(* identifiers, so the pool's queue needs no variable: the queued job with *)
(* the least identifier is its head.                                       *)
(***************************************************************************)
EXTENDS AnalysisEngine

CONSTANTS
    MaxTask,      \* bound: rows the table may get
    Policy,       \* stored policies; none is ever deleted
    Text,         \* bound: texts a policy may have
    Selection,    \* bound: the policy_ids a request may carry
    Request,      \* threads of the web server
    Main,         \* the thread of the application's lifespan
    Free,         \* the lock has no holder
    None,
    MaxWorkers,   \* settings.analysis.max_workers
    Faults,       \* database calls that may fail, each of these once (a
                  \* bound): of claim_next, of a job's start, run, handler
    MaxFaults,    \* bound: how many of them fail
    MaxRewrites,  \* bound: how often a text changes
    MaxCrashes    \* bound: how often the process dies

Task == 1..MaxTask
Thread == Request \cup {Main} \cup Task

(* What the policies of a task may read.                                   *)
Readings == UNION {[1..n -> Text] : n \in 1..Cardinality(Policy)}

ASSUME AnalysisAssumption ==
    /\ MaxTask \in Nat /\ MaxWorkers \in Nat /\ MaxFaults \in Nat
    /\ MaxRewrites \in Nat /\ MaxCrashes \in Nat
    /\ IsFiniteSet(Policy) /\ Text \subseteq Seq(Nat)
    /\ \A ids \in Selection : ids # <<>> /\ ids \in Seq(Policy)
    /\ Main \notin Request \cup Task /\ Request \cap Task = {}
    /\ Free \notin Thread
    /\ Faults \subseteq {"claim", "start", "run", "handler"}
    /\ None \notin Task /\ None \notin Readings

VARIABLES
    texts,      \* policies.content_text
    status,     \* analysis_tasks.status
    kind,       \* analysis_tasks.task_type
    chosen,     \* analysis_task_policies, in the order of their ids
    words,      \* analysis_word_results of each task
    relations,  \* analysis_word_relations of each task
    report,     \* analysis_comparison_reports of each task
    loaded,     \* what a job has in memory; kept after the job as a history
    executor,   \* AnalysisWorker._executor is not None
    lock,       \* holder of AnalysisWorker._lock
    pc,         \* where each thread is
    adding,     \* the task whose future a thread in submit_next registers
    faults,     \* the failures that have happened
    rewrites, crashes   \* counted for the bounds

rows == <<status, kind, chosen>>
results == <<words, relations, report>>
worker == <<executor, lock, adding>>
counts == <<faults, rewrites, crashes>>
vars == <<texts, rows, results, loaded, worker, pc, counts>>

Init ==
    /\ texts \in [Policy -> Text]
    /\ status = [t \in Task |-> "absent"]
    /\ kind = [t \in Task |-> None]
    /\ chosen = [t \in Task |-> <<>>]
    /\ words = [t \in Task |-> None]
    /\ relations = [t \in Task |-> {}]
    /\ report = [t \in Task |-> None]
    /\ loaded = [t \in Task |-> None]
    /\ executor = FALSE
    /\ lock = Free
    /\ pc = [th \in Thread |-> IF th = Main THEN "down" ELSE "idle"]
    /\ adding = [th \in Thread |-> None]
    /\ faults = {} /\ rewrites = 0 /\ crashes = 0

MayFail(call) == call \in Faults \ faults /\ Cardinality(faults) < MaxFaults

-----------------------------------------------------------------------------
(* Requests, and the collection that goes on beside them.                  *)

Serving == pc[Main] = "serving"

IsNextId(t) == status[t] = "absent" /\ \A u \in Task : u < t => status[u] # "absent"

(* dict.fromkeys keeps the first of each identifier.                       *)
Unique(ids) ==
    LET firsts == {i \in DOMAIN ids : \A j \in 1..i-1 : ids[j] # ids[i]}
    IN [n \in 1..Cardinality(firsts) |->
           ids[CHOOSE i \in firsts : Cardinality({j \in firsts : j <= i}) = n]]

(* create_task and create_comparison_task: the row and its policies commit *)
(* together, then the request wakes the worker.                            *)
Create(th, t, k, ids) ==
    /\ th \in Request /\ Serving /\ pc[th] = "idle"
    /\ IsNextId(t)
    /\ k = "policy_comparison" => Len(Unique(ids)) >= 2
    /\ status' = [status EXCEPT ![t] = "pending"]
    /\ kind' = [kind EXCEPT ![t] = k]
    /\ chosen' = [chosen EXCEPT ![t] = Unique(ids)]
    /\ pc' = [pc EXCEPT ![th] = "wake"]
    /\ UNCHANGED <<texts, results, loaded, worker, counts>>

(* A collection task stores a newer version of a policy.                   *)
Rewrite(p, x) ==
    /\ Serving /\ rewrites < MaxRewrites
    /\ texts[p] # x
    /\ texts' = [texts EXCEPT ![p] = x]
    /\ rewrites' = rewrites + 1
    /\ UNCHANGED <<rows, results, loaded, worker, pc, faults, crashes>>

-----------------------------------------------------------------------------
(* AnalysisWorker.submit_next, whatever thread calls it.                   *)

(* A completed future calls _discard_future in its job's thread, if        *)
(* submit_next has registered it by then.                                  *)
AfterJob(t) == IF \E th \in Thread : adding[th] = t THEN "ended" ELSE "discard"

After(th) ==
    IF th = Main THEN "serving" ELSE IF th \in Request THEN "idle" ELSE AfterJob(th)

Pending == {t \in Task : status[t] = "pending"}

NothingToClaim(th) ==
    /\ pc[th] = "wake" /\ lock = Free
    /\ ~executor \/ Pending = {}
    /\ pc' = [pc EXCEPT ![th] = After(th)]
    /\ UNCHANGED <<texts, rows, results, loaded, worker, counts>>

(* Under the lock, claim_next takes the oldest pending task and the pool   *)
(* gets its job. (Only this worker takes tasks out of pending, so nobody   *)
(* can intervene between claim_next's SELECT and UPDATE.)                  *)
Claim(th, t) ==
    /\ pc[th] = "wake" /\ lock = Free /\ executor
    /\ t \in Pending /\ \A u \in Pending : t <= u
    /\ status' = [status EXCEPT ![t] = "running"]
    /\ lock' = th
    /\ adding' = [adding EXCEPT ![th] = t]
    /\ pc' = [pc EXCEPT ![th] = "register", ![t] = "queued"]
    /\ UNCHANGED <<texts, kind, chosen, results, loaded, executor, counts>>

(* claim_next raises and rolls back: the exception leaves the lock and     *)
(* submit_next. A request answers with an error, its row stays pending; a  *)
(* job ends in the finally of _run; a start-up is given up.                *)
ClaimFails(th) ==
    /\ MayFail("claim")
    /\ pc[th] = "wake" /\ lock = Free /\ executor
    /\ executor' = (th # Main)
    /\ pc' = [pc EXCEPT ![th] = IF th = Main THEN "draining" ELSE After(th)]
    /\ faults' = faults \cup {"claim"}
    /\ UNCHANGED <<texts, rows, results, loaded, lock, adding, rewrites, crashes>>

(* add_done_callback, then the lock is released. If the job has already    *)
(* ended, _discard_future runs here and waits for the lock this thread     *)
(* holds.                                                                  *)
Register(th) ==
    /\ pc[th] = "register"
    /\ adding' = [adding EXCEPT ![th] = None]
    /\ IF pc[adding[th]] = "ended"
       THEN pc' = [pc EXCEPT ![th] = "stuck"] /\ UNCHANGED lock
       ELSE /\ lock' = Free
            /\ pc' = [pc EXCEPT ![th] = After(th)]
    /\ UNCHANGED <<texts, rows, results, loaded, executor, counts>>

-----------------------------------------------------------------------------
(* A job: AnalysisWorker._run and AnalysisRunner.run_claimed.              *)

Busy == {"load", "store", "relate", "finish", "handler", "wake", "register", "stuck", "discard"}

(* A free thread of the pool takes the job.                                *)
Taken(t) ==
    /\ pc[t] = "queued"
    /\ \A u \in Task : pc[u] = "queued" => t <= u
    /\ Cardinality({u \in Task : pc[u] \in Busy}) < MaxWorkers

StartJob(t) ==
    /\ Taken(t)
    /\ pc' = [pc EXCEPT ![t] = "load"]
    /\ UNCHANGED <<texts, rows, results, loaded, worker, counts>>

(* runner_factory or the first add_log raises, outside the try of _run:    *)
(* submit_next is not called and the row stays running.                    *)
StartFails(t) ==
    /\ MayFail("start")
    /\ Taken(t)
    /\ pc' = [pc EXCEPT ![t] = AfterJob(t)]
    /\ faults' = faults \cup {"start"}
    /\ UNCHANGED <<texts, rows, results, loaded, worker, rewrites, crashes>>

(* load_policies or load_policy_details: one SELECT reads all the texts.   *)
Load(t) ==
    /\ pc[t] = "load"
    /\ loaded' = [loaded EXCEPT ![t] = [i \in DOMAIN chosen[t] |-> texts[chosen[t][i]]]]
    /\ pc' = [pc EXCEPT ![t] = "store"]
    /\ UNCHANGED <<texts, rows, results, worker, counts>>

(* What a run computes from the texts X it has loaded. It is the same      *)
(* whenever it is computed, so it is a table here.                         *)
Docs(X) == [i \in DOMAIN X |-> Analyze(X[i])]

Outcomes ==
    {[reading |-> X,
      words |-> TfIdf(Docs(X)),
      relations |-> Cooccurrence(Docs(X), TopWords(AggregateWordTotals(TfIdf(Docs(X))))),
      report |-> ComparisonReport(Docs(X))] :
        X \in Readings}

Outcome(X) == CHOOSE o \in Outcomes : o.reading = X

(* Broken variant: the texts are read again when the words are computed.   *)
StoreResultsOfNow(t) ==
    /\ pc[t] = "store" /\ kind[t] = "word_frequency"
    /\ words' = [words EXCEPT ![t] = Outcome([i \in DOMAIN chosen[t] |-> texts[chosen[t][i]]]).words]
    /\ pc' = [pc EXCEPT ![t] = "relate"]
    /\ UNCHANGED <<texts, rows, relations, report, loaded, worker, counts>>

StoreResults(t) ==
    /\ pc[t] = "store" /\ kind[t] = "word_frequency"
    /\ words' = [words EXCEPT ![t] = Outcome(loaded[t]).words]
    /\ pc' = [pc EXCEPT ![t] = "relate"]
    /\ UNCHANGED <<texts, rows, relations, report, loaded, worker, counts>>

StoreRelations(t) ==
    /\ pc[t] = "relate"
    /\ relations' = [relations EXCEPT ![t] = Outcome(loaded[t]).relations]
    /\ pc' = [pc EXCEPT ![t] = "finish"]
    /\ UNCHANGED <<texts, rows, words, report, loaded, worker, counts>>

StoreReport(t) ==
    /\ pc[t] = "store" /\ kind[t] = "policy_comparison"
    /\ report' = [report EXCEPT ![t] = Outcome(loaded[t]).report]
    /\ pc' = [pc EXCEPT ![t] = "finish"]
    /\ UNCHANGED <<texts, rows, words, relations, loaded, worker, counts>>

(* repository.finish: only a running task changes.                         *)
FinishAs(t, s) ==
    /\ status' = [status EXCEPT ![t] = IF @ = "running" THEN s ELSE @]
    /\ pc' = [pc EXCEPT ![t] = "wake"]
    /\ UNCHANGED <<texts, kind, chosen, results, loaded, worker, counts>>

FinishSucceeded(t) == pc[t] = "finish" /\ FinishAs(t, "succeeded")

(* Any database call of the run raises: what is committed stays.           *)
RunFails(t) ==
    /\ MayFail("run")
    /\ pc[t] \in {"load", "store", "relate", "finish"}
    /\ pc' = [pc EXCEPT ![t] = "handler"]
    /\ faults' = faults \cup {"run"}
    /\ UNCHANGED <<texts, rows, results, loaded, worker, rewrites, crashes>>

FinishFailed(t) == pc[t] = "handler" /\ FinishAs(t, "failed")

(* Broken variant: the exception ends the job without submit_next.         *)
HandlerFailsSilently(t) ==
    /\ MayFail("handler")
    /\ pc[t] = "handler"
    /\ pc' = [pc EXCEPT ![t] = AfterJob(t)]
    /\ faults' = faults \cup {"handler"}
    /\ UNCHANGED <<texts, rows, results, loaded, worker, rewrites, crashes>>

(* _safe_log suppresses no database error, and finish may raise one: the   *)
(* exception leaves run_claimed, only the finally of _run is executed.     *)
HandlerFails(t) ==
    /\ MayFail("handler")
    /\ pc[t] = "handler"
    /\ pc' = [pc EXCEPT ![t] = "wake"]
    /\ faults' = faults \cup {"handler"}
    /\ UNCHANGED <<texts, rows, results, loaded, worker, rewrites, crashes>>

Discard(t) ==
    /\ pc[t] = "discard" /\ lock = Free
    /\ pc' = [pc EXCEPT ![t] = "ended"]
    /\ UNCHANGED <<texts, rows, results, loaded, worker, counts>>

-----------------------------------------------------------------------------
(* The main thread: main.py's lifespan.                                    *)

(* Broken variant: tasks that were interrupted stay as they are.           *)
BootWithoutRecovery ==
    /\ pc[Main] = "down"
    /\ executor' = TRUE
    /\ pc' = [pc EXCEPT ![Main] = "wake"]
    /\ UNCHANGED <<texts, rows, results, loaded, lock, adding, counts>>

(* recover_interrupted, then AnalysisWorker.start up to its submit_next.   *)
Boot ==
    /\ pc[Main] = "down"
    /\ status' = [t \in Task |-> IF status[t] = "running" THEN "failed" ELSE status[t]]
    /\ executor' = TRUE
    /\ pc' = [pc EXCEPT ![Main] = "wake"]
    /\ UNCHANGED <<texts, kind, chosen, results, loaded, lock, adding, counts>>

(* AnalysisWorker.shutdown drops the pool, once it gets the lock, ...      *)
Shutdown ==
    /\ Serving /\ lock = Free
    /\ \A th \in Request : pc[th] = "idle"
    /\ executor' = FALSE
    /\ pc' = [pc EXCEPT ![Main] = "draining"]
    /\ UNCHANGED <<texts, rows, results, loaded, lock, adding, counts>>

Stop == [th \in Thread |-> IF th = Main THEN "down" ELSE "idle"]

(* ... and waits for the jobs the pool has accepted.                       *)
Exit ==
    /\ pc[Main] = "draining"
    /\ \A t \in Task : pc[t] \in {"idle", "ended"}
    /\ pc' = Stop
    /\ UNCHANGED <<texts, rows, results, loaded, worker, counts>>

(* The process dies: only the tables are left.                             *)
Crash ==
    /\ crashes < MaxCrashes
    /\ pc[Main] # "down"
    /\ executor' = FALSE /\ lock' = Free
    /\ adding' = [th \in Thread |-> None]
    /\ pc' = Stop
    /\ crashes' = crashes + 1
    /\ UNCHANGED <<texts, rows, results, loaded, faults, rewrites>>

-----------------------------------------------------------------------------
SubmitNext(th) == NothingToClaim(th) \/ (\E t \in Task : Claim(th, t)) \/ Register(th)

Job(t) ==
    \/ StartJob(t) \/ Load(t)
    \/ StoreResults(t) \/ StoreRelations(t) \/ StoreReport(t)
    \/ FinishSucceeded(t) \/ FinishFailed(t) \/ Discard(t)

Failure(t) == StartFails(t) \/ RunFails(t) \/ HandlerFails(t)

Next ==
    \/ \E th \in Request, t \in Task, ids \in Selection :
          \/ Create(th, t, "word_frequency", ids)
          \/ Create(th, t, "policy_comparison", ids)
    \/ \E p \in Policy, x \in Text : Rewrite(p, x)
    \/ \E th \in Thread : SubmitNext(th) \/ ClaimFails(th)
    \/ \E t \in Task : Job(t) \/ Failure(t)
    \/ Boot \/ Shutdown \/ Exit \/ Crash

(* Threads run, and the operator starts a service that is down again.      *)
Fairness ==
    /\ \A th \in Thread : WF_vars(SubmitNext(th))
    /\ \A t \in Task : WF_vars(Job(t))
    /\ WF_vars(Boot \/ Exit)

Spec == Init /\ [][Next]_vars /\ Fairness

-----------------------------------------------------------------------------
TypeOK ==
    /\ texts \in [Policy -> Text]
    /\ status \in [Task -> {"absent", "pending", "running", "succeeded", "failed"}]
    /\ \A t \in Task : status[t] # "absent" => kind[t] \in {"word_frequency", "policy_comparison"}
    /\ executor \in BOOLEAN
    /\ lock \in Thread \cup {Free}
    /\ pc \in [Thread -> Busy \cup {"idle", "queued", "ended", "down", "serving", "draining"}]
    /\ adding \in [Thread -> Task \cup {None}]

(* What a task that has succeeded shows its readers.                       *)
Shown(t) ==
    IF status[t] # "succeeded" THEN None
    ELSE IF kind[t] = "policy_comparison" THEN report[t]
    ELSE [words |-> [d \in DOMAIN words[t] |-> words[t][d].map], relations |-> relations[t]]

Promise == INSTANCE AnalysisLifecycle WITH
    reading <- loaded, output <- [t \in Task |-> Shown(t)]

(* Whatever fails or dies between the three transactions of a run, and     *)
(* whatever collection rewrites meanwhile, a task that has succeeded shows *)
(* all of the correct result of one reading of its policies, tasks are     *)
(* taken oldest first, and no finished task changes.                       *)
ImplementsAnalysis == Promise!Spec

(* What engine.py computes from the texts X is what the promise calls the  *)
(* correct result of X.                                                    *)
EngineIsCorrect(X) ==
    LET maps == TfIdf(Docs(X))
    IN /\ Promise!WordsCorrect(X,
              [words |-> [d \in DOMAIN maps |-> maps[d].map],
               relations |-> Cooccurrence(Docs(X), TopWords(AggregateWordTotals(maps)))])
       /\ Len(X) >= 2 => Promise!ReportCorrect(X, ComparisonReport(Docs(X)))

(* Somebody is in submit_next, or in a job that will call it.              *)
Awake == \E th \in Thread : pc[th] \in Busy \ {"stuck", "discard"} \/ pc[th] = "queued"

(* What a failure leaves to the next request or the next start: a task     *)
(* whose job is over without a status, one nobody is going to claim, and   *)
(* all of them once a thread waits for the lock it holds.                  *)
Abandoned(t) ==
    \/ /\ {"start", "handler"} \cap faults # {}
       /\ status[t] = "running"
       /\ pc[t] \in {"wake", "register", "stuck", "discard", "ended"}
    \/ {"start", "claim"} \cap faults # {} /\ Serving /\ ~Awake
    \/ "start" \in faults /\ \E th \in Thread : pc[th] = "stuck"

(* Every task that is waiting is claimed and settled in the end, though    *)
(* each call of submit_next claims only one, runs fail, and the service    *)
(* restarts. Only a job that cannot start and a claim that fails break the *)
(* chain, and then until the next request or start; a job that cannot      *)
(* write how it ended leaves its own task to the next start.               *)
PendingIsSettled ==
    \A t \in Task :
        status[t] = "pending" ~> (status[t] \in {"succeeded", "failed"} \/ Abandoned(t))
=============================================================================
