----------------------------- MODULE RuleSchedule -----------------------------
(***************************************************************************)
(* The trigger configuration of the collection rules and the scheduler     *)
(* that follows it. Requests save rules (sources/service.py) and then make *)
(* the scheduler rebuild its jobs (tasks/scheduler.py, sync_jobs); the     *)
(* scheduler's jobs create tasks and write the run times back to the rule. *)
(*                                                                         *)
(* A transaction of this application takes its database lock at its first  *)
(* write. What it selected before that may be stale when it writes, and    *)
(* the ORM writes just the columns whose value it changed: update_rule is  *)
(* two steps here.                                                         *)
(*                                                                         *)
(* Time is a count of firing instants; every cron expression fires at each.*)
(* Cron expressions are numbered from 1; 0 is null.                        *)
(***************************************************************************)
EXTENDS Naturals, FiniteSets

CONSTANTS
    Rule,      \* identifiers of rules
    Admin,     \* request threads that save rules
    MaxCron,   \* bound: cron expressions
    MaxNow,    \* bound: firing instants
    MaxSave,   \* bound: saves
    MaxCrash,  \* bound: restarts
    Nobody     \* holder of _SCHEDULE_LOCK when it is free

ASSUME ScheduleAssumption ==
    /\ MaxCron \in Nat \ {0}
    /\ MaxNow \in Nat /\ MaxSave \in Nat /\ MaxCrash \in Nat
    /\ Nobody \notin Rule

VARIABLES
    row,       \* the rows of collection_rules: the trigger configuration
    known,     \* the rules that exist
    jobs,      \* the job rule:<id> of the scheduler: its cron, 0 if there is none
    now,
    latest,    \* scheduled_for of the latest scheduled task of each rule, or 0
    req,       \* the request each admin thread is serving
    timer,     \* the job run of each rule
    schedLock, \* holder of _SCHEDULE_LOCK
    saves, crashes

vars == <<row, known, jobs, now, latest, req, timer, schedLock, saves, crashes>>

Cron == 1..MaxCron

NoTime == <<0, 0>>

(* The columns update_rule derives or checks; next is the cron expression  *)
(* next_run_at was computed from and the instant it names.                 *)
FireTime == (Cron \X (1..(MaxNow + 1))) \cup {NoTime}

Row == [mode : {"manual", "schedule"}, cron : 0..MaxCron, enabled : BOOLEAN,
        active : BOOLEAN, next : FireTime, last : 0..MaxNow]

NewRow == [mode |-> "manual", cron |-> 0, enabled |-> FALSE, active |-> TRUE,
           next |-> NoTime, last |-> 0]

(* A request body; "keep" and 0 stand for a field that is not set.         *)
Patch == [mode : {"keep", "manual", "schedule"}, cron : 0..MaxCron,
          enabled : {"keep", "on", "off"}, active : {"keep", "on", "off"}]

Idle == [at |-> "idle"]

TypeOK ==
    /\ row \in [Rule -> Row]
    /\ known \subseteq Rule
    /\ jobs \in [Rule -> 0..MaxCron]
    /\ now \in 0..MaxNow
    /\ latest \in [Rule -> 0..MaxNow]
    /\ DOMAIN req = Admin /\ DOMAIN timer = Rule
    /\ \A a \in Admin : req[a].at \in {"idle", "write", "sync", "remove", "read", "add"}
    /\ \A r \in Rule : timer[r].at \in {"idle", "fired", "check", "create", "record", "write"}
    /\ schedLock \in Rule \cup {Nobody}
    /\ saves \in 0..MaxSave /\ crashes \in 0..MaxCrash

Init ==
    /\ row = [r \in Rule |-> NewRow]
    /\ known = {}
    /\ jobs = [r \in Rule |-> 0]
    /\ now = 0
    /\ latest = [r \in Rule |-> 0]
    /\ req = [a \in Admin |-> Idle]
    /\ timer = [r \in Rule |-> Idle]
    /\ schedLock = Nobody
    /\ saves = 0 /\ crashes = 0

-----------------------------------------------------------------------------
(* Saving a rule.                                                          *)

Flag(choice, old) == IF choice = "keep" THEN old ELSE choice = "on"

Field(choice, none, old) == IF choice = none THEN old ELSE choice

(* Overlapping saves may leave a scheduled rule without a cron expression: *)
(* it never fires.                                                         *)
NextFire(cron) == IF cron = 0 THEN NoTime ELSE <<cron, now + 1>>

(* The trigger fields a body asks for, on top of a row. Going back to      *)
(* manual clears the schedule.                                             *)
Merged(old, p) ==
    LET mode == Field(p.mode, "keep", old.mode)
        manual == mode = "manual"
        cron == IF manual THEN 0 ELSE Field(p.cron, 0, old.cron)
        enabled == ~manual /\ Flag(p.enabled, old.enabled)
    IN [old EXCEPT !.mode = mode, !.cron = cron, !.enabled = enabled,
                   !.active = Flag(p.active, old.active),
                   !.next = IF enabled THEN NextFire(cron) ELSE NoTime]

(* _resolve_trigger_config and the checks of update_rule before it.        *)
Accepted(old, p) ==
    LET new == Merged(old, p)
    IN IF new.mode = "manual"
       THEN p.cron = 0 /\ p.enabled # "on"
       ELSE new.cron # 0 /\ (new.enabled => new.active)

(* Broken variant: the scheduler is not told.                              *)
NoSync == Idle

Sync == [at |-> "sync"]

(* create_rule: one transaction. A body that is refused changes nothing.   *)
CreateRule(a, r, p) ==
    /\ req[a] = Idle
    /\ saves < MaxSave
    /\ r \notin known
    /\ Accepted(NewRow, p)
    /\ known' = known \cup {r}
    /\ row' = [row EXCEPT ![r] = Merged(NewRow, p)]
    /\ req' = [req EXCEPT ![a] = Sync]
    /\ saves' = saves + 1
    /\ UNCHANGED <<jobs, now, latest, timer, schedLock, crashes>>

(* update_rule selects the row, merges and validates ...                   *)
UpdateRule(a, r, p) ==
    /\ req[a] = Idle
    /\ saves < MaxSave
    /\ r \in known
    /\ Accepted(row[r], p)
    /\ req' = [req EXCEPT ![a] = [at |-> "write", rule |-> r, old |-> row[r],
                                  new |-> Merged(row[r], p)]]
    /\ saves' = saves + 1
    /\ UNCHANGED <<row, known, jobs, now, latest, timer, schedLock, crashes>>

(* Broken variant: the whole row is written.                               *)
WrittenWhole(current, old, new) == new

(* ... and writes the columns that differ from what it selected.           *)
Written(current, old, new) ==
    [f \in DOMAIN current |-> IF new[f] # old[f] THEN new[f] ELSE current[f]]

WriteRule(a) ==
    /\ req[a].at = "write"
    /\ row' = [row EXCEPT ![req[a].rule] = Written(@, req[a].old, req[a].new)]
    /\ req' = [req EXCEPT ![a] = Sync]
    /\ UNCHANGED <<known, jobs, now, latest, timer, schedLock, saves, crashes>>

-----------------------------------------------------------------------------
(* sync_jobs, run by the request after its save; nothing excludes another. *)

Registered == {r \in Rule : jobs[r] # 0}

Eligible(r) ==
    r \in known /\ row[r].mode = "schedule" /\ row[r].enabled /\ row[r].active

SyncBegin(a) ==
    /\ req[a].at = "sync"
    /\ req' = [req EXCEPT ![a] = [at |-> "remove", todo |-> Registered]]
    /\ UNCHANGED <<row, known, jobs, now, latest, timer, schedLock, saves, crashes>>

(* remove_job raises for a job that another sync has removed: the request  *)
(* ends with an error, its save stays.                                     *)
RemoveJob(a, r) ==
    /\ req[a].at = "remove" /\ r \in req[a].todo
    /\ IF jobs[r] = 0
       THEN req' = [req EXCEPT ![a] = Idle] /\ UNCHANGED jobs
       ELSE /\ req' = [req EXCEPT ![a].todo = @ \ {r}]
            /\ jobs' = [jobs EXCEPT ![r] = 0]
    /\ UNCHANGED <<row, known, now, latest, timer, schedLock, saves, crashes>>

(* No job is added for a rule without a cron expression (_build_trigger).  *)
Planned == {r \in Rule : Eligible(r) /\ row[r].cron # 0}

ReadRules(a) ==
    /\ req[a].at = "remove" /\ req[a].todo = {}
    /\ req' = [req EXCEPT ![a] =
                [at |-> "add", plan |-> {<<r, row[r].cron>> : r \in Planned}]]
    /\ UNCHANGED <<row, known, jobs, now, latest, timer, schedLock, saves, crashes>>

AddJob(a, r, c) ==
    /\ req[a].at = "add" /\ <<r, c>> \in req[a].plan
    /\ req' = [req EXCEPT ![a].plan = @ \ {<<r, c>>}]
    /\ jobs' = [jobs EXCEPT ![r] = c]
    /\ UNCHANGED <<row, known, now, latest, timer, schedLock, saves, crashes>>

SyncEnd(a) ==
    /\ req[a].at = "add" /\ req[a].plan = {}
    /\ req' = [req EXCEPT ![a] = Idle]
    /\ UNCHANGED <<row, known, jobs, now, latest, timer, schedLock, saves, crashes>>

-----------------------------------------------------------------------------
(* The scheduler and its jobs.                                             *)

(* A firing instant: every registered job is run, unless its previous run  *)
(* is not over (max_instances = 1). A job that is added later has its next *)
(* fire computed from then on, so it does not make this instant up.        *)
Tick ==
    /\ now < MaxNow
    /\ now' = now + 1
    /\ timer' = [r \in Rule |-> IF r \in Registered /\ timer[r] = Idle
                                THEN [at |-> "fired"] ELSE timer[r]]
    /\ UNCHANGED <<row, known, jobs, latest, req, schedLock, saves, crashes>>

(* enqueue_rule: the rule is read, the time is, the next fire is computed  *)
(* from the rule that was read.                                            *)
Enqueue(r) ==
    /\ timer[r].at = "fired"
    /\ timer' = [timer EXCEPT ![r] =
                    IF Eligible(r)
                    THEN [at |-> "check", for |-> now, next |-> NextFire(row[r].cron)]
                    ELSE Idle]
    /\ UNCHANGED <<row, known, jobs, now, latest, req, schedLock, saves, crashes>>

(* Broken variant: a run counts only if the row announces it.              *)
StillDueByRow(r) == Eligible(r) /\ row[r].next # NoTime /\ row[r].next[2] <= timer[r].for

(* The second look at the rule. (The query for a task with the same        *)
(* scheduled_for finds none: enqueue_rule passes the time of its own call.)*)
StillDue(r) == Eligible(r)

(* create_scheduled_task_once under _SCHEDULE_LOCK: it checks, creates the *)
(* task, and selects and writes the rule.                                  *)
CheckDue(r) ==
    /\ timer[r].at = "check"
    /\ schedLock = Nobody
    /\ IF StillDue(r)
       THEN /\ timer' = [timer EXCEPT ![r].at = "create"]
            /\ schedLock' = r
       ELSE /\ timer' = [timer EXCEPT ![r] = Idle]
            /\ UNCHANGED schedLock
    /\ UNCHANGED <<row, known, jobs, now, latest, req, saves, crashes>>

CreateScheduledTask(r) ==
    /\ timer[r].at = "create"
    /\ latest' = [latest EXCEPT ![r] = timer[r].for]
    /\ timer' = [timer EXCEPT ![r].at = "record"]
    /\ UNCHANGED <<row, known, jobs, now, req, schedLock, saves, crashes>>

SelectRun(r) ==
    /\ timer[r].at = "record"
    /\ timer' = [timer EXCEPT ![r] =
                    [at |-> "write", old |-> row[r],
                     new |-> [row[r] EXCEPT !.last = timer[r].for, !.next = timer[r].next]]]
    /\ UNCHANGED <<row, known, jobs, now, latest, req, schedLock, saves, crashes>>

RecordRun(r) ==
    /\ timer[r].at = "write"
    /\ row' = [row EXCEPT ![r] = Written(@, timer[r].old, timer[r].new)]
    /\ timer' = [timer EXCEPT ![r] = Idle]
    /\ schedLock' = Nobody
    /\ UNCHANGED <<known, jobs, now, latest, req, saves, crashes>>

(* The process dies; its next start builds the jobs from the rules.        *)
Restart ==
    /\ crashes < MaxCrash
    /\ crashes' = crashes + 1
    /\ jobs' = [r \in Rule |-> IF Eligible(r) THEN row[r].cron ELSE 0]
    /\ req' = [a \in Admin |-> Idle]
    /\ timer' = [r \in Rule |-> Idle]
    /\ schedLock' = Nobody
    /\ UNCHANGED <<row, known, now, latest, saves>>

-----------------------------------------------------------------------------
SyncJobs(a) ==
    \/ SyncBegin(a)
    \/ \E r \in Rule : RemoveJob(a, r)
    \/ ReadRules(a)
    \/ \E r \in Rule, c \in Cron : AddJob(a, r, c)
    \/ SyncEnd(a)

RunJob(r) ==
    \/ Enqueue(r) \/ CheckDue(r) \/ CreateScheduledTask(r) \/ SelectRun(r) \/ RecordRun(r)

Next ==
    \/ \E a \in Admin, r \in Rule, p \in Patch : CreateRule(a, r, p) \/ UpdateRule(a, r, p)
    \/ \E a \in Admin : WriteRule(a) \/ SyncJobs(a)
    \/ Tick
    \/ \E r \in Rule : RunJob(r)
    \/ Restart

Spec == Init /\ [][Next]_vars

(* Threads that have begun something go on.                                *)
FairSpec ==
    /\ Spec
    /\ \A a \in Admin : WF_vars(WriteRule(a) \/ SyncJobs(a))
    /\ \A r \in Rule : WF_vars(RunJob(r))

-----------------------------------------------------------------------------
Quiet == \A a \in Admin : req[a] = Idle

(* A rule is scheduled only while it is active.                            *)
EnabledIsActive == \A r \in Rule : row[r].enabled => row[r].active

(* A manual rule keeps no trace of a schedule but the last run.            *)
ManualHasNoSchedule ==
    \A r \in Rule : row[r].mode = "manual" =>
        row[r].cron = 0 /\ ~row[r].enabled /\ row[r].next = NoTime

(* When no save is in progress the scheduler has exactly the jobs the      *)
(* rules ask for, with their present cron expression.                      *)
JobsMatchRules ==
    Quiet => \A r \in Rule : jobs[r] = IF Eligible(r) THEN row[r].cron ELSE 0

(* A rule whose schedule is on announces a next run.                       *)
EnabledAnnounces == \A r \in Rule : row[r].enabled => row[r].next # NoTime

(* The rows are sound and the scheduler follows them, after any sequence   *)
(* of saves, firings and restarts.                                         *)
ScheduleIsConsistent ==
    /\ EnabledIsActive
    /\ EnabledAnnounces
    /\ JobsMatchRules

(* last_run_at is the time of the latest scheduled task. The write of the  *)
(* job run and the writes of saves that overlap it keep out of each        *)
(* other's columns; only a crash between the job's transactions can part   *)
(* the two.                                                                *)
LastRunIsLatestTask ==
    \A r \in Rule : crashes = 0 /\ timer[r].at \notin {"record", "write"} => row[r].last = latest[r]

(* A firing job creates its task, whatever saves overlap it, unless the    *)
(* rule stops being scheduled or the process dies.                         *)
FiringCreatesTask ==
    \A r \in Rule :
        timer[r].at = "fired" ~> timer[r].at = "record" \/ ~Eligible(r) \/ crashes > 0
=============================================================================
