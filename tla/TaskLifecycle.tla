---------------------------- MODULE TaskLifecycle ----------------------------
(***************************************************************************)
(* What the task table promises its readers, whatever thread writes it: a  *)
(* task moves along the graph of tasks/state.py, a rule has at most one    *)
(* running task and runs its tasks in the order they were created, a task  *)
(* is cancelled only on request, and a task that was asked to stop before  *)
(* it was claimed never does any productive work.                          *)
(*                                                                         *)
(* TaskCenter (many tasks, the worker threads, crashes) and TaskRun (one   *)
(* task, the steps of its runner) both implement this specification.       *)
(***************************************************************************)
EXTENDS Naturals

CONSTANTS
    Task,     \* identifiers of crawl tasks: numbers, in the order of creation
    Rule,     \* identifiers of collection rules
    NoRule    \* the rule of a task that has no row yet

VARIABLES
    status,   \* column status of each task; "absent" before its row exists
    rule,     \* column rule_id
    cancel,   \* column cancel_requested_at is not null
    doomed    \* cancel was already requested when the task was claimed

vars == <<status, rule, cancel, doomed>>

Terminal == {"succeeded", "partially_succeeded", "failed", "cancelled"}

Status == {"absent", "pending", "running"} \cup Terminal

(* ALLOWED_TRANSITIONS: where a task may go from each non-terminal status. *)
Allowed == [s \in {"pending", "running"} |->
                IF s = "pending" THEN {"running", "cancelled"} ELSE Terminal]

Running(r) == {t \in Task : status[t] = "running" /\ rule[t] = r}

Pending(r) == {t \in Task : status[t] = "pending" /\ rule[t] = r}

TypeOK ==
    /\ status \in [Task -> Status]
    /\ rule \in [Task -> Rule \cup {NoRule}]
    /\ cancel \in [Task -> BOOLEAN]
    /\ doomed \in [Task -> BOOLEAN]

Init ==
    /\ status = [t \in Task |-> "absent"]
    /\ rule = [t \in Task |-> NoRule]
    /\ cancel = [t \in Task |-> FALSE]
    /\ doomed = [t \in Task |-> FALSE]

Create(t, r) ==
    /\ status[t] = "absent"
    /\ status' = [status EXCEPT ![t] = "pending"]
    /\ rule' = [rule EXCEPT ![t] = r]
    /\ UNCHANGED <<cancel, doomed>>

Claim(t) ==
    /\ t \in Pending(rule[t])
    /\ Running(rule[t]) = {}
    /\ \A u \in Pending(rule[t]) : t <= u
    /\ status' = [status EXCEPT ![t] = "running"]
    /\ doomed' = [doomed EXCEPT ![t] = cancel[t]]
    /\ UNCHANGED <<rule, cancel>>

(* The request looks at the task before it marks it; the task may have     *)
(* finished in between.                                                    *)
RequestCancel(t) ==
    /\ status[t] # "absent"
    /\ cancel' = [cancel EXCEPT ![t] = TRUE]
    /\ UNCHANGED <<status, rule, doomed>>

(* What the run of a task may end with, given the cancellation it saw. *)
Outcome(t) ==
    {s \in Allowed["running"] :
        /\ s = "cancelled" => cancel[t]
        /\ doomed[t] => s \in {"cancelled", "failed"}}

Finish(t, s) ==
    /\ status[t] = "running"
    /\ s \in Outcome(t)
    /\ status' = [status EXCEPT ![t] = s]
    /\ UNCHANGED <<rule, cancel, doomed>>

(* Start-up marks every task a dead process left running as failed. *)
Recover ==
    /\ status' = [t \in Task |->
                    IF status[t] = "running" THEN "failed" ELSE status[t]]
    /\ UNCHANGED <<rule, cancel, doomed>>

Next ==
    \/ \E t \in Task, r \in Rule : Create(t, r)
    \/ \E t \in Task : Claim(t)
    \/ \E t \in Task : RequestCancel(t)
    \/ \E t \in Task, s \in Terminal : Finish(t, s)
    \/ Recover

Spec == Init /\ [][Next]_vars

-----------------------------------------------------------------------------
(* A rule never has two running tasks: the promise of section 7.5 of the   *)
(* design document that claim_next and recover_interrupted keep together.  *)
OneRunningPerRule ==
    \A t, u \in Task :
        status[t] = "running" /\ status[u] = "running" /\ rule[t] = rule[u]
            => t = u

(* A task that was asked to stop before a worker claimed it never counts   *)
(* as a success, complete or partial (the checks run_claimed makes before  *)
(* its first candidate).                                                   *)
DoomedNeverSucceeds ==
    \A t \in Task :
        doomed[t] => status[t] \notin {"succeeded", "partially_succeeded"}

(* A finished task is history: its status never changes again, whatever    *)
(* late cancel request, second finish or start-up comes (finish and        *)
(* recover_interrupted look at the current status before they write).      *)
TerminalIsForever ==
    [][\A t \in Task : status[t] \in Terminal => status'[t] = status[t]]_vars
=============================================================================
