------------------------------- MODULE TaskRun -------------------------------
(***************************************************************************)
(* The run of one claimed task: TaskRunner.run_claimed (tasks/runner.py)   *)
(* with the transactions of tasks/repository.py it makes one after the     *)
(* other, and what can come between them: the request that cancels the     *)
(* task, an exception, the death of the process, the recovery at its next  *)
(* start. A step of this module is one transaction or one fetch.           *)
(*                                                                         *)
(* Candidates are reduced to whether they are verified seeds; articles to  *)
(* how their processing ends. The task is number 1 of TaskLifecycle.       *)
(***************************************************************************)
EXTENDS Naturals, Sequences, FiniteSets, SequencesExt

CONSTANTS
    MaxSeeds,       \* bound: seeds of the rule inside the rolling window
    MaxEntries,     \* bound: RSS and channel addresses of the rule
    MaxCandidates,  \* bound: candidates of the task
    Raises,         \* an unexpected exception may occur
    MayCrash        \* the process may die

ASSUME RunAssumption ==
    /\ MaxSeeds \in Nat /\ MaxEntries \in Nat
    /\ MaxCandidates \in Nat /\ MaxSeeds <= MaxCandidates
    /\ Raises \in BOOLEAN /\ MayCrash \in BOOLEAN

VARIABLES
    status, cancel, doomed, \* the row of the task: see TaskLifecycle
    discovered,   \* column discovered_count
    counts,       \* columns success_count, duplicate_count, filtered_count, failed_count
    items,        \* rows of crawl_task_items: the status of each, in order
    committed,    \* the policy outcome committed for each item, or "none"
    pc,           \* where run_claimed is
    candidates,   \* the candidates found so far: is each a verified seed?
    entries,      \* addresses still to be fetched
    attempted, failedEntries,               \* of the addresses
    verifiedFailed, ordinaryFailed, productive,
    verdict,      \* the status run_claimed is about to finish with
    handling,     \* run_claimed is in its except clauses
    asking,       \* a request has read that the task may be cancelled
    lastItem,     \* history: cancel was requested when the last item was done
    atCancel      \* history: items there were when it was requested

row == <<status, cancel, doomed, discovered, counts>>
locals == <<candidates, entries, attempted, failedEntries>>
flags == <<verifiedFailed, ordinaryFailed, productive>>
history == <<lastItem, atCancel>>
vars == <<row, items, committed, pc, locals, flags, verdict, handling, asking, history>>

PolicyOutcome == {"stored", "updated", "duplicate"}

ItemStatus == PolicyOutcome \cup {"filtered", "failed"}

NoCounts == [success |-> 0, duplicate |-> 0, filtered |-> 0, failed |-> 0]

Lifecycle == INSTANCE TaskLifecycle WITH
    Task <- {1}, Rule <- {1}, NoRule <- 0,
    status <- [t \in {1} |-> status], cancel <- [t \in {1} |-> cancel],
    doomed <- [t \in {1} |-> doomed],
    rule <- [t \in {1} |-> IF status = "absent" THEN 0 ELSE 1]

Terminal == Lifecycle!Terminal

PC == {"new", "load", "discover", "fetch", "fetched", "count", "counted",
       "next", "create", "process", "after", "decide", "finish", "returned", "dead"}

TypeOK ==
    /\ Lifecycle!TypeOK
    /\ discovered \in 0..MaxCandidates
    /\ counts \in [DOMAIN NoCounts -> 0..MaxCandidates]
    /\ items \in SeqOf(ItemStatus, MaxCandidates)
    /\ committed \in SeqOf(PolicyOutcome \cup {"none"}, MaxCandidates)
    /\ pc \in PC
    /\ candidates \in SeqOf(BOOLEAN, MaxCandidates)
    /\ entries \in 0..MaxEntries
    /\ attempted \in 0..MaxEntries /\ failedEntries \in 0..attempted
    /\ verifiedFailed \in BOOLEAN /\ ordinaryFailed \in BOOLEAN /\ productive \in BOOLEAN
    /\ verdict \in Terminal \cup {"none"}
    /\ handling \in BOOLEAN /\ asking \in BOOLEAN
    /\ lastItem \in BOOLEAN /\ atCancel \in 0..MaxCandidates

Init ==
    /\ status = "absent" /\ cancel = FALSE /\ doomed = FALSE
    /\ discovered = 0 /\ counts = NoCounts
    /\ items = <<>> /\ committed = <<>>
    /\ pc = "new"
    /\ candidates = <<>> /\ entries = 0 /\ attempted = 0 /\ failedEntries = 0
    /\ verifiedFailed = FALSE /\ ordinaryFailed = FALSE /\ productive = FALSE
    /\ verdict = "none" /\ handling = FALSE /\ asking = FALSE
    /\ lastItem = FALSE /\ atCancel = 0

-----------------------------------------------------------------------------
(* Around the run: the task centre.                                        *)

Create ==
    /\ status = "absent"
    /\ status' = "pending"
    /\ UNCHANGED <<cancel, doomed, discovered, counts, items, committed, pc, locals,
                   flags, verdict, handling, asking, history>>

Claim ==
    /\ status = "pending"
    /\ status' = "running"
    /\ doomed' = cancel
    /\ pc' = "load"
    /\ UNCHANGED <<cancel, discovered, counts, items, committed, locals, flags,
                   verdict, handling, asking, history>>

(* request_cancel reads that the task is neither finished nor marked, and  *)
(* marks it; the run goes on in between.                                   *)
RequestCancel ==
    /\ status \in {"pending", "running"} /\ pc # "dead"
    /\ ~cancel
    /\ asking' = TRUE
    /\ UNCHANGED <<row, items, committed, pc, locals, flags, verdict, handling, history>>

MarkCancel ==
    /\ asking
    /\ cancel' = TRUE
    /\ asking' = FALSE
    /\ atCancel' = Len(items)
    /\ UNCHANGED <<status, doomed, discovered, counts, items, committed, pc, locals,
                   flags, verdict, handling, lastItem>>

InRun == pc \notin {"new", "finish", "returned", "dead"}

Crash ==
    /\ MayCrash
    /\ pc \notin {"new", "dead"}
    /\ pc' = "dead"
    /\ asking' = FALSE
    /\ UNCHANGED <<row, items, committed, locals, flags, verdict, handling, history>>

(* Broken variants: the task is queued again; nothing is recovered.        *)
RecoverRequeues ==
    /\ pc = "dead"
    /\ status = "running"
    /\ status' = "pending"
    /\ UNCHANGED <<cancel, doomed, discovered, counts, items, committed, pc, locals,
                   flags, verdict, handling, asking, history>>

RecoverNothing == FALSE /\ UNCHANGED vars

(* recover_interrupted at the next start: status, nothing else.            *)
Recover ==
    /\ pc = "dead"
    /\ status = "running"
    /\ status' = "failed"
    /\ UNCHANGED <<cancel, doomed, discovered, counts, items, committed, pc, locals,
                   flags, verdict, handling, asking, history>>

-----------------------------------------------------------------------------
(* run_claimed.                                                            *)

GoTo(label) ==
    /\ pc' = label
    /\ UNCHANGED <<row, items, committed, locals, flags, verdict, handling, asking, history>>

(* Return with finish(s), the next step.                                   *)
FinishWith(s) ==
    /\ pc' = "finish"
    /\ verdict' = s
    /\ UNCHANGED <<row, items, committed, locals, flags, handling, asking, history>>

(* The except clauses around the whole run.                                *)
Except ==
    /\ Raises
    /\ InRun
    /\ pc' = "finish"
    /\ verdict' = "failed"
    /\ handling' = TRUE
    /\ UNCHANGED <<row, items, committed, locals, flags, asking, history>>

(* load_context, the resolved configuration and the seeds in the window.   *)
Load ==
    /\ pc = "load"
    /\ \/ FinishWith("failed")       \* rule, source or category is not active
       \/ \E seeds \in SeqOf(BOOLEAN, MaxSeeds), n \in 0..MaxEntries :
            /\ pc' = "discover"
            /\ candidates' = seeds
            /\ entries' = n
            /\ UNCHANGED <<row, items, committed, attempted, failedEntries, flags,
                           verdict, handling, asking, history>>

(* The head of the loops of _candidates: a cancel ends the discovery.      *)
Discover ==
    /\ pc = "discover"
    /\ IF entries = 0 \/ cancel
       THEN GoTo("count")
       ELSE /\ pc' = "fetch"
            /\ entries' = entries - 1
            /\ attempted' = attempted + 1
            /\ UNCHANGED <<row, items, committed, candidates, failedEntries, flags,
                           verdict, handling, asking, history>>

(* One address: fetched and its links merged, or failed and skipped.       *)
FetchEntry ==
    /\ pc = "fetch"
    /\ \E n \in 0..(MaxCandidates - Len(candidates)) :
        /\ pc' = "fetched"
        /\ candidates' = candidates \o [i \in 1..n |-> FALSE]
        /\ UNCHANGED <<row, items, committed, entries, attempted, failedEntries, flags,
                       verdict, handling, asking, history>>

FetchEntryFails ==
    /\ pc = "fetch"
    /\ pc' = "discover"
    /\ failedEntries' = failedEntries + 1
    /\ UNCHANGED <<row, items, committed, candidates, entries, attempted, flags,
                   verdict, handling, asking, history>>

AfterEntry ==
    /\ pc = "fetched"
    /\ GoTo(IF cancel THEN "count" ELSE "discover")

(* set_discovered_count.                                                   *)
SetDiscoveredCount ==
    /\ pc = "count"
    /\ discovered' = Len(candidates)
    /\ pc' = "counted"
    /\ UNCHANGED <<status, cancel, doomed, counts, items, committed, locals, flags,
                   verdict, handling, asking, history>>

(* is_cancel_requested, in three places: after the discovery, before each  *)
(* candidate and after it.                                                 *)
CancelCheck(label, next) ==
    /\ pc = label
    /\ IF cancel THEN FinishWith("cancelled") ELSE GoTo(next)

AfterDiscovery == CancelCheck("counted", "next")

AfterItem == CancelCheck("after", "next")

(* Broken variant: the cancellation is looked at after candidates only.    *)
BeforeItemUnchecked ==
    /\ Len(items) < Len(candidates)
    /\ pc = "next"
    /\ GoTo("create")

BeforeItem ==
    /\ Len(items) < Len(candidates)
    /\ CancelCheck("next", "create")

(* create_item: a row whose provisional status is failed.                  *)
CreateItem ==
    /\ pc = "create"
    /\ items' = Append(items, "failed")
    /\ committed' = Append(committed, "none")
    /\ pc' = "process"
    /\ UNCHANGED <<row, locals, flags, verdict, handling, asking, history>>

Item == Len(items)

(* Broken variant: the policy is committed, its item is left as it was.    *)
StoreItemSeparately(outcome) ==
    /\ pc = "process"
    /\ committed' = [committed EXCEPT ![Item] = outcome]
    /\ productive' = TRUE
    /\ lastItem' = cancel
    /\ pc' = "after"
    /\ UNCHANGED <<row, items, locals, verifiedFailed, ordinaryFailed, verdict,
                   handling, asking, atCancel>>

(* _complete_policy_item: one transaction writes the policy and the item.  *)
StoreItem(outcome) ==
    /\ pc = "process"
    /\ items' = [items EXCEPT ![Item] = outcome]
    /\ committed' = [committed EXCEPT ![Item] = outcome]
    /\ productive' = TRUE
    /\ lastItem' = cancel
    /\ pc' = "after"
    /\ UNCHANGED <<row, locals, verifiedFailed, ordinaryFailed, verdict,
                   handling, asking, atCancel>>

(* Outside the window or not accepted. A verified seed fails instead; the  *)
(* continue leaves the check after the candidate out.                      *)
FilterItem ==
    /\ pc = "process"
    /\ ~candidates[Item]
    /\ items' = [items EXCEPT ![Item] = "filtered"]
    /\ productive' = TRUE
    /\ lastItem' = cancel
    /\ pc' = "next"
    /\ UNCHANGED <<row, committed, locals, verifiedFailed, ordinaryFailed, verdict,
                   handling, asking, atCancel>>

(* Extraction, seed verification, validation or the policy write fails.    *)
FailItem ==
    /\ pc = "process"
    /\ items' = [items EXCEPT ![Item] = "failed"]
    /\ IF candidates[Item]
       THEN verifiedFailed' = TRUE /\ UNCHANGED ordinaryFailed
       ELSE ordinaryFailed' = TRUE /\ UNCHANGED verifiedFailed
    /\ lastItem' = cancel
    /\ pc' = "after"
    /\ UNCHANGED <<row, committed, locals, productive, verdict, handling, asking, atCancel>>

EndOfCandidates ==
    /\ pc = "next"
    /\ Len(items) = Len(candidates)
    /\ GoTo("decide")

(* Broken variant: failed addresses are forgotten.                         *)
DecisionIgnoringEntries ==
    CASE verifiedFailed -> "failed"
      [] ordinaryFailed -> IF productive THEN "partially_succeeded" ELSE "failed"
      [] cancel -> "cancelled"
      [] OTHER -> "succeeded"

(* The status of a run that went through all its candidates.               *)
Decision ==
    IF verifiedFailed THEN "failed"
    ELSE IF failedEntries > 0
         THEN IF failedEntries < attempted /\ productive
              THEN "partially_succeeded" ELSE "failed"
    ELSE IF ordinaryFailed
         THEN IF productive THEN "partially_succeeded" ELSE "failed"
    ELSE IF cancel THEN "cancelled"
    ELSE "succeeded"

Decide ==
    /\ pc = "decide"
    /\ FinishWith(Decision)

Count(S) == Cardinality({i \in DOMAIN items : items[i] \in S})

(* finish, in one transaction. (Its guards, a running task and no more     *)
(* items than discovered, always hold here: see FinishNeverRefuses.)       *)
Finish ==
    /\ pc = "finish"
    /\ pc' = "returned"
    /\ status' = verdict
    /\ counts' = [success |-> Count({"stored", "updated"}),
                  duplicate |-> Count({"duplicate"}),
                  filtered |-> Count({"filtered"}),
                  failed |-> Count({"failed"})]
    /\ UNCHANGED <<cancel, doomed, discovered, items, committed, locals, flags, verdict,
                   handling, asking, history>>

(* finish raises: the except clauses try again with failed, and when that  *)
(* fails too TASK_FINALIZE_FAILED leaves the row running.                  *)
FinishFails ==
    /\ Raises
    /\ pc = "finish"
    /\ IF handling THEN pc' = "returned" /\ UNCHANGED <<verdict, handling>>
                   ELSE verdict' = "failed" /\ handling' = TRUE /\ UNCHANGED pc
    /\ UNCHANGED <<row, items, committed, locals, flags, asking, history>>

-----------------------------------------------------------------------------
Run ==
    \/ Load \/ Discover \/ FetchEntry \/ FetchEntryFails \/ AfterEntry
    \/ SetDiscoveredCount \/ AfterDiscovery \/ BeforeItem \/ CreateItem
    \/ (\E o \in PolicyOutcome : StoreItem(o)) \/ FilterItem \/ FailItem
    \/ AfterItem \/ EndOfCandidates \/ Decide \/ Finish

Next ==
    \/ Create \/ Claim \/ RequestCancel \/ MarkCancel
    \/ Run \/ Except \/ FinishFails \/ Crash \/ Recover

Spec == Init /\ [][Next]_vars

(* A claimed task's thread goes on, every fetch answers or times out, and  *)
(* a process that died is started again.                                   *)
FairSpec == Spec /\ WF_vars(Claim) /\ WF_vars(Run) /\ WF_vars(Recover)

-----------------------------------------------------------------------------
(* The row follows the promise of the table whatever interrupts the run.   *)
ImplementsLifecycle == Lifecycle!Spec

(* What the final status says about the work is true of the work: nothing  *)
(* was left undone or had failed under a success, a partial success has    *)
(* both a result and a failure and no verified seed among its failures.    *)
StatusIsHonest ==
    pc = "returned" /\ status # "running" =>
        LET Failed(v) == \E i \in DOMAIN items : items[i] = "failed" /\ candidates[i] = v
            AllDone == Len(items) = Len(candidates)
            Results == \E i \in DOMAIN items : items[i] # "failed"
        IN /\ status = "succeeded" =>
                AllDone /\ failedEntries = 0 /\ ~Failed(TRUE) /\ ~Failed(FALSE)
           /\ status = "partially_succeeded" =>
                /\ AllDone /\ Results /\ ~Failed(TRUE)
                /\ failedEntries > 0 \/ Failed(FALSE)
           /\ status = "cancelled" => cancel

(* The four counters account for every item of the run, and the two of     *)
(* results for exactly the policies it committed.                          *)
CountsMatchItems ==
    pc = "returned" /\ status # "running" =>
        /\ counts.success + counts.duplicate + counts.filtered + counts.failed = Len(items)
        /\ counts.success =
              Cardinality({i \in DOMAIN committed : committed[i] \in {"stored", "updated"}})
        /\ counts.duplicate = Cardinality({i \in DOMAIN committed : committed[i] = "duplicate"})

(* finish never finds a reason to refuse: at any moment the row is running *)
(* and has discovered at least as many candidates as it has items.         *)
FinishNeverRefuses == pc = "finish" => status = "running" /\ Len(items) <= discovered

(* After a cancel request at most one more candidate is begun: the one     *)
(* whose check had just passed.                                            *)
CancelStopsWork == cancel => Len(items) <= atCancel + 1

(* An item and its policy are written together or not at all, wherever the *)
(* run is interrupted.                                                     *)
ItemsMatchPolicies ==
    \A i \in DOMAIN items :
        committed[i] = IF items[i] \in PolicyOutcome THEN items[i] ELSE "none"

(* The check after each candidate: a task whose last candidate ended under *)
(* a cancel request ends cancelled.                                        *)
CancelSeenAfterItem == pc = "returned" /\ lastItem => status = "cancelled"

(* A claimed task reaches a terminal status, across a crash too. Only if   *)
(* finish fails twice the row stays running until the service is restarted.*)
RunSettles ==
    status = "running" ~> status \in Terminal \/ (pc = "returned" /\ handling)

(* A task that was asked to stop before it was claimed does no work that   *)
(* would count: it never ends as a success.                                *)
DoomedNeverSucceeds == Lifecycle!DoomedNeverSucceeds

(* Whatever interrupts the run, the row it leaves tells the truth about it.*)
RowTellsTheTruth ==
    /\ StatusIsHonest
    /\ CountsMatchItems
    /\ FinishNeverRefuses
    /\ DoomedNeverSucceeds
=============================================================================
