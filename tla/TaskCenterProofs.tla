---------------------------- MODULE TaskCenterProofs ----------------------------
(***************************************************************************)
(* Proofs about TaskCenter, for every value of its constants: an inductive *)
(* invariant, the safety properties that follow from it, and that the task *)
(* centre implements TaskLifecycle.                                        *)
(***************************************************************************)
EXTENDS TaskCenter, SequenceTheorems, TLAPS

(* The queue of the pool: each of its jobs is waiting, and is in it once.  *)
QueueHoldsJobs ==
    /\ \A i \in 1..Len(queue) : pc[queue[i]] = "queued"
    /\ \A i, j \in 1..Len(queue) : queue[i] = queue[j] => i = j

(* No job exists for a task that nobody has claimed.                       *)
WaitingIsIdle == \A t \in Task : status[t] \in {"absent", "pending"} => pc[t] = "idle"

(* A claimed task has no job before executor.submit makes one.             *)
ClaimIsFresh ==
    \A th \in Thread :
        pc[th] = "submit" => status[claimed[th]] = "running" /\ pc[claimed[th]] = "idle"

(* Between executor.submit and add_done_callback the job cannot be done    *)
(* yet: at its end it calls submit_next, whose lock is held. Only a job    *)
(* that cannot start skips that call.                                      *)
CallbackJobLives ==
    "start" \notin Faults =>
        \A th \in Thread :
            pc[th] = "callback" =>
                pc[claimed[th]] \in {"queued", "starting", "running", "wake", "claim", "submit"}

(* Start-up and shut-down: before the worker starts nobody else runs,      *)
(* requests are served while the application is up only, and the pool is   *)
(* open just in between.                                                   *)
BootIsAlone ==
    /\ pc[Main] \in {"down", "boot"} => \A th \in Thread \ {Main} : pc[th] = "idle"
    /\ pc[Main] # "serving" => \A th \in Request : pc[th] = "idle"
    /\ pc[Main] \in {"down", "boot", "draining"} => ~executor

(* The table gives out identifiers in order, without gaps.                 *)
IdsAreContiguous == \A t, u \in Task : status[u] = "absent" /\ u < t => status[t] = "absent"

(* A request marks a task that exists.                                     *)
TargetExists ==
    \A th \in Request : pc[th] = "cancel" => target[th] \in Task /\ status[target[th]] # "absent"

(* The inductive invariant. The properties of TaskCenter lean on one       *)
(* another: the exclusion of rules at the claim on what was selected       *)
(* (SelectionHolds), that on the lock, the lock's absence of self-deadlock *)
(* on CallbackJobLives, the wake-ups on the jobs that own running tasks.   *)
IInv ==
    /\ TypeOK
    /\ LockHasOneOwner
    /\ QueueHoldsJobs
    /\ WaitingIsIdle
    /\ ClaimIsFresh
    /\ CallbackJobLives
    /\ BootIsAlone
    /\ IdsAreContiguous
    /\ TargetExists
    /\ SelectionHolds
    /\ JobOwnsItsTask
    /\ OneRunningPerRule
    /\ RunningIsOwned
    /\ NoLostWakeup
    /\ NoSelfDeadlock

-----------------------------------------------------------------------------
(* What the assumptions on the constants say of threads and tasks.         *)
LEMMA Constants ==
    /\ Main \notin Task /\ Main \notin Request /\ Main \notin Timer
    /\ \A th \in Request : th \notin Task /\ th \notin Timer
    /\ \A th \in Timer : th \notin Task
    /\ Free \notin Thread
    /\ 0 \notin Task /\ Task \subseteq Nat
    /\ MaxCrash \in Nat
BY CenterAssumption DEF CenterAssumption, Task

(* A thread inside submit_next holds the lock, alone, and has a task.      *)
LEMMA Submitting ==
    ASSUME IInv, NEW th \in Thread, pc[th] \in {"claim", "submit", "callback"}
    PROVE  /\ lock = th /\ th \notin {Free}
           /\ claimed[th] \in Task /\ claimed[th] \in Thread
           /\ \A u \in Thread \ {th} :
                pc[u] \notin {"claim", "submit", "callback", "stuck"} /\ claimed[u] = 0
           /\ pc[th] = "submit" =>
                claimed[th] # th /\ pc[claimed[th]] = "idle" /\ status[claimed[th]] = "running"
BY CenterAssumption
   DEF CenterAssumption, IInv, TypeOK, LockHasOneOwner, ClaimIsFresh, Thread

(* The update of claim_next never misses: it always claims the task.       *)
LEMMA Claiming ==
    ASSUME IInv, NEW th \in Thread, Claim(th)
    PROVE  /\ claimed[th] \in Task /\ claimed[th] \in Thread /\ claimed[th] # th
           /\ lock = th /\ pc[th] = "claim" /\ pc[claimed[th]] = "idle"
           /\ status[claimed[th]] = "pending"
           /\ \A u \in Task : status[u] = "running" => rule[u] # rule[claimed[th]]
           /\ \A u \in Thread \ {th} :
                pc[u] \notin {"claim", "submit", "callback", "stuck"} /\ claimed[u] = 0
           /\ status' = [status EXCEPT ![claimed[th]] = "running"]
           /\ doomed' = [doomed EXCEPT ![claimed[th]] = cancel[claimed[th]]]
           /\ pc' = [pc EXCEPT ![th] = "submit"]
           /\ lock' = lock /\ claimed' = claimed
<1>1. pc[th] = "claim"
  BY DEF Claim
<1>2. MayRun(claimed[th])
  BY <1>1 DEF IInv, SelectionHolds
<1>3. pc[claimed[th]] = "idle" /\ claimed[th] # th
  BY <1>1, <1>2, Submitting DEF IInv, WaitingIsIdle, MayRun
<1> QED
  BY <1>1, <1>2, <1>3, Submitting DEF Claim, MayRun

(* Where a thread goes on after submit_next.                               *)
LEMMA AfterValues ==
    ASSUME NEW th \in Thread
    PROVE  /\ th = Main => After(th) = "serving"
           /\ th # Main => After(th) \in {"idle", "ended", "discard"}
           /\ th \in Task => After(th) \in {"ended", "discard"}
BY CenterAssumption DEF CenterAssumption, After, AfterRun, Thread

(* Taking the first job off the queue.                                     *)
LEMMA QueueHead ==
    ASSUME IInv, queue # <<>>
    PROVE  /\ Head(queue) \in Task /\ Head(queue) \in Thread
           /\ pc[Head(queue)] = "queued"
           /\ Tail(queue) \in Seq(Task)
           /\ Len(Tail(queue)) = Len(queue) - 1 /\ Len(queue) \in Nat
           /\ \A i \in 1..Len(Tail(queue)) :
                /\ i + 1 \in 1..Len(queue) /\ Tail(queue)[i] = queue[i + 1]
                /\ Tail(queue)[i] \in Task /\ Tail(queue)[i] # Head(queue)
<1>1. queue \in Seq(Task)
  BY DEF IInv, TypeOK
<1>2. Len(queue) \in Nat /\ Len(queue) >= 1 /\ Head(queue) = queue[1]
  BY <1>1
<1>3. /\ Tail(queue) \in Seq(Task)
      /\ Len(Tail(queue)) = Len(queue) - 1
      /\ \A i \in 1..Len(Tail(queue)) : Tail(queue)[i] = queue[i + 1]
  BY <1>1, HeadTailProperties
<1>4. \A i \in 1..Len(queue) : queue[i] \in Task
  BY <1>1, ElementOfSeq
<1> QED
  BY <1>1, <1>2, <1>3, <1>4 DEF IInv, QueueHoldsJobs, Thread

(* Putting a job on the queue.                                             *)
LEMMA QueueAppend ==
    ASSUME queue \in Seq(Task), NEW t \in Task
    PROVE  /\ Append(queue, t) \in Seq(Task)
           /\ Len(Append(queue, t)) = Len(queue) + 1
           /\ \A i \in 1..Len(queue) : Append(queue, t)[i] = queue[i]
           /\ Append(queue, t)[Len(queue) + 1] = t
           /\ Len(queue) \in Nat
           /\ \A i \in 1..Len(queue) : queue[i] \in Task
BY AppendProperties, ElementOfSeq

-----------------------------------------------------------------------------
(* Every action preserves the invariant. The steps of each proof are the   *)
(* parts of IInv: types, the lock, the jobs, the main thread and the       *)
(* requests, the selection, the exclusion of rules, the wake-ups.          *)
LEMMA CreateStep ==
    ASSUME IInv, NEW th \in Request \cup Timer, NEW r \in Rule, NEW t \in Task,
           Create(th, r, t)
    PROVE  IInv'
<1>1. TypeOK'
  BY DEF IInv, TypeOK, Lifecycle!TypeOK, PC, Busy, InSubmitNext,
         Lifecycle!Status, Create
<1>2. LockHasOneOwner' /\ ClaimIsFresh' /\ CallbackJobLives' /\ NoSelfDeadlock'
  BY Constants
     DEF IInv, TypeOK, LockHasOneOwner, ClaimIsFresh, CallbackJobLives,
         NoSelfDeadlock, Create, IsNextId
<1>3. QueueHoldsJobs' /\ WaitingIsIdle' /\ JobOwnsItsTask'
  BY Constants
     DEF IInv, QueueHoldsJobs, WaitingIsIdle, JobOwnsItsTask, Create, IsNextId
<1>4. BootIsAlone' /\ TargetExists'
  BY Constants DEF IInv, BootIsAlone, TargetExists, Create, Serving
<1>5. IdsAreContiguous' /\ SelectionHolds'
  <2>1. IdsAreContiguous'
    BY Constants
       DEF IInv, TypeOK, Lifecycle!TypeOK, IdsAreContiguous, Create, IsNextId
  <2>2. ASSUME NEW x \in Thread, (pc[x] = "claim")'
        PROVE  /\ MayRun(claimed[x])'
               /\ \A u \in Task : status'[u] = "pending" /\ rule'[u] = rule'[claimed'[x]]
                                => claimed'[x] <= u
    <3>1. pc[x] = "claim" /\ claimed' = claimed
      BY <2>2 DEF Create, IInv, TypeOK
    <3>2. claimed[x] \in Task /\ MayRun(claimed[x])
      BY <3>1, Submitting DEF IInv, SelectionHolds
    <3>3. claimed[x] # t
      BY <3>2 DEF MayRun, Create, IsNextId
    <3>4. claimed[x] \in Nat /\ t \in Nat
      BY <3>2, Constants
    <3>5. ~(t < claimed[x])
      BY <3>2 DEF MayRun, Create, IsNextId, IInv, IdsAreContiguous
    <3>6. claimed[x] <= t
      BY <3>4, <3>5
    <3>7. \A u \in Task \ {t} : status'[u] = status[u] /\ rule'[u] = rule[u]
      BY DEF Create, IInv, TypeOK, Lifecycle!TypeOK
    <3>8. status'[t] = "pending"
      BY DEF Create, IInv, TypeOK, Lifecycle!TypeOK
    <3>9. MayRun(claimed[x])'
      BY <3>1, <3>2, <3>3, <3>7, <3>8 DEF MayRun
    <3> QED
      BY <3>1, <3>2, <3>3, <3>6, <3>7, <3>9 DEF IInv, SelectionHolds
  <2> QED
    BY <2>1, <2>2 DEF SelectionHolds
<1>6. OneRunningPerRule'
  BY DEF IInv, TypeOK, Lifecycle!TypeOK, OneRunningPerRule,
         Lifecycle!OneRunningPerRule, Create
<1>7. RunningIsOwned' /\ NoLostWakeup'
  BY DEF IInv, Thread, TypeOK, RunningIsOwned, NoLostWakeup, Owned, Waker,
         LockHasOneOwner, Claimable, MayRun, Create
<1> QED
  BY <1>1, <1>2, <1>3, <1>4, <1>5, <1>6, <1>7 DEF IInv

LEMMA RequestCancelStep ==
    ASSUME IInv, NEW th \in Request, NEW t \in Task, RequestCancel(th, t)
    PROVE  IInv'
<1>1. TypeOK'
  BY DEF IInv, TypeOK, Lifecycle!TypeOK, PC, RequestCancel
<1>2. LockHasOneOwner' /\ ClaimIsFresh' /\ CallbackJobLives' /\ NoSelfDeadlock'
  BY Constants
     DEF IInv, TypeOK, LockHasOneOwner, ClaimIsFresh, CallbackJobLives,
         NoSelfDeadlock, RequestCancel
<1>3. QueueHoldsJobs' /\ WaitingIsIdle' /\ JobOwnsItsTask'
  BY Constants
     DEF IInv, QueueHoldsJobs, WaitingIsIdle, JobOwnsItsTask, RequestCancel
<1>4. BootIsAlone' /\ TargetExists'
  BY DEF IInv, TypeOK, BootIsAlone, TargetExists, RequestCancel, Serving
<1>5. IdsAreContiguous' /\ SelectionHolds'
  BY DEF IInv, IdsAreContiguous, SelectionHolds, MayRun, RequestCancel
<1>6. OneRunningPerRule'
  BY DEF IInv, OneRunningPerRule, Lifecycle!OneRunningPerRule, RequestCancel
<1>7. RunningIsOwned' /\ NoLostWakeup'
  BY DEF IInv, RunningIsOwned, NoLostWakeup, Owned, Waker, Claimable, MayRun,
         RequestCancel
<1> QED
  BY <1>1, <1>2, <1>3, <1>4, <1>5, <1>6, <1>7 DEF IInv

LEMMA MarkCancelStep ==
    ASSUME IInv, NEW th \in Request, MarkCancel(th)
    PROVE  IInv'
<1>1. TypeOK'
  BY DEF IInv, TypeOK, Lifecycle!TypeOK, PC, MarkCancel
<1>2. LockHasOneOwner' /\ ClaimIsFresh' /\ CallbackJobLives' /\ NoSelfDeadlock'
  BY DEF IInv, LockHasOneOwner, ClaimIsFresh, CallbackJobLives,
         NoSelfDeadlock, MarkCancel
<1>3. QueueHoldsJobs' /\ WaitingIsIdle' /\ JobOwnsItsTask'
  BY DEF IInv, QueueHoldsJobs, WaitingIsIdle, JobOwnsItsTask, MarkCancel
<1>4. BootIsAlone' /\ TargetExists'
  BY DEF IInv, Thread, TypeOK, BootIsAlone, TargetExists, MarkCancel
<1>5. IdsAreContiguous' /\ SelectionHolds'
  BY DEF IInv, IdsAreContiguous, SelectionHolds, MayRun, MarkCancel
<1>6. OneRunningPerRule'
  BY DEF IInv, OneRunningPerRule, Lifecycle!OneRunningPerRule, MarkCancel
<1>7. RunningIsOwned' /\ NoLostWakeup'
  BY DEF IInv, RunningIsOwned, NoLostWakeup, Owned, Waker, Claimable, MayRun,
         MarkCancel
<1> QED
  BY <1>1, <1>2, <1>3, <1>4, <1>5, <1>6, <1>7 DEF IInv

LEMMA NothingToClaimStep ==
    ASSUME IInv, NEW th \in Thread, NothingToClaim(th)
    PROVE  IInv'
<1>0. PICK x \in {"idle", "ended", "discard", "serving"} :
        /\ pc' = [pc EXCEPT ![th] = x] /\ pc[th] = "wake" /\ lock = Free
        /\ x = "serving" <=> th = Main
  BY AfterValues DEF NothingToClaim, EntersLock
<1>1. TypeOK'
  BY <1>0 DEF IInv, TypeOK, Lifecycle!TypeOK, PC, Busy, NothingToClaim
<1>2. LockHasOneOwner' /\ ClaimIsFresh' /\ CallbackJobLives' /\ NoSelfDeadlock'
  BY Constants, <1>0
     DEF IInv, LockHasOneOwner, ClaimIsFresh, CallbackJobLives,
         NoSelfDeadlock, NothingToClaim
<1>3. QueueHoldsJobs' /\ WaitingIsIdle' /\ JobOwnsItsTask'
  BY <1>0
     DEF IInv, QueueHoldsJobs, WaitingIsIdle, JobOwnsItsTask, NothingToClaim
<1>4. BootIsAlone' /\ TargetExists'
  BY <1>0 DEF IInv, BootIsAlone, TargetExists, NothingToClaim
<1>5. IdsAreContiguous' /\ SelectionHolds'
  BY <1>0 DEF IInv, IdsAreContiguous, SelectionHolds, MayRun, NothingToClaim
<1>6. OneRunningPerRule'
  BY <1>0
     DEF IInv, OneRunningPerRule, Lifecycle!OneRunningPerRule, NothingToClaim
<1>7. RunningIsOwned' /\ NoLostWakeup'
  BY <1>0
     DEF IInv, RunningIsOwned, NoLostWakeup, Owned, Waker, Claimable, MayRun,
         NothingToClaim
<1> QED
  BY <1>1, <1>2, <1>3, <1>4, <1>5, <1>6, <1>7 DEF IInv

LEMMA SelectStep ==
    ASSUME IInv, NEW th \in Thread, NEW t \in Task, Select(th, t)
    PROVE  IInv'
<1>1. TypeOK'
  BY DEF IInv, TypeOK, Lifecycle!TypeOK, PC, Busy, InSubmitNext, Select
<1>2. LockHasOneOwner' /\ ClaimIsFresh' /\ CallbackJobLives' /\ NoSelfDeadlock'
  BY Constants
     DEF IInv, TypeOK, LockHasOneOwner, ClaimIsFresh, CallbackJobLives,
         NoSelfDeadlock, Select, EntersLock
<1>3. QueueHoldsJobs' /\ WaitingIsIdle' /\ JobOwnsItsTask'
  BY DEF IInv, QueueHoldsJobs, WaitingIsIdle, JobOwnsItsTask, Select,
         EntersLock
<1>4. BootIsAlone' /\ TargetExists'
  BY DEF IInv, BootIsAlone, TargetExists, Select, EntersLock
<1>5. IdsAreContiguous' /\ SelectionHolds'
  BY DEF IInv, TypeOK, IdsAreContiguous, SelectionHolds, MayRun, Select,
         Claimable, IsOldest
<1>6. OneRunningPerRule'
  BY DEF IInv, OneRunningPerRule, Lifecycle!OneRunningPerRule, Select
<1>7. RunningIsOwned' /\ NoLostWakeup'
  BY DEF IInv, RunningIsOwned, NoLostWakeup, Owned, Waker, Claimable, MayRun,
         Select, EntersLock
<1> QED
  BY <1>1, <1>2, <1>3, <1>4, <1>5, <1>6, <1>7 DEF IInv

LEMMA ClaimStep ==
    ASSUME IInv, NEW th \in Thread, Claim(th)
    PROVE  IInv'
<1>0. /\ claimed[th] \in Task /\ claimed[th] \in Thread /\ claimed[th] # th
      /\ lock = th /\ pc[th] = "claim" /\ pc[claimed[th]] = "idle"
      /\ status[claimed[th]] = "pending"
      /\ \A u \in Task : status[u] = "running" => rule[u] # rule[claimed[th]]
      /\ \A u \in Thread \ {th} :
           pc[u] \notin {"claim", "submit", "callback", "stuck"} /\ claimed[u] = 0
      /\ status' = [status EXCEPT ![claimed[th]] = "running"]
      /\ doomed' = [doomed EXCEPT ![claimed[th]] = cancel[claimed[th]]]
      /\ pc' = [pc EXCEPT ![th] = "submit"]
      /\ lock' = lock /\ claimed' = claimed
  BY Claiming
<1>a. UNCHANGED <<rule, cancel, executor, queue, target, crashes>>
  BY DEF Claim
<1>1. TypeOK'
  BY <1>0, <1>a
     DEF IInv, TypeOK, Lifecycle!TypeOK, PC, Busy, InSubmitNext,
         Lifecycle!Status
<1>2. LockHasOneOwner' /\ ClaimIsFresh' /\ CallbackJobLives' /\ NoSelfDeadlock'
  BY <1>0, <1>a
     DEF IInv, TypeOK, Lifecycle!TypeOK, LockHasOneOwner, ClaimIsFresh,
         CallbackJobLives, NoSelfDeadlock
<1>3. QueueHoldsJobs' /\ WaitingIsIdle' /\ JobOwnsItsTask'
  <2>1. QueueHoldsJobs'
    BY Constants, <1>0, <1>a
       DEF IInv, Thread, TypeOK, Lifecycle!TypeOK, QueueHoldsJobs,
           WaitingIsIdle, ClaimIsFresh, BootIsAlone, LockHasOneOwner
  <2>2. WaitingIsIdle'
    BY Constants, <1>0, <1>a
       DEF IInv, Thread, TypeOK, Lifecycle!TypeOK, QueueHoldsJobs,
           WaitingIsIdle, ClaimIsFresh, BootIsAlone, LockHasOneOwner
  <2>3. JobOwnsItsTask'
    BY Constants, <1>0, <1>a
       DEF IInv, Thread, TypeOK, Lifecycle!TypeOK, QueueHoldsJobs,
           WaitingIsIdle, JobOwnsItsTask, ClaimIsFresh, BootIsAlone,
           LockHasOneOwner
  <2> QED
    BY <2>1, <2>2, <2>3
<1>4. BootIsAlone' /\ TargetExists'
  BY <1>0, <1>a DEF IInv, BootIsAlone, TargetExists
<1>5. IdsAreContiguous' /\ SelectionHolds'
  BY <1>0, <1>a DEF IInv, TypeOK, IdsAreContiguous, SelectionHolds, MayRun
<1>6. OneRunningPerRule'
  BY <1>0, <1>a DEF IInv, OneRunningPerRule, Lifecycle!OneRunningPerRule
<1>7. RunningIsOwned' /\ NoLostWakeup'
  BY <1>0, <1>a
     DEF IInv, TypeOK, RunningIsOwned, NoLostWakeup, Owned, Waker, Claimable,
         MayRun
<1> QED
  BY <1>1, <1>2, <1>3, <1>4, <1>5, <1>6, <1>7 DEF IInv

LEMMA ClaimFailsStep ==
    ASSUME IInv, NEW th \in Thread, ClaimFails(th)
    PROVE  IInv'
<1>0. PICK x \in {"idle", "ended", "discard", "draining"} :
        /\ pc' = [pc EXCEPT ![th] = x]
        /\ x = "draining" <=> th = Main
        /\ executor' = (executor /\ th # Main)
  BY AfterValues DEF ClaimFails
<1>a. /\ pc[th] \in {"wake", "claim"} /\ lock \in {Free, th}
      /\ \A u \in Thread \ {th} :
           pc[u] \notin {"claim", "submit", "callback", "stuck"} /\ claimed[u] = 0
  BY Constants DEF ClaimFails, EntersLock, IInv, LockHasOneOwner
<1>1. TypeOK'
  BY <1>0, <1>a DEF IInv, TypeOK, Lifecycle!TypeOK, PC, Busy, ClaimFails
<1>2. LockHasOneOwner' /\ ClaimIsFresh' /\ CallbackJobLives' /\ NoSelfDeadlock'
  BY Constants, <1>0, <1>a
     DEF IInv, TypeOK, LockHasOneOwner, ClaimIsFresh, CallbackJobLives,
         NoSelfDeadlock, ClaimFails
<1>3. QueueHoldsJobs' /\ WaitingIsIdle' /\ JobOwnsItsTask'
  BY <1>0, <1>a
     DEF IInv, QueueHoldsJobs, WaitingIsIdle, JobOwnsItsTask, ClaimFails
<1>4. BootIsAlone' /\ TargetExists'
  <2>1. BootIsAlone'
    BY Constants, <1>0, <1>a
       DEF IInv, Thread, TypeOK, Lifecycle!TypeOK, BootIsAlone,
           LockHasOneOwner, QueueHoldsJobs, ClaimFails, EntersLock
  <2>2. TargetExists'
    BY Constants, <1>0, <1>a
       DEF IInv, Thread, TypeOK, Lifecycle!TypeOK, BootIsAlone, TargetExists,
           LockHasOneOwner, QueueHoldsJobs, ClaimFails, EntersLock
  <2> QED
    BY <2>1, <2>2
<1>5. IdsAreContiguous' /\ SelectionHolds'
  BY <1>0, <1>a
     DEF IInv, TypeOK, IdsAreContiguous, SelectionHolds, MayRun, ClaimFails
<1>6. OneRunningPerRule'
  BY <1>0, <1>a
     DEF IInv, OneRunningPerRule, Lifecycle!OneRunningPerRule, ClaimFails
<1>7. RunningIsOwned' /\ NoLostWakeup'
  BY <1>0, <1>a
     DEF IInv, RunningIsOwned, NoLostWakeup, Owned, Waker, Claimable, MayRun,
         ClaimFails
<1> QED
  BY <1>1, <1>2, <1>3, <1>4, <1>5, <1>6, <1>7 DEF IInv

LEMMA SubmitStep ==
    ASSUME IInv, NEW th \in Thread, Submit(th)
    PROVE  IInv'
<1>0. /\ lock = th /\ claimed[th] \in Task /\ claimed[th] \in Thread
      /\ \A u \in Thread \ {th} :
           pc[u] \notin {"claim", "submit", "callback", "stuck"} /\ claimed[u] = 0
      /\ claimed[th] # th /\ pc[claimed[th]] = "idle" /\ status[claimed[th]] = "running"
      /\ queue' \in Seq(Task) /\ Len(queue') = Len(queue) + 1 /\ Len(queue) \in Nat
      /\ \A i \in 1..Len(queue) : queue'[i] = queue[i] /\ queue[i] \in Task
      /\ queue'[Len(queue) + 1] = claimed[th]
  BY Submitting, QueueAppend DEF Submit, IInv, TypeOK
<1>1. TypeOK'
  BY <1>0 DEF IInv, TypeOK, Lifecycle!TypeOK, PC, Busy, InSubmitNext, Submit
<1>2. LockHasOneOwner' /\ ClaimIsFresh' /\ CallbackJobLives' /\ NoSelfDeadlock'
  BY <1>0
     DEF IInv, TypeOK, LockHasOneOwner, ClaimIsFresh, CallbackJobLives,
         NoSelfDeadlock, Submit
<1>3. QueueHoldsJobs' /\ WaitingIsIdle' /\ JobOwnsItsTask'
  BY <1>0
     DEF IInv, Thread, TypeOK, QueueHoldsJobs, WaitingIsIdle, JobOwnsItsTask,
         Submit
<1>4. BootIsAlone' /\ TargetExists'
  BY Constants, <1>0
     DEF IInv, Thread, TypeOK, BootIsAlone, TargetExists, Submit
<1>5. IdsAreContiguous' /\ SelectionHolds'
  BY <1>0 DEF IInv, TypeOK, IdsAreContiguous, SelectionHolds, MayRun, Submit
<1>6. OneRunningPerRule'
  BY <1>0 DEF IInv, OneRunningPerRule, Lifecycle!OneRunningPerRule, Submit
<1>7. RunningIsOwned' /\ NoLostWakeup'
  <2>1. RunningIsOwned'
    BY Constants, <1>0
       DEF IInv, Thread, TypeOK, Lifecycle!TypeOK, RunningIsOwned, Owned,
           Waker, QueueHoldsJobs, LockHasOneOwner, ClaimIsFresh,
           CallbackJobLives, BootIsAlone, Claimable, MayRun, Submit
  <2>2. NoLostWakeup'
    BY Constants, <1>0
       DEF IInv, Thread, TypeOK, Lifecycle!TypeOK, NoLostWakeup, Owned, Waker,
           QueueHoldsJobs, LockHasOneOwner, ClaimIsFresh, CallbackJobLives,
           BootIsAlone, Claimable, MayRun, Submit
  <2> QED
    BY <2>1, <2>2
<1> QED
  BY <1>1, <1>2, <1>3, <1>4, <1>5, <1>6, <1>7 DEF IInv

LEMMA AddCallbackStep ==
    ASSUME IInv, NEW th \in Thread, AddCallback(th)
    PROVE  IInv'
<1>0. /\ lock = th /\ claimed[th] \in Task /\ claimed[th] \in Thread
      /\ \A u \in Thread \ {th} :
           pc[u] \notin {"claim", "submit", "callback", "stuck"} /\ claimed[u] = 0
  BY Submitting DEF AddCallback
<1>a. PICK x \in {"idle", "ended", "discard", "serving", "stuck"} :
        /\ pc' = [pc EXCEPT ![th] = x] /\ pc[th] = "callback"
        /\ x = "stuck" => pc[claimed[th]] = "ended" /\ lock' = lock /\ claimed' = claimed
        /\ x # "stuck" => lock' = Free /\ claimed' = [claimed EXCEPT ![th] = 0]
        /\ x = "serving" => th = Main
  BY AfterValues DEF AddCallback, Unlock
<1>1. TypeOK'
  BY <1>0, <1>a
     DEF IInv, TypeOK, Lifecycle!TypeOK, PC, Busy, InSubmitNext, AddCallback
<1>2. LockHasOneOwner' /\ ClaimIsFresh' /\ CallbackJobLives' /\ NoSelfDeadlock'
  BY Constants, <1>0, <1>a
     DEF IInv, TypeOK, LockHasOneOwner, ClaimIsFresh, CallbackJobLives,
         NoSelfDeadlock, AddCallback
<1>3. QueueHoldsJobs' /\ WaitingIsIdle' /\ JobOwnsItsTask'
  BY <1>0, <1>a
     DEF IInv, QueueHoldsJobs, WaitingIsIdle, JobOwnsItsTask, AddCallback
<1>4. BootIsAlone' /\ TargetExists'
  BY <1>0, <1>a DEF IInv, BootIsAlone, TargetExists, AddCallback
<1>5. IdsAreContiguous' /\ SelectionHolds'
  BY <1>0, <1>a DEF IInv, IdsAreContiguous, SelectionHolds, MayRun, AddCallback
<1>6. OneRunningPerRule'
  BY <1>0, <1>a
     DEF IInv, OneRunningPerRule, Lifecycle!OneRunningPerRule, AddCallback
<1>7. RunningIsOwned' /\ NoLostWakeup'
  BY <1>0, <1>a
     DEF IInv, RunningIsOwned, NoLostWakeup, Owned, Waker, Claimable, MayRun,
         AddCallback
<1> QED
  BY <1>1, <1>2, <1>3, <1>4, <1>5, <1>6, <1>7 DEF IInv

LEMMA TakeStep ==
    ASSUME IInv, NEW t \in Task, Take(t)
    PROVE  IInv'
<1>0. /\ pc[t] = "queued"
      /\ queue' \in Seq(Task) /\ Len(queue') = Len(queue) - 1 /\ Len(queue) \in Nat
      /\ \A i \in 1..Len(queue') :
           /\ i + 1 \in 1..Len(queue) /\ queue'[i] = queue[i + 1]
           /\ queue'[i] \in Task /\ queue'[i] # t
  BY QueueHead DEF Take
<1>1. TypeOK'
  BY <1>0 DEF IInv, TypeOK, Lifecycle!TypeOK, PC, Busy, Take
<1>2. LockHasOneOwner' /\ ClaimIsFresh' /\ CallbackJobLives' /\ NoSelfDeadlock'
  BY <1>0
     DEF IInv, LockHasOneOwner, ClaimIsFresh, CallbackJobLives,
         NoSelfDeadlock, Take
<1>3. QueueHoldsJobs' /\ WaitingIsIdle' /\ JobOwnsItsTask'
  BY <1>0 DEF IInv, QueueHoldsJobs, WaitingIsIdle, JobOwnsItsTask, Take
<1>4. BootIsAlone' /\ TargetExists'
  BY <1>0 DEF IInv, BootIsAlone, TargetExists, Take
<1>5. IdsAreContiguous' /\ SelectionHolds'
  BY <1>0 DEF IInv, IdsAreContiguous, SelectionHolds, MayRun, Take
<1>6. OneRunningPerRule'
  BY <1>0 DEF IInv, OneRunningPerRule, Lifecycle!OneRunningPerRule, Take
<1>7. RunningIsOwned' /\ NoLostWakeup'
  BY <1>0
     DEF IInv, RunningIsOwned, NoLostWakeup, Owned, Waker, Claimable, MayRun,
         Take
<1> QED
  BY <1>1, <1>2, <1>3, <1>4, <1>5, <1>6, <1>7 DEF IInv

LEMMA StartStep ==
    ASSUME IInv, NEW t \in Task, Start(t)
    PROVE  IInv'
<1>1. TypeOK'
  BY DEF IInv, TypeOK, Lifecycle!TypeOK, PC, Busy, Start
<1>2. LockHasOneOwner' /\ ClaimIsFresh' /\ CallbackJobLives' /\ NoSelfDeadlock'
  BY DEF IInv, LockHasOneOwner, ClaimIsFresh, CallbackJobLives,
         NoSelfDeadlock, Start
<1>3. QueueHoldsJobs' /\ WaitingIsIdle' /\ JobOwnsItsTask'
  BY DEF IInv, QueueHoldsJobs, WaitingIsIdle, JobOwnsItsTask, Start
<1>4. BootIsAlone' /\ TargetExists'
  BY DEF IInv, BootIsAlone, TargetExists, Start
<1>5. IdsAreContiguous' /\ SelectionHolds'
  BY DEF IInv, IdsAreContiguous, SelectionHolds, MayRun, Start
<1>6. OneRunningPerRule'
  BY DEF IInv, OneRunningPerRule, Lifecycle!OneRunningPerRule, Start
<1>7. RunningIsOwned' /\ NoLostWakeup'
  BY DEF IInv, RunningIsOwned, NoLostWakeup, Owned, Waker, Claimable, MayRun,
         Start
<1> QED
  BY <1>1, <1>2, <1>3, <1>4, <1>5, <1>6, <1>7 DEF IInv

LEMMA StartFailsStep ==
    ASSUME IInv, NEW t \in Task, StartFails(t)
    PROVE  IInv'
<1>0. PICK x \in {"ended", "discard"} : pc' = [pc EXCEPT ![t] = x] /\ pc[t] = "starting"
  BY DEF StartFails, AfterRun
<1>1. TypeOK'
  BY <1>0 DEF IInv, TypeOK, Lifecycle!TypeOK, PC, Busy, StartFails
<1>2. LockHasOneOwner' /\ ClaimIsFresh' /\ CallbackJobLives' /\ NoSelfDeadlock'
  BY <1>0
     DEF IInv, LockHasOneOwner, ClaimIsFresh, CallbackJobLives,
         NoSelfDeadlock, StartFails
<1>3. QueueHoldsJobs' /\ WaitingIsIdle' /\ JobOwnsItsTask'
  BY <1>0 DEF IInv, QueueHoldsJobs, WaitingIsIdle, JobOwnsItsTask, StartFails
<1>4. BootIsAlone' /\ TargetExists'
  BY <1>0 DEF IInv, BootIsAlone, TargetExists, StartFails
<1>5. IdsAreContiguous' /\ SelectionHolds'
  BY <1>0 DEF IInv, IdsAreContiguous, SelectionHolds, MayRun, StartFails
<1>6. OneRunningPerRule'
  BY <1>0 DEF IInv, OneRunningPerRule, Lifecycle!OneRunningPerRule, StartFails
<1>7. RunningIsOwned' /\ NoLostWakeup'
  BY <1>0
     DEF IInv, RunningIsOwned, NoLostWakeup, Owned, Waker, Claimable, MayRun,
         StartFails
<1> QED
  BY <1>1, <1>2, <1>3, <1>4, <1>5, <1>6, <1>7 DEF IInv

LEMMA FinishStep ==
    ASSUME IInv, NEW t \in Task, NEW s \in Lifecycle!Terminal, Finish(t, s)
    PROVE  IInv'
<1>0. /\ s \in {"succeeded", "partially_succeeded", "failed", "cancelled"}
      /\ pc[t] = "running" /\ status[t] = "running"
      /\ status' = [status EXCEPT ![t] = s] /\ pc' = [pc EXCEPT ![t] = "wake"]
  BY DEF Finish, Lifecycle!Terminal, IInv, JobOwnsItsTask
<1>a. UNCHANGED <<rule, cancel, doomed, executor, queue, lock, claimed, target, crashes>>
  BY DEF Finish
<1>1. TypeOK'
  BY <1>0, <1>a
     DEF IInv, TypeOK, Lifecycle!TypeOK, PC, Busy, InSubmitNext,
         Lifecycle!Status
<1>2. LockHasOneOwner' /\ ClaimIsFresh' /\ CallbackJobLives' /\ NoSelfDeadlock'
  BY <1>0, <1>a
     DEF IInv, LockHasOneOwner, ClaimIsFresh, CallbackJobLives, NoSelfDeadlock
<1>3. QueueHoldsJobs' /\ WaitingIsIdle' /\ JobOwnsItsTask'
  BY <1>0, <1>a
     DEF IInv, Thread, TypeOK, QueueHoldsJobs, WaitingIsIdle, JobOwnsItsTask
<1>4. BootIsAlone' /\ TargetExists'
  BY <1>0, <1>a DEF IInv, BootIsAlone, TargetExists
<1>5. IdsAreContiguous' /\ SelectionHolds'
  BY <1>0, <1>a DEF IInv, IdsAreContiguous, SelectionHolds, MayRun
<1>6. OneRunningPerRule'
  BY <1>0, <1>a DEF IInv, OneRunningPerRule, Lifecycle!OneRunningPerRule
<1>7. RunningIsOwned' /\ NoLostWakeup'
  BY <1>0, <1>a
     DEF IInv, Thread, TypeOK, Lifecycle!TypeOK, RunningIsOwned, NoLostWakeup,
         Owned, Waker, QueueHoldsJobs, Claimable, MayRun
<1> QED
  BY <1>1, <1>2, <1>3, <1>4, <1>5, <1>6, <1>7 DEF IInv

LEMMA FinishFailsStep ==
    ASSUME IInv, NEW t \in Task, FinishFails(t)
    PROVE  IInv'
<1>1. TypeOK'
  BY DEF IInv, TypeOK, Lifecycle!TypeOK, PC, Busy, InSubmitNext, FinishFails
<1>2. LockHasOneOwner' /\ ClaimIsFresh' /\ CallbackJobLives' /\ NoSelfDeadlock'
  BY DEF IInv, LockHasOneOwner, ClaimIsFresh, CallbackJobLives,
         NoSelfDeadlock, FinishFails
<1>3. QueueHoldsJobs' /\ WaitingIsIdle' /\ JobOwnsItsTask'
  BY DEF IInv, QueueHoldsJobs, WaitingIsIdle, JobOwnsItsTask, FinishFails
<1>4. BootIsAlone' /\ TargetExists'
  BY DEF IInv, BootIsAlone, TargetExists, FinishFails
<1>5. IdsAreContiguous' /\ SelectionHolds'
  BY DEF IInv, IdsAreContiguous, SelectionHolds, MayRun, FinishFails
<1>6. OneRunningPerRule'
  BY DEF IInv, OneRunningPerRule, Lifecycle!OneRunningPerRule, FinishFails
<1>7. RunningIsOwned' /\ NoLostWakeup'
  BY DEF IInv, RunningIsOwned, NoLostWakeup, Owned, Waker, Claimable, MayRun,
         FinishFails
<1> QED
  BY <1>1, <1>2, <1>3, <1>4, <1>5, <1>6, <1>7 DEF IInv

LEMMA DiscardStep ==
    ASSUME IInv, NEW t \in Task, Discard(t)
    PROVE  IInv'
<1>1. TypeOK'
  BY DEF IInv, TypeOK, Lifecycle!TypeOK, PC, Discard
<1>2. LockHasOneOwner' /\ ClaimIsFresh' /\ CallbackJobLives' /\ NoSelfDeadlock'
  BY DEF IInv, LockHasOneOwner, ClaimIsFresh, CallbackJobLives,
         NoSelfDeadlock, Discard
<1>3. QueueHoldsJobs' /\ WaitingIsIdle' /\ JobOwnsItsTask'
  BY DEF IInv, QueueHoldsJobs, WaitingIsIdle, JobOwnsItsTask, Discard
<1>4. BootIsAlone' /\ TargetExists'
  BY DEF IInv, BootIsAlone, TargetExists, Discard
<1>5. IdsAreContiguous' /\ SelectionHolds'
  BY DEF IInv, IdsAreContiguous, SelectionHolds, MayRun, Discard
<1>6. OneRunningPerRule'
  BY DEF IInv, OneRunningPerRule, Lifecycle!OneRunningPerRule, Discard
<1>7. RunningIsOwned' /\ NoLostWakeup'
  BY DEF IInv, RunningIsOwned, NoLostWakeup, Owned, Waker, Claimable, MayRun,
         Discard
<1> QED
  BY <1>1, <1>2, <1>3, <1>4, <1>5, <1>6, <1>7 DEF IInv

LEMMA BootStep ==
    ASSUME IInv, Boot
    PROVE  IInv'
<1>1. TypeOK'
  BY DEF IInv, TypeOK, Lifecycle!TypeOK, PC, Boot
<1>2. LockHasOneOwner' /\ ClaimIsFresh' /\ CallbackJobLives' /\ NoSelfDeadlock'
  BY DEF IInv, LockHasOneOwner, ClaimIsFresh, CallbackJobLives,
         NoSelfDeadlock, Boot
<1>3. QueueHoldsJobs' /\ WaitingIsIdle' /\ JobOwnsItsTask'
  BY DEF IInv, QueueHoldsJobs, WaitingIsIdle, JobOwnsItsTask, Boot
<1>4. BootIsAlone' /\ TargetExists'
  BY DEF IInv, BootIsAlone, TargetExists, Boot
<1>5. IdsAreContiguous' /\ SelectionHolds'
  BY DEF IInv, IdsAreContiguous, SelectionHolds, MayRun, Boot
<1>6. OneRunningPerRule'
  BY DEF IInv, OneRunningPerRule, Lifecycle!OneRunningPerRule, Boot
<1>7. RunningIsOwned' /\ NoLostWakeup'
  BY DEF IInv, RunningIsOwned, NoLostWakeup, Owned, Waker, Claimable, MayRun,
         Boot
<1> QED
  BY <1>1, <1>2, <1>3, <1>4, <1>5, <1>6, <1>7 DEF IInv

LEMMA RecoverStep ==
    ASSUME IInv, Recover
    PROVE  IInv'
<1>1. TypeOK'
  BY DEF IInv, TypeOK, Lifecycle!TypeOK, PC, Busy, InSubmitNext,
         Lifecycle!Status, Lifecycle!Terminal, Recover, Recovered
<1>2. LockHasOneOwner' /\ ClaimIsFresh' /\ CallbackJobLives' /\ NoSelfDeadlock'
  BY DEF IInv, LockHasOneOwner, ClaimIsFresh, CallbackJobLives,
         NoSelfDeadlock, BootIsAlone, Recover
<1>3. QueueHoldsJobs' /\ WaitingIsIdle' /\ JobOwnsItsTask'
  BY Constants
     DEF IInv, Thread, QueueHoldsJobs, WaitingIsIdle, JobOwnsItsTask,
         BootIsAlone, Recover
<1>4. BootIsAlone' /\ TargetExists'
  BY DEF IInv, Thread, TypeOK, BootIsAlone, TargetExists, Recover
<1>5. IdsAreContiguous' /\ SelectionHolds'
  BY DEF IInv, TypeOK, IdsAreContiguous, SelectionHolds, MayRun,
         LockHasOneOwner, Recover, Recovered
<1>6. OneRunningPerRule'
  BY DEF IInv, OneRunningPerRule, Lifecycle!OneRunningPerRule, Recover,
         Recovered
<1>7. RunningIsOwned' /\ NoLostWakeup'
  BY DEF IInv, Thread, TypeOK, RunningIsOwned, NoLostWakeup, Owned, Waker,
         Claimable, MayRun, Recover, Recovered
<1> QED
  BY <1>1, <1>2, <1>3, <1>4, <1>5, <1>6, <1>7 DEF IInv

LEMMA ShutdownStep ==
    ASSUME IInv, Shutdown
    PROVE  IInv'
<1>1. TypeOK'
  BY DEF IInv, TypeOK, Lifecycle!TypeOK, PC, Shutdown
<1>2. LockHasOneOwner' /\ ClaimIsFresh' /\ CallbackJobLives' /\ NoSelfDeadlock'
  BY Constants
     DEF IInv, LockHasOneOwner, ClaimIsFresh, CallbackJobLives,
         NoSelfDeadlock, Shutdown
<1>3. QueueHoldsJobs' /\ WaitingIsIdle' /\ JobOwnsItsTask'
  BY Constants
     DEF IInv, TypeOK, QueueHoldsJobs, WaitingIsIdle, JobOwnsItsTask, Shutdown
<1>4. BootIsAlone' /\ TargetExists'
  BY Constants DEF IInv, BootIsAlone, TargetExists, Shutdown
<1>5. IdsAreContiguous' /\ SelectionHolds'
  BY DEF IInv, IdsAreContiguous, SelectionHolds, MayRun, Shutdown
<1>6. OneRunningPerRule'
  BY DEF IInv, OneRunningPerRule, Lifecycle!OneRunningPerRule, Shutdown
<1>7. RunningIsOwned' /\ NoLostWakeup'
  BY DEF IInv, RunningIsOwned, NoLostWakeup, Owned, Waker, Claimable, MayRun,
         Shutdown, Serving
<1> QED
  BY <1>1, <1>2, <1>3, <1>4, <1>5, <1>6, <1>7 DEF IInv

LEMMA ExitStep ==
    ASSUME IInv, Exit
    PROVE  IInv'
<1>0. \A i \in 1..Len(queue) : queue[i] \in Task
  BY DEF IInv, TypeOK
<1>1. TypeOK'
  BY <1>0 DEF IInv, TypeOK, Lifecycle!TypeOK, PC, Exit
<1>2. LockHasOneOwner' /\ ClaimIsFresh' /\ CallbackJobLives' /\ NoSelfDeadlock'
  BY <1>0
     DEF IInv, Thread, LockHasOneOwner, ClaimIsFresh, CallbackJobLives,
         NoSelfDeadlock, BootIsAlone, Exit
<1>3. QueueHoldsJobs' /\ WaitingIsIdle' /\ JobOwnsItsTask'
  <2>1. QueueHoldsJobs'
    BY Constants, <1>0
       DEF IInv, Thread, TypeOK, Lifecycle!TypeOK, QueueHoldsJobs,
           WaitingIsIdle, ClaimIsFresh, BootIsAlone, LockHasOneOwner, Exit
  <2>2. WaitingIsIdle'
    BY Constants, <1>0
       DEF IInv, Thread, TypeOK, Lifecycle!TypeOK, QueueHoldsJobs,
           WaitingIsIdle, ClaimIsFresh, BootIsAlone, LockHasOneOwner, Exit
  <2>3. JobOwnsItsTask'
    BY Constants, <1>0
       DEF IInv, Thread, TypeOK, Lifecycle!TypeOK, QueueHoldsJobs,
           WaitingIsIdle, JobOwnsItsTask, ClaimIsFresh, BootIsAlone,
           LockHasOneOwner, Exit
  <2> QED
    BY <2>1, <2>2, <2>3
<1>4. BootIsAlone' /\ TargetExists'
  BY <1>0 DEF IInv, Thread, BootIsAlone, TargetExists, Exit
<1>5. IdsAreContiguous' /\ SelectionHolds'
  BY <1>0 DEF IInv, IdsAreContiguous, SelectionHolds, MayRun, Exit
<1>6. OneRunningPerRule'
  BY <1>0 DEF IInv, OneRunningPerRule, Lifecycle!OneRunningPerRule, Exit
<1>7. RunningIsOwned' /\ NoLostWakeup'
  BY <1>0
     DEF IInv, Thread, RunningIsOwned, NoLostWakeup, Owned, Waker,
         BootIsAlone, Claimable, MayRun, Exit
<1> QED
  BY <1>1, <1>2, <1>3, <1>4, <1>5, <1>6, <1>7 DEF IInv

LEMMA CrashStep ==
    ASSUME IInv, Crash
    PROVE  IInv'
<1>1. TypeOK'
  <2>1. Lifecycle!TypeOK'
    BY DEF Crash, IInv, TypeOK, Lifecycle!TypeOK
  <2>2. queue' \in Seq(Task) /\ crashes' \in 0..MaxCrash
    BY Constants, EmptySeq DEF Crash, IInv, TypeOK
  <2>3. /\ pc' \in [Thread -> PC] /\ claimed' \in [Thread -> Task \cup {0}]
        /\ target' \in [Request -> Task \cup {0}]
    BY DEF Crash, PC
  <2> QED
    BY <2>1, <2>2, <2>3 DEF Crash, TypeOK
<1>2. LockHasOneOwner' /\ ClaimIsFresh' /\ CallbackJobLives' /\ NoSelfDeadlock'
  BY Constants
     DEF IInv, LockHasOneOwner, ClaimIsFresh, CallbackJobLives,
         NoSelfDeadlock, Crash
<1>3. QueueHoldsJobs' /\ WaitingIsIdle' /\ JobOwnsItsTask'
  BY Constants
     DEF IInv, Thread, QueueHoldsJobs, WaitingIsIdle, JobOwnsItsTask, Crash
<1>4. BootIsAlone' /\ TargetExists'
  BY Constants DEF IInv, Thread, BootIsAlone, TargetExists, Crash
<1>5. IdsAreContiguous' /\ SelectionHolds'
  BY DEF IInv, IdsAreContiguous, SelectionHolds, MayRun, Crash
<1>6. OneRunningPerRule'
  BY DEF IInv, OneRunningPerRule, Lifecycle!OneRunningPerRule, Crash
<1>7. RunningIsOwned' /\ NoLostWakeup'
  BY DEF IInv, Thread, RunningIsOwned, NoLostWakeup, Owned, Waker, Claimable,
         MayRun, Crash
<1> QED
  BY <1>1, <1>2, <1>3, <1>4, <1>5, <1>6, <1>7 DEF IInv

-----------------------------------------------------------------------------
(* The empty table before the first start-up satisfies the invariant.      *)
LEMMA InitEstablishes == Init => IInv
<1> SUFFICES ASSUME Init PROVE IInv
  OBVIOUS
<1>1. TypeOK
  <2>1. Lifecycle!TypeOK
    BY DEF Init, Lifecycle!Init, Lifecycle!TypeOK, Lifecycle!Status
  <2>2. queue \in Seq(Task) /\ crashes \in 0..MaxCrash
    BY Constants, EmptySeq DEF Init
  <2>3. /\ pc \in [Thread -> PC] /\ claimed \in [Thread -> Task \cup {0}]
        /\ target \in [Request -> Task \cup {0}]
    BY DEF Init, PC
  <2> QED
    BY <2>1, <2>2, <2>3 DEF Init, TypeOK
<1>2. LockHasOneOwner /\ ClaimIsFresh /\ CallbackJobLives /\ NoSelfDeadlock
  BY Constants
     DEF Init, Thread, LockHasOneOwner, ClaimIsFresh, CallbackJobLives,
         NoSelfDeadlock
<1>3. QueueHoldsJobs /\ WaitingIsIdle /\ JobOwnsItsTask
  BY Constants DEF Init, Thread, QueueHoldsJobs, WaitingIsIdle, JobOwnsItsTask
<1>4. BootIsAlone /\ TargetExists
  BY Constants DEF Init, Thread, BootIsAlone, TargetExists
<1>5. IdsAreContiguous /\ SelectionHolds
  BY DEF Init, Lifecycle!Init, IdsAreContiguous, SelectionHolds
<1>6. OneRunningPerRule
  BY DEF Init, Lifecycle!Init, OneRunningPerRule, Lifecycle!OneRunningPerRule
<1>7. RunningIsOwned /\ NoLostWakeup
  BY DEF Init, Lifecycle!Init, RunningIsOwned, NoLostWakeup
<1> QED
  BY <1>1, <1>2, <1>3, <1>4, <1>5, <1>6, <1>7 DEF IInv

(* A step that changes nothing preserves the invariant.                    *)
LEMMA StutterPreserves == IInv /\ UNCHANGED vars => IInv'
<1> SUFFICES ASSUME IInv, UNCHANGED vars PROVE IInv'
  OBVIOUS
<1> USE DEF IInv, vars
<1>1. TypeOK'
  BY DEF TypeOK, Lifecycle!TypeOK
<1>2. LockHasOneOwner' /\ ClaimIsFresh' /\ CallbackJobLives' /\ NoSelfDeadlock'
  BY DEF LockHasOneOwner, ClaimIsFresh, CallbackJobLives, NoSelfDeadlock
<1>3. QueueHoldsJobs' /\ WaitingIsIdle' /\ JobOwnsItsTask'
  BY DEF QueueHoldsJobs, WaitingIsIdle, JobOwnsItsTask
<1>4. BootIsAlone' /\ TargetExists'
  BY DEF BootIsAlone, TargetExists
<1>5. IdsAreContiguous' /\ SelectionHolds'
  BY DEF IdsAreContiguous, SelectionHolds, MayRun
<1>6. OneRunningPerRule'
  BY DEF OneRunningPerRule, Lifecycle!OneRunningPerRule
<1>7. RunningIsOwned' /\ NoLostWakeup'
  BY DEF RunningIsOwned, Owned, NoLostWakeup, Waker, Claimable, MayRun
<1> QED
  BY <1>1, <1>2, <1>3, <1>4, <1>5, <1>6, <1>7

(* So does every step.                                                     *)
LEMMA NextPreserves == IInv /\ [Next]_vars => IInv'
<1> SUFFICES ASSUME IInv, [Next]_vars PROVE IInv'
  OBVIOUS
<1>1. CASE \E th \in Request \cup Timer, r \in Rule, t \in Task : Create(th, r, t)
  BY <1>1, CreateStep
<1>2. CASE \E th \in Request : (\E t \in Task : RequestCancel(th, t)) \/ MarkCancel(th)
  BY <1>2, RequestCancelStep, MarkCancelStep
<1>3. CASE \E th \in Thread : SubmitNext(th)
  BY <1>3, NothingToClaimStep, SelectStep, ClaimStep, SubmitStep,
     AddCallbackStep
     DEF SubmitNext
<1>4. CASE \E t \in Task : Job(t)
  BY <1>4, TakeStep, StartStep, FinishStep, DiscardStep DEF Job
<1>5. CASE Boot \/ Recover \/ Shutdown \/ Exit
  BY <1>5, BootStep, RecoverStep, ShutdownStep, ExitStep
<1>6. CASE Failure
  BY <1>6, ClaimFailsStep, StartFailsStep, FinishFailsStep, CrashStep
     DEF Failure
<1>7. CASE UNCHANGED vars
  BY <1>7, StutterPreserves
<1> QED
  BY <1>1, <1>2, <1>3, <1>4, <1>5, <1>6, <1>7 DEF Next

-----------------------------------------------------------------------------
(* The invariant holds in every state the task centre can reach, for any   *)
(* number of tasks, rules, threads, workers and crashes and with every     *)
(* combination of the faults.                                              *)
THEOREM Invariance == Spec => []IInv
<1>1. Init => IInv
  BY InitEstablishes
<1>2. IInv /\ [Next]_vars => IInv'
  BY NextPreserves
<1> QED
  BY <1>1, <1>2, PTL DEF Spec

(* Every variable keeps its type.                                          *)
THEOREM TypeCorrect == Spec => []TypeOK
<1>1. IInv => TypeOK
  BY DEF IInv
<1> QED
  BY <1>1, Invariance, PTL

(* A rule never has two running tasks, whatever requests, timers and jobs  *)
(* call submit_next at once and however often the process dies             *)
(* (claim_next, recover_interrupted).                                      *)
THEOREM RuleExclusion == Spec => []OneRunningPerRule
<1>1. IInv => OneRunningPerRule
  BY DEF IInv
<1> QED
  BY <1>1, Invariance, PTL

(* The task claim_next selects may still run, and is still the oldest of   *)
(* its rule, when its row is updated (claim_next under TaskWorker._lock).  *)
THEOREM SelectionsHold == Spec => []SelectionHolds
<1>1. IInv => SelectionHolds
  BY DEF IInv
<1> QED
  BY <1>1, Invariance, PTL

(* One thread at a time is between the selection of a task and the         *)
(* registration of its job (TaskWorker.submit_next).                       *)
THEOREM LockExclusion == Spec => []LockHasOneOwner
<1>1. IInv => LockHasOneOwner
  BY DEF IInv
<1> QED
  BY <1>1, Invariance, PTL

(* As long as a job has not finished its task the row says running: nobody *)
(* else ends it (TaskWorker._run, request_cancel, recover_interrupted).    *)
THEOREM JobsOwnTheirTasks == Spec => []JobOwnsItsTask
<1>1. IInv => JobOwnsItsTask
  BY DEF IInv
<1> QED
  BY <1>1, Invariance, PTL

(* If neither a start nor a finish fails, every running row has a job, a   *)
(* thread about to submit one, or a start-up ahead that fails it           *)
(* (submit_next, _run, recover_interrupted).                               *)
THEOREM RunningTasksAreOwned == Spec => []RunningIsOwned
<1>1. IInv => RunningIsOwned
  BY DEF IInv
<1> QED
  BY <1>1, Invariance, PTL

(* Without faults, a task that may run is never forgotten: some thread is  *)
(* on its way into submit_next (TaskWorker._run, create_task).             *)
THEOREM WakeupsAreKept == Spec => []NoLostWakeup
<1>1. IInv => NoLostWakeup
  BY DEF IInv
<1> QED
  BY <1>1, Invariance, PTL

(* Unless a job can fail before its run begins, no thread ever waits for   *)
(* the lock it holds (add_done_callback inside submit_next).               *)
THEOREM NoThreadWaitsForItself == Spec => []NoSelfDeadlock
<1>1. IInv => NoSelfDeadlock
  BY DEF IInv
<1> QED
  BY <1>1, Invariance, PTL

-----------------------------------------------------------------------------
(* Every step of the task centre is a step of the table's promise, or      *)
(* leaves the table alone.                                                 *)
LEMMA StepRefines == IInv /\ [Next]_vars => [Lifecycle!Next]_(Lifecycle!vars)
<1> SUFFICES ASSUME IInv, [Next]_vars PROVE Lifecycle!Next \/ UNCHANGED Lifecycle!vars
  OBVIOUS
<1>1. ASSUME NEW th \in Request \cup Timer, NEW r \in Rule, NEW t \in Task, Create(th, r, t)
      PROVE  Lifecycle!Create(t, r)
  BY <1>1 DEF Create, IsNextId, Lifecycle!Create
<1>2. ASSUME NEW th \in Request, MarkCancel(th)
      PROVE  \E t \in Task : Lifecycle!RequestCancel(t)
  <2>1. target[th] \in Task /\ status[target[th]] # "absent"
    BY <1>2 DEF MarkCancel, IInv, TargetExists
  <2> QED
    BY <1>2, <2>1 DEF MarkCancel, Lifecycle!RequestCancel
<1>3. ASSUME NEW th \in Thread, Claim(th)
      PROVE  \E t \in Task : Lifecycle!Claim(t)
  <2> DEFINE t == claimed[th]
  <2>1. /\ t \in Task /\ status[t] = "pending"
        /\ \A u \in Task : status[u] = "running" => rule[u] # rule[t]
        /\ status' = [status EXCEPT ![t] = "running"]
        /\ doomed' = [doomed EXCEPT ![t] = cancel[t]]
        /\ UNCHANGED <<rule, cancel>>
    BY <1>3, Claiming DEF Claim
  <2>2. \A u \in Task : status[u] = "pending" /\ rule[u] = rule[t] => t <= u
    BY <1>3 DEF Claim, IInv, SelectionHolds
  <2>3. Lifecycle!Running(rule[t]) = {} /\ t \in Lifecycle!Pending(rule[t])
    BY <2>1 DEF Lifecycle!Running, Lifecycle!Pending
  <2>4. \A u \in Lifecycle!Pending(rule[t]) : t <= u
    BY <2>2 DEF Lifecycle!Pending
  <2>5. Lifecycle!Claim(t)
    BY <2>1, <2>3, <2>4 DEF Lifecycle!Claim
  <2> QED
    BY <2>1, <2>5
<1>4. ASSUME NEW t \in Task, NEW s \in Lifecycle!Terminal, Finish(t, s)
      PROVE  Lifecycle!Finish(t, s)
  BY <1>4 DEF Finish, Lifecycle!Finish, IInv, JobOwnsItsTask
<1>5. ASSUME Recover
      PROVE  Lifecycle!Recover
  BY <1>5 DEF Recover, Recovered, Lifecycle!Recover
<1>6. ASSUME NEW th \in Thread,
             \/ NothingToClaim(th) \/ (\E t \in Task : Select(th, t)) \/ ClaimFails(th)
             \/ Submit(th) \/ AddCallback(th)
      PROVE  UNCHANGED Lifecycle!vars
  BY <1>6
     DEF NothingToClaim, Select, ClaimFails, Submit, AddCallback,
         Lifecycle!vars
<1>9. ASSUME NEW th \in Request, NEW t \in Task, RequestCancel(th, t)
      PROVE  UNCHANGED Lifecycle!vars
  BY <1>9 DEF RequestCancel, Lifecycle!vars
<1>7. ASSUME NEW t \in Task, Take(t) \/ Start(t) \/ StartFails(t) \/ FinishFails(t) \/ Discard(t)
      PROVE  UNCHANGED Lifecycle!vars
  BY <1>7 DEF Take, Start, StartFails, FinishFails, Discard, Lifecycle!vars
<1>8. ASSUME Boot \/ Shutdown \/ Exit \/ Crash \/ UNCHANGED vars
      PROVE  UNCHANGED Lifecycle!vars
  BY <1>8 DEF Boot, Shutdown, Exit, Crash, vars, Lifecycle!vars
<1> QED
  BY <1>1, <1>2, <1>3, <1>4, <1>5, <1>6, <1>7, <1>8, <1>9
     DEF Next, SubmitNext, Job, Failure, Lifecycle!Next

(* The task centre keeps the promise of TaskLifecycle, with every failure  *)
(* and every crash (tasks/worker.py and tasks/repository.py together).     *)
THEOREM Implementation == Spec => ImplementsLifecycle
<1>1. Init => Lifecycle!Init
  BY DEF Init
<1>2. IInv /\ [Next]_vars => [Lifecycle!Next]_(Lifecycle!vars)
  BY StepRefines
<1> QED
  BY <1>1, <1>2, Invariance, PTL DEF Spec, ImplementsLifecycle, Lifecycle!Spec

(* A finished task stays as it ended: it follows from the refinement, as   *)
(* no step of TaskLifecycle leaves a terminal status.                      *)
THEOREM FinishedForGood == Spec => TerminalIsForever
<1> DEFINE Kept == \A t \in Task : status[t] \in Lifecycle!Terminal => status'[t] = status[t]
<1>1. ASSUME IInv, [Next]_vars
      PROVE  [Kept]_(Lifecycle!vars)
  <2>1. [Lifecycle!Next]_(Lifecycle!vars)
    BY <1>1, StepRefines
  <2>2. status \in [Task -> Lifecycle!Status]
    BY <1>1 DEF IInv, TypeOK, Lifecycle!TypeOK
  <2>3. CASE UNCHANGED Lifecycle!vars
    BY <2>3
  <2>4. CASE \E t \in Task, r \in Rule : Lifecycle!Create(t, r)
    BY <2>2, <2>4 DEF Lifecycle!Create, Lifecycle!Terminal
  <2>5. CASE \E t \in Task : Lifecycle!Claim(t)
    BY <2>2, <2>5 DEF Lifecycle!Claim, Lifecycle!Pending, Lifecycle!Terminal
  <2>6. CASE \E t \in Task : Lifecycle!RequestCancel(t)
    BY <2>6 DEF Lifecycle!RequestCancel
  <2>7. CASE \E t \in Task, s \in Lifecycle!Terminal : Lifecycle!Finish(t, s)
    BY <2>2, <2>7 DEF Lifecycle!Finish, Lifecycle!Terminal
  <2>8. CASE Lifecycle!Recover
    BY <2>2, <2>8 DEF Lifecycle!Recover, Lifecycle!Terminal
  <2> QED
    BY <2>1, <2>3, <2>4, <2>5, <2>6, <2>7, <2>8 DEF Lifecycle!Next
<1> QED
  BY <1>1, Invariance, PTL DEF Spec, TerminalIsForever, Lifecycle!TerminalIsForever
===============================================================================
