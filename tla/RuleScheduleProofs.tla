-------------------------- MODULE RuleScheduleProofs --------------------------
(***************************************************************************)
(* Proofs about RuleSchedule, for any number of rules, cron expressions,   *)
(* firings, saves, restarts and administrators: the theorems. That the     *)
(* rows are sound and the scheduler follows them is no theorem, since the  *)
(* code lets two saves overlap and RuleSchedule_skew.cfg and               *)
(* RuleSchedule_sync.cfg show what that does. The last lemma says that     *)
(* nothing else does it: it holds for saves that come one after the other. *)
(***************************************************************************)
EXTENDS RuleSchedule, TLAPS

Request ==
    {Idle, Sync}
        \cup [at : {"write"}, rule : Rule, old : Row, new : Row]
        \cup [at : {"remove"}, todo : SUBSET Rule]
        \cup [at : {"add"}, plan : SUBSET (Rule \X (0..MaxCron))]

JobRun ==
    {Idle, [at |-> "fired"]}
        \cup [at : {"check", "create", "record"}, for : 0..MaxNow,
              next : FireTime]
        \cup [at : {"write"}, old : Row, new : Row]

Shapes ==
    /\ row \in [Rule -> Row]
    /\ known \subseteq Rule
    /\ jobs \in [Rule -> 0..MaxCron]
    /\ now \in 0..MaxNow
    /\ latest \in [Rule -> 0..MaxNow]
    /\ req \in [Admin -> Request]
    /\ timer \in [Rule -> JobRun]
    /\ schedLock \in Rule \cup {Nobody}
    /\ saves \in 0..MaxSave /\ crashes \in 0..MaxCrash

(* Saves keep out of last_run_at, and a job run that has selected the row  *)
(* is the only one that writes it.                                         *)
SavesKeepLast == \A a \in Admin : req[a].at = "write" => req[a].new.last = req[a].old.last

JobsWriteLast ==
    \A r \in Rule :
        /\ timer[r].at = "record" => timer[r].for = latest[r]
        /\ timer[r].at = "write" =>
              timer[r].new.last = latest[r] /\ timer[r].old.last = row[r].last

(* A rule that does not exist yet has no job, no task and no save.         *)
UnknownIsNew ==
    /\ \A r \in Rule \ known :
          row[r] = NewRow /\ jobs[r] = 0 /\ timer[r] = Idle /\ latest[r] = 0
    /\ \A a \in Admin :
          /\ req[a].at = "write" => req[a].rule \in known
          /\ req[a].at = "add" => \A e \in req[a].plan : e[1] \in known

(* The inductive invariant for any number of administrators.               *)
IInv ==
    /\ Shapes
    /\ UnknownIsNew
    /\ SavesKeepLast
    /\ JobsWriteLast
    /\ LastRunIsLatestTask

-----------------------------------------------------------------------------
(* One save at a time.                                                     *)

OneAdmin == \A a, b \in Admin : a = b

Sound(x) ==
    /\ x.enabled => x.active
    /\ x.enabled => x.next # NoTime
    /\ x.mode = "schedule" => x.cron # 0

SameTrigger(x, y) ==
    x.mode = y.mode /\ x.cron = y.cron /\ x.enabled = y.enabled /\ x.active = y.active

RowsAreSound == \A r \in Rule : Sound(row[r])

(* What a save selected is what it writes over, but for the run times.     *)
SavesAreCurrent ==
    \A a \in Admin : req[a].at = "write" =>
        LET current == row[req[a].rule] IN
        /\ SameTrigger(req[a].old, current)
        /\ Sound(req[a].new)
        /\ req[a].old.next # NoTime => current.next # NoTime

(* A job run announces a next run, and writes nothing but the run times.   *)
JobsAnnounce ==
    \A r \in Rule :
        /\ timer[r].at \in {"check", "create", "record"} => timer[r].next # NoTime
        /\ timer[r].at = "write" =>
              timer[r].new.next # NoTime /\ SameTrigger(timer[r].old, timer[r].new)

(* What sync_jobs has left to do: it removes every job, then adds the      *)
(* planned ones, and nobody else touches the jobs.                         *)
SyncIsAlone ==
    \A a \in Admin :
        /\ req[a].at = "remove" => req[a].todo = Registered
        /\ req[a].at = "add" =>
              /\ \A e \in req[a].plan : Eligible(e[1]) /\ e[2] = row[e[1]].cron
              /\ \A r \in Rule :
                    jobs[r] = IF Eligible(r) /\ <<r, row[r].cron>> \notin req[a].plan
                              THEN row[r].cron ELSE 0

(* The inductive invariant for one administrator at a time.                *)
OneInv ==
    /\ IInv
    /\ RowsAreSound
    /\ SavesAreCurrent
    /\ JobsAnnounce
    /\ SyncIsAlone
    /\ JobsMatchRules

-----------------------------------------------------------------------------
(* The operators on rows.                                                  *)

(* A cron expression announces an instant; the missing one announces none. *)
LEMMA FireTimes ==
    ASSUME NEW cron \in 0..MaxCron, now \in 0..MaxNow
    PROVE  /\ NoTime \in FireTime /\ NextFire(cron) \in FireTime
           /\ cron # 0 => NextFire(cron) = <<cron, now + 1>> /\ NextFire(cron) # NoTime
BY ScheduleAssumption DEF ScheduleAssumption, FireTime, NextFire, Cron, NoTime

LEMMA MergedRow ==
    ASSUME NEW old \in Row, NEW p \in Patch, now \in 0..MaxNow
    PROVE  Merged(old, p) \in Row /\ Merged(old, p).last = old.last
<1> DEFINE mode == Field(p.mode, "keep", old.mode)
           manual == mode = "manual"
           cron == IF manual THEN 0 ELSE Field(p.cron, 0, old.cron)
           enabled == ~manual /\ Flag(p.enabled, old.enabled)
           active == Flag(p.active, old.active)
           next == IF enabled THEN NextFire(cron) ELSE NoTime
<1>1. mode \in {"manual", "schedule"} /\ cron \in 0..MaxCron
  BY ScheduleAssumption DEF ScheduleAssumption, Patch, Row, Field
<1>2. enabled \in BOOLEAN /\ active \in BOOLEAN
  BY DEF Patch, Row, Flag
<1>3. next \in FireTime
  BY <1>1, FireTimes
<1>4. Merged(old, p) = [old EXCEPT !.mode = mode, !.cron = cron, !.enabled = enabled,
                                   !.active = active, !.next = next]
  BY DEF Merged
<1> HIDE DEF mode, manual, cron, enabled, active, next
<1> QED
  BY <1>1, <1>2, <1>3, <1>4 DEF Row

LEMMA MergedIsSound ==
    ASSUME NEW old \in Row, NEW p \in Patch, now \in 0..MaxNow, Accepted(old, p)
    PROVE  Sound(Merged(old, p))
<1> DEFINE new == Merged(old, p)
<1>1. new \in Row
  BY MergedRow
<1>2. /\ new.mode = "manual" => ~new.enabled
      /\ new.enabled => new.next = NextFire(new.cron)
  BY DEF Merged, Row
<1>3. new.mode # "manual" => new.cron # 0 /\ (new.enabled => new.active)
  BY DEF Accepted
<1>4. new.cron # 0 => NextFire(new.cron) # NoTime
  BY <1>1, FireTimes DEF Row
<1>5. new.enabled \in BOOLEAN /\ new.active \in BOOLEAN /\ new.mode \in {"manual", "schedule"}
  BY <1>1 DEF Row
<1> HIDE DEF new
<1>6. (new.enabled => new.active) /\ (new.mode = "schedule" => new.cron # 0)
  BY <1>2, <1>3, <1>5
<1>7. new.enabled => new.next # NoTime
  BY <1>2, <1>3, <1>4
<1>8. Sound(new)
  BY <1>6, <1>7 DEF Sound
<1> QED
  BY <1>8 DEF new

(* A write of columns leaves a row, whose columns are each the old or the  *)
(* new one.                                                                *)
LEMMA WrittenRow ==
    ASSUME NEW current \in Row, NEW old \in Row, NEW new \in Row
    PROVE  LET w == Written(current, old, new) IN
           /\ w \in Row
           /\ w.mode = IF new.mode # old.mode THEN new.mode ELSE current.mode
           /\ w.cron = IF new.cron # old.cron THEN new.cron ELSE current.cron
           /\ w.enabled = IF new.enabled # old.enabled THEN new.enabled ELSE current.enabled
           /\ w.active = IF new.active # old.active THEN new.active ELSE current.active
           /\ w.next = IF new.next # old.next THEN new.next ELSE current.next
           /\ w.last = IF new.last # old.last THEN new.last ELSE current.last
<1> DEFINE w == Written(current, old, new)
<1>1. DOMAIN current = {"mode", "cron", "enabled", "active", "next", "last"}
  BY DEF Row
<1>2. w = [f \in {"mode", "cron", "enabled", "active", "next", "last"} |->
             IF new[f] # old[f] THEN new[f] ELSE current[f]]
  BY <1>1 DEF Written
<1>3. /\ w.mode = IF new.mode # old.mode THEN new.mode ELSE current.mode
      /\ w.cron = IF new.cron # old.cron THEN new.cron ELSE current.cron
      /\ w.enabled = IF new.enabled # old.enabled THEN new.enabled ELSE current.enabled
      /\ w.active = IF new.active # old.active THEN new.active ELSE current.active
      /\ w.next = IF new.next # old.next THEN new.next ELSE current.next
      /\ w.last = IF new.last # old.last THEN new.last ELSE current.last
  BY <1>2
<1>4. /\ w.mode \in {"manual", "schedule"} /\ w.cron \in 0..MaxCron
      /\ w.enabled \in BOOLEAN /\ w.active \in BOOLEAN
      /\ w.next \in FireTime /\ w.last \in 0..MaxNow
  <2>1. w.mode \in {"manual", "schedule"}
    BY <1>3 DEF Row
  <2>2. w.cron \in 0..MaxCron
    BY <1>3 DEF Row
  <2>3. w.enabled \in BOOLEAN
    BY <1>3 DEF Row
  <2>4. w.active \in BOOLEAN
    BY <1>3 DEF Row
  <2>5. w.next \in FireTime
    BY <1>3 DEF Row
  <2>6. w.last \in 0..MaxNow
    BY <1>3 DEF Row
  <2> QED
    BY <2>1, <2>2, <2>3, <2>4, <2>5, <2>6
<1>5. w = [mode |-> w.mode, cron |-> w.cron, enabled |-> w.enabled,
           active |-> w.active, next |-> w.next, last |-> w.last]
  BY <1>2
<1> HIDE DEF w
<1>6. w \in Row
  BY <1>4, <1>5 DEF Row
<1> USE DEF w
<1> QED
  BY <1>3, <1>6

(* What a request and a job run hold, by where they are.                   *)
LEMMA Held ==
    ASSUME Shapes
    PROVE  /\ \A a \in Admin :
                 /\ req[a].at \in {"idle", "write", "sync", "remove", "read", "add"}
                 /\ req[a].at = "idle" <=> req[a] = Idle
                 /\ req[a].at = "write" =>
                       req[a].rule \in Rule /\ req[a].old \in Row /\ req[a].new \in Row
                 /\ req[a].at = "remove" => req[a].todo \subseteq Rule
                 /\ req[a].at = "add" => req[a].plan \subseteq Rule \X (0..MaxCron)
           /\ \A r \in Rule :
                 /\ timer[r].at \in {"idle", "fired", "check", "create", "record", "write"}
                 /\ timer[r].at \in {"check", "create", "record"} =>
                       /\ timer[r].for \in 0..MaxNow
                       /\ timer[r].next \in FireTime
                 /\ timer[r].at = "write" =>
                       timer[r].old \in Row /\ timer[r].new \in Row
<1>1. ASSUME NEW a \in Admin
      PROVE  /\ req[a].at \in {"idle", "write", "sync", "remove", "read", "add"}
             /\ req[a].at = "idle" <=> req[a] = Idle
             /\ req[a].at = "write" =>
                   req[a].rule \in Rule /\ req[a].old \in Row /\ req[a].new \in Row
             /\ req[a].at = "remove" => req[a].todo \subseteq Rule
             /\ req[a].at = "add" => req[a].plan \subseteq Rule \X (0..MaxCron)
  BY DEF Shapes, Request, Idle, Sync
<1>2. ASSUME NEW r \in Rule
      PROVE  /\ timer[r].at \in {"idle", "fired", "check", "create", "record", "write"}
             /\ timer[r].at \in {"check", "create", "record"} =>
                   /\ timer[r].for \in 0..MaxNow
                   /\ timer[r].next \in FireTime
             /\ timer[r].at = "write" =>
                   timer[r].old \in Row /\ timer[r].new \in Row
  BY DEF Shapes, JobRun, Idle
<1> QED
  BY <1>1, <1>2

-----------------------------------------------------------------------------
(* The invariant for any number of administrators.                         *)

LEMMA InitHolds == Init => IInv
<1> SUFFICES ASSUME Init PROVE IInv
  OBVIOUS
<1>1. NewRow \in Row
  <2>1. MaxNow \in Nat /\ MaxCron \in Nat
    BY ScheduleAssumption DEF ScheduleAssumption
  <2>2. 0 \in 0..MaxCron /\ 0 \in 0..MaxNow /\ 0 \in 0..(MaxNow + 1)
    BY <2>1
  <2> QED
    BY <2>2 DEF NewRow, Row, FireTime
<1>2. Shapes
  <2>1. /\ row \in [Rule -> Row] /\ known \subseteq Rule
        /\ req \in [Admin -> Request] /\ timer \in [Rule -> JobRun]
        /\ schedLock \in Rule \cup {Nobody}
    BY <1>1 DEF Init, Request, JobRun
  <2>2. /\ jobs \in [Rule -> 0..MaxCron] /\ now \in 0..MaxNow /\ latest \in [Rule -> 0..MaxNow]
        /\ saves \in 0..MaxSave /\ crashes \in 0..MaxCrash
    BY ScheduleAssumption DEF ScheduleAssumption, Init
  <2> QED
    BY <2>1, <2>2 DEF Shapes
<1>3. UnknownIsNew /\ SavesKeepLast /\ JobsWriteLast
  BY DEF Init, UnknownIsNew, SavesKeepLast, JobsWriteLast, Idle
<1>4. LastRunIsLatestTask
  BY DEF Init, LastRunIsLatestTask, NewRow
<1> QED
  BY <1>2, <1>3, <1>4 DEF IInv

(* A step of a request that changes neither rows nor job runs.             *)
LEMMA RequestMoves ==
    ASSUME IInv, NEW a \in Admin, NEW to \in Request, req' = [req EXCEPT ![a] = to],
           jobs' \in [Rule -> 0..MaxCron], \A r \in Rule \ known : jobs'[r] = 0,
           to.at = "write" => to.rule \in known /\ to.new.last = to.old.last,
           to.at = "add" => \A e \in to.plan : e[1] \in known,
           saves' \in 0..MaxSave,
           UNCHANGED <<row, known, now, latest, timer, schedLock, crashes>>
    PROVE  IInv'
<1>1. \A b \in Admin : req'[b] = IF b = a THEN to ELSE req[b]
  BY DEF IInv, Shapes
<1>2. Shapes'
  BY DEF IInv, Shapes
<1>3. UnknownIsNew'
  BY <1>1 DEF IInv, UnknownIsNew
<1>4. SavesKeepLast'
  BY <1>1 DEF IInv, SavesKeepLast
<1>5. JobsWriteLast' /\ LastRunIsLatestTask'
  BY DEF IInv, JobsWriteLast, LastRunIsLatestTask
<1> QED
  BY <1>2, <1>3, <1>4, <1>5 DEF IInv

(* update_rule's first half, and the steps of sync_jobs.                   *)
LEMMA RequestSteps ==
    ASSUME IInv, NEW a \in Admin,
           (\E r \in Rule, p \in Patch : UpdateRule(a, r, p)) \/ SyncJobs(a)
    PROVE  IInv'
<1>1. ASSUME NEW r \in Rule, NEW p \in Patch, UpdateRule(a, r, p)
      PROVE  IInv'
  <2> DEFINE to == [at |-> "write", rule |-> r, old |-> row[r], new |-> Merged(row[r], p)]
  <2>1. /\ row[r] \in Row /\ now \in 0..MaxNow /\ saves \in 0..MaxSave
        /\ jobs \in [Rule -> 0..MaxCron]
    BY DEF IInv, Shapes
  <2>2. Merged(row[r], p) \in Row /\ Merged(row[r], p).last = row[r].last
    BY <2>1, MergedRow
  <2>3. to \in Request
    BY <2>1, <2>2 DEF Request
  <2>4. /\ to.at = "write" /\ to.rule = r /\ to.new.last = to.old.last
        /\ r \in known
    BY <1>1, <2>2 DEF UpdateRule
  <2>5. /\ req' = [req EXCEPT ![a] = to] /\ saves' \in 0..MaxSave
        /\ UNCHANGED <<row, known, jobs, now, latest, timer, schedLock, crashes>>
    BY <1>1, <2>1, ScheduleAssumption DEF ScheduleAssumption, UpdateRule
  <2>6. \A q \in Rule \ known : jobs'[q] = 0
    BY <2>5 DEF IInv, UnknownIsNew
  <2> HIDE DEF to
  <2> QED
    BY <2>1, <2>3, <2>4, <2>5, <2>6, RequestMoves
<1>2. CASE SyncBegin(a)
  <2> DEFINE to == [at |-> "remove", todo |-> Registered]
  <2>1. to \in Request /\ to.at = "remove"
    BY DEF Request, Registered
  <2>2. /\ req' = [req EXCEPT ![a] = to]
        /\ UNCHANGED <<row, known, jobs, now, latest, timer, schedLock, saves, crashes>>
    BY <1>2 DEF SyncBegin
  <2>3. /\ jobs' \in [Rule -> 0..MaxCron] /\ saves' \in 0..MaxSave
        /\ \A q \in Rule \ known : jobs'[q] = 0
    BY <2>2 DEF IInv, Shapes, UnknownIsNew
  <2> HIDE DEF to
  <2> QED
    BY <2>1, <2>2, <2>3, RequestMoves
<1>3. ASSUME NEW r \in Rule, RemoveJob(a, r)
      PROVE  IInv'
  <2>1. CASE jobs[r] = 0
    <3>1. /\ req' = [req EXCEPT ![a] = Idle]
          /\ UNCHANGED <<row, known, jobs, now, latest, timer, schedLock, saves, crashes>>
      BY <1>3, <2>1 DEF RemoveJob
    <3>2. /\ jobs' \in [Rule -> 0..MaxCron] /\ saves' \in 0..MaxSave
          /\ \A q \in Rule \ known : jobs'[q] = 0
      BY <3>1 DEF IInv, Shapes, UnknownIsNew
    <3>3. Idle \in Request /\ Idle.at = "idle"
      BY DEF Request, Idle
    <3> QED
      BY <3>1, <3>2, <3>3, RequestMoves
  <2>2. CASE jobs[r] # 0
    <3> DEFINE to == [req[a] EXCEPT !.todo = @ \ {r}]
    <3>1. /\ req' = [req EXCEPT ![a] = to] /\ jobs' = [jobs EXCEPT ![r] = 0]
          /\ UNCHANGED <<row, known, now, latest, timer, schedLock, saves, crashes>>
      BY <1>3, <2>2 DEF RemoveJob
    <3>2. /\ jobs' \in [Rule -> 0..MaxCron] /\ saves' \in 0..MaxSave
          /\ \A q \in Rule \ known : jobs'[q] = 0
      <4>1. jobs \in [Rule -> 0..MaxCron] /\ saves \in 0..MaxSave /\ 0 \in 0..MaxCron
        BY ScheduleAssumption DEF ScheduleAssumption, IInv, Shapes
      <4> QED
        BY <3>1, <4>1 DEF IInv, UnknownIsNew
    <3>3. to \in Request /\ to.at = "remove"
      <4>1. req[a] \in Request /\ req[a].at = "remove"
        BY <1>3 DEF RemoveJob, IInv, Shapes
      <4>2. req[a] \in [at : {"remove"}, todo : SUBSET Rule]
        BY <4>1 DEF Request, Idle, Sync
      <4>3. to \in [at : {"remove"}, todo : SUBSET Rule]
        BY <4>2
      <4> QED
        BY <4>3 DEF Request
    <3> HIDE DEF to
    <3> QED
      BY <3>1, <3>2, <3>3, RequestMoves
  <2> QED
    BY <2>1, <2>2
<1>4. CASE ReadRules(a)
  <2> DEFINE to == [at |-> "add", plan |-> {<<r, row[r].cron>> : r \in Planned}]
  <2>1. \A r \in Rule : row[r].cron \in 0..MaxCron
    BY DEF IInv, Shapes, Row
  <2>2. to \in Request /\ to.at = "add"
    BY <2>1 DEF Request, Planned
  <2>3. \A e \in to.plan : e[1] \in known
    BY DEF Planned, Eligible
  <2>4. /\ req' = [req EXCEPT ![a] = to]
        /\ UNCHANGED <<row, known, jobs, now, latest, timer, schedLock, saves, crashes>>
    BY <1>4 DEF ReadRules
  <2>5. /\ jobs' \in [Rule -> 0..MaxCron] /\ saves' \in 0..MaxSave
        /\ \A q \in Rule \ known : jobs'[q] = 0
    BY <2>4 DEF IInv, Shapes, UnknownIsNew
  <2> HIDE DEF to
  <2> QED
    BY <2>2, <2>3, <2>4, <2>5, RequestMoves
<1>5. ASSUME NEW r \in Rule, NEW c \in Cron, AddJob(a, r, c)
      PROVE  IInv'
  <2> DEFINE to == [req[a] EXCEPT !.plan = @ \ {<<r, c>>}]
  <2>1. /\ req[a].at = "add" /\ <<r, c>> \in req[a].plan
        /\ req' = [req EXCEPT ![a] = to] /\ jobs' = [jobs EXCEPT ![r] = c]
        /\ UNCHANGED <<row, known, now, latest, timer, schedLock, saves, crashes>>
    BY <1>5 DEF AddJob
  <2>2. req[a] \in [at : {"add"}, plan : SUBSET (Rule \X (0..MaxCron))]
    <3>1. req[a] \in Request
      BY DEF IInv, Shapes
    <3> QED
      BY <2>1, <3>1 DEF Request, Idle, Sync
  <2>3. to \in [at : {"add"}, plan : SUBSET (Rule \X (0..MaxCron))] /\ to.plan \subseteq req[a].plan
    BY <2>2
  <2>4. to \in Request /\ to.at = "add"
    BY <2>3 DEF Request
  <2>5. \A e \in req[a].plan : e[1] \in known
    BY <2>1 DEF IInv, UnknownIsNew
  <2>6. r \in known /\ \A e \in to.plan : e[1] \in known
    <3>1. <<r, c>>[1] \in known
      BY <2>1, <2>5
    <3> QED
      BY <2>3, <2>5, <3>1
  <2>7. /\ jobs' \in [Rule -> 0..MaxCron] /\ saves' \in 0..MaxSave
        /\ \A q \in Rule \ known : jobs'[q] = 0
    <3>1. jobs \in [Rule -> 0..MaxCron] /\ saves \in 0..MaxSave /\ c \in 0..MaxCron
      BY ScheduleAssumption DEF ScheduleAssumption, IInv, Shapes, Cron
    <3> QED
      BY <2>1, <2>6, <3>1 DEF IInv, UnknownIsNew
  <2> HIDE DEF to
  <2> QED
    BY <2>1, <2>4, <2>6, <2>7, RequestMoves
<1>6. CASE SyncEnd(a)
  <2>1. /\ req' = [req EXCEPT ![a] = Idle]
        /\ UNCHANGED <<row, known, jobs, now, latest, timer, schedLock, saves, crashes>>
    BY <1>6 DEF SyncEnd
  <2>2. /\ jobs' \in [Rule -> 0..MaxCron] /\ saves' \in 0..MaxSave
        /\ \A q \in Rule \ known : jobs'[q] = 0
    BY <2>1 DEF IInv, Shapes, UnknownIsNew
  <2>3. Idle \in Request /\ Idle.at = "idle"
    BY DEF Request, Idle
  <2> QED
    BY <2>1, <2>2, <2>3, RequestMoves
<1> QED
  BY <1>1, <1>2, <1>3, <1>4, <1>5, <1>6 DEF SyncJobs

(* create_rule, and the second half of update_rule.                        *)
LEMMA RowSaved ==
    ASSUME IInv, NEW a \in Admin, NEW r \in Rule, NEW x \in Row, x.last = row[r].last,
           row' = [row EXCEPT ![r] = x], known' = known \cup {r},
           req' = [req EXCEPT ![a] = Sync], saves' \in 0..MaxSave,
           UNCHANGED <<jobs, now, latest, timer, schedLock, crashes>>
    PROVE  IInv'
<1>1. /\ \A b \in Admin : req'[b] = IF b = a THEN Sync ELSE req[b]
      /\ \A q \in Rule : row'[q] = IF q = r THEN x ELSE row[q]
      /\ \A q \in Rule : row'[q].last = row[q].last
  BY DEF IInv, Shapes
<1>2. Shapes'
  BY DEF IInv, Shapes, Request
<1>3. UnknownIsNew'
  BY <1>1 DEF IInv, UnknownIsNew, Sync
<1>4. SavesKeepLast'
  BY <1>1 DEF IInv, SavesKeepLast, Sync
<1>5. JobsWriteLast' /\ LastRunIsLatestTask'
  BY <1>1 DEF IInv, JobsWriteLast, LastRunIsLatestTask
<1> QED
  BY <1>2, <1>3, <1>4, <1>5 DEF IInv

LEMMA CreateRuleStep ==
    ASSUME IInv, NEW a \in Admin, NEW r \in Rule, NEW p \in Patch, CreateRule(a, r, p)
    PROVE  IInv'
<1>1. row[r] = NewRow /\ row[r] \in Row /\ now \in 0..MaxNow /\ saves \in 0..MaxSave
  BY DEF CreateRule, IInv, UnknownIsNew, Shapes
<1>2. Merged(NewRow, p) \in Row /\ Merged(NewRow, p).last = row[r].last
  BY <1>1, MergedRow
<1>3. /\ row' = [row EXCEPT ![r] = Merged(NewRow, p)] /\ known' = known \cup {r}
      /\ req' = [req EXCEPT ![a] = Sync] /\ saves' \in 0..MaxSave
      /\ UNCHANGED <<jobs, now, latest, timer, schedLock, crashes>>
  BY <1>1, ScheduleAssumption DEF ScheduleAssumption, CreateRule
<1> QED
  BY <1>2, <1>3, RowSaved

LEMMA WriteRuleStep ==
    ASSUME IInv, NEW a \in Admin, WriteRule(a)
    PROVE  IInv'
<1> DEFINE r == req[a].rule
           x == Written(row[r], req[a].old, req[a].new)
<1>1. /\ req[a].at = "write" /\ r \in known /\ r \in Rule
      /\ req[a].old \in Row /\ req[a].new \in Row /\ row[r] \in Row
      /\ req[a].new.last = req[a].old.last
  <2>1. req[a].at = "write"
    BY DEF WriteRule
  <2>2. r \in Rule /\ req[a].old \in Row /\ req[a].new \in Row
    BY <2>1, Held DEF IInv
  <2> QED
    BY <2>1, <2>2 DEF IInv, UnknownIsNew, SavesKeepLast, Shapes
<1>2. x \in Row /\ x.last = row[r].last
  BY <1>1, WrittenRow
<1>3. /\ row' = [row EXCEPT ![r] = x] /\ known' = known \cup {r}
      /\ req' = [req EXCEPT ![a] = Sync] /\ saves' \in 0..MaxSave
      /\ UNCHANGED <<jobs, now, latest, timer, schedLock, crashes>>
  BY <1>1 DEF WriteRule, IInv, Shapes
<1> HIDE DEF r, x
<1> QED
  BY <1>1, <1>2, <1>3, RowSaved

(* A step of a job run that changes neither rows nor tasks.                *)
LEMMA TimerMoves ==
    ASSUME IInv, timer' \in [Rule -> JobRun],
           \A r \in Rule :
               \/ timer'[r] = timer[r]
               \/ /\ timer'[r] = Idle \/ jobs[r] # 0 \/ timer[r] # Idle
                  /\ timer'[r].at \notin {"record", "write"}
                  /\ timer[r].at \notin {"record", "write"},
           now' \in 0..MaxNow, schedLock' \in Rule \cup {Nobody},
           UNCHANGED <<row, known, jobs, latest, req, saves, crashes>>
    PROVE  IInv'
<1>1. Shapes'
  BY DEF IInv, Shapes
<1>2. UnknownIsNew'
  BY DEF IInv, UnknownIsNew
<1>3. SavesKeepLast'
  BY DEF IInv, SavesKeepLast
<1>4. ASSUME NEW r \in Rule
      PROVE  /\ timer'[r].at = "record" => timer'[r].for = latest'[r]
             /\ timer'[r].at = "write" =>
                   timer'[r].new.last = latest'[r] /\ timer'[r].old.last = row'[r].last
             /\ crashes' = 0 /\ timer'[r].at \notin {"record", "write"} => row'[r].last = latest'[r]
  BY DEF IInv, JobsWriteLast, LastRunIsLatestTask
<1> QED
  BY <1>1, <1>2, <1>3, <1>4 DEF IInv, JobsWriteLast, LastRunIsLatestTask

(* A firing instant, and enqueue_rule up to its look under the lock.       *)
LEMMA TimerSteps ==
    ASSUME IInv, Tick \/ \E r \in Rule : Enqueue(r) \/ CheckDue(r)
    PROVE  IInv'
<1>1. /\ timer \in [Rule -> JobRun] /\ now \in 0..MaxNow /\ row \in [Rule -> Row]
      /\ schedLock \in Rule \cup {Nobody}
  BY DEF IInv, Shapes
<1>2. CASE Tick
  <2>1. /\ timer' = [r \in Rule |-> IF r \in Registered /\ timer[r] = Idle
                                    THEN [at |-> "fired"] ELSE timer[r]]
        /\ UNCHANGED <<row, known, jobs, latest, req, schedLock, saves, crashes>>
    BY <1>2 DEF Tick
  <2>2. now' \in 0..MaxNow
    BY <1>1, <1>2, ScheduleAssumption DEF ScheduleAssumption, Tick
  <2>3. timer' \in [Rule -> JobRun]
    BY <1>1, <2>1 DEF JobRun
  <2>4. \A r \in Rule :
            \/ timer'[r] = timer[r]
            \/ jobs[r] # 0 /\ timer'[r].at = "fired" /\ timer[r].at = "idle"
    BY <2>1 DEF Registered, Idle
  <2> QED
    BY <1>1, <2>1, <2>2, <2>3, <2>4, TimerMoves
<1>3. ASSUME NEW r \in Rule, Enqueue(r)
      PROVE  IInv'
  <2> DEFINE to == IF Eligible(r)
                   THEN [at |-> "check", for |-> now, next |-> NextFire(row[r].cron)] ELSE Idle
  <2>1. /\ timer[r].at = "fired" /\ timer' = [timer EXCEPT ![r] = to]
        /\ UNCHANGED <<row, known, jobs, now, latest, req, schedLock, saves, crashes>>
    BY <1>3 DEF Enqueue
  <2>2. NextFire(row[r].cron) \in FireTime
    BY <1>1, FireTimes DEF Row
  <2>3. to \in JobRun /\ to.at \in {"check", "idle"}
    BY <1>1, <2>2 DEF JobRun, Idle
  <2>4. timer[r] # Idle
    BY <2>1 DEF Idle
  <2> HIDE DEF to
  <2>5. /\ timer' \in [Rule -> JobRun]
        /\ \A q \in Rule : q # r => timer'[q] = timer[q]
        /\ timer'[r] = to
    BY <1>1, <2>1, <2>3
  <2> QED
    BY <1>1, <2>1, <2>3, <2>4, <2>5, TimerMoves
<1>4. ASSUME NEW r \in Rule, CheckDue(r)
      PROVE  IInv'
  <2> DEFINE to == IF StillDue(r) THEN [timer[r] EXCEPT !.at = "create"] ELSE Idle
  <2>1. /\ timer[r].at = "check" /\ timer' = [timer EXCEPT ![r] = to]
        /\ schedLock' \in Rule \cup {Nobody}
        /\ UNCHANGED <<row, known, jobs, now, latest, req, saves, crashes>>
    BY <1>1, <1>4 DEF CheckDue
  <2>2. to \in JobRun /\ to.at \in {"create", "idle"}
    <3>1. timer[r] \in JobRun
      BY <1>1
    <3>2. timer[r] \in [at : {"check", "create", "record"}, for : 0..MaxNow,
                        next : FireTime]
      BY <2>1, <3>1 DEF JobRun, Idle
    <3>3. [timer[r] EXCEPT !.at = "create"]
            \in [at : {"check", "create", "record"}, for : 0..MaxNow,
                 next : FireTime]
      BY <3>2
    <3>4. [timer[r] EXCEPT !.at = "create"].at = "create"
      BY <3>2
    <3> QED
      BY <3>3, <3>4 DEF JobRun, Idle
  <2>3. timer[r] # Idle
    BY <2>1 DEF Idle
  <2> HIDE DEF to
  <2>4. /\ timer' \in [Rule -> JobRun]
        /\ \A q \in Rule : q # r => timer'[q] = timer[q]
        /\ timer'[r] = to
    BY <1>1, <2>1, <2>2
  <2> QED
    BY <1>1, <2>1, <2>2, <2>3, <2>4, TimerMoves
<1> QED
  BY <1>2, <1>3, <1>4

LEMMA CreateScheduledTaskStep ==
    ASSUME IInv, NEW r \in Rule, CreateScheduledTask(r)
    PROVE  IInv'
<1> DEFINE to == [timer[r] EXCEPT !.at = "record"]
<1>1. /\ timer[r].at = "create" /\ latest' = [latest EXCEPT ![r] = timer[r].for]
      /\ timer' = [timer EXCEPT ![r] = to]
      /\ UNCHANGED <<row, known, jobs, now, req, schedLock, saves, crashes>>
  BY DEF CreateScheduledTask
<1>2. timer[r] \in [at : {"check", "create", "record"}, for : 0..MaxNow,
                    next : FireTime]
  <2>1. timer[r] \in JobRun
    BY DEF IInv, Shapes
  <2> QED
    BY <1>1, <2>1 DEF JobRun, Idle
<1>3. /\ to \in [at : {"check", "create", "record"}, for : 0..MaxNow,
                 next : FireTime]
      /\ to.at = "record" /\ to.for = timer[r].for
  BY <1>2
<1>4. to \in JobRun /\ timer[r].for \in 0..MaxNow
  BY <1>2, <1>3 DEF JobRun
<1>5. r \in known
  BY <1>1 DEF IInv, UnknownIsNew, Idle
<1> HIDE DEF to
<1>6. \A q \in Rule : /\ timer'[q] = IF q = r THEN to ELSE timer[q]
                      /\ latest'[q] = IF q = r THEN timer[r].for ELSE latest[q]
  BY <1>1 DEF IInv, Shapes
<1>7. Shapes'
  BY <1>1, <1>4 DEF IInv, Shapes
<1>8. UnknownIsNew' /\ SavesKeepLast'
  BY <1>1, <1>5, <1>6 DEF IInv, UnknownIsNew, SavesKeepLast
<1>9. JobsWriteLast' /\ LastRunIsLatestTask'
  BY <1>1, <1>3, <1>6 DEF IInv, JobsWriteLast, LastRunIsLatestTask
<1> QED
  BY <1>7, <1>8, <1>9 DEF IInv

LEMMA SelectRunStep ==
    ASSUME IInv, NEW r \in Rule, SelectRun(r)
    PROVE  IInv'
<1> DEFINE new == [row[r] EXCEPT !.last = timer[r].for, !.next = timer[r].next]
           to == [at |-> "write", old |-> row[r], new |-> new]
<1>1. /\ timer[r].at = "record" /\ timer' = [timer EXCEPT ![r] = to]
      /\ UNCHANGED <<row, known, jobs, now, latest, req, schedLock, saves, crashes>>
  BY DEF SelectRun
<1>2. /\ timer[r].for = latest[r] /\ row[r] \in Row /\ timer[r].for \in 0..MaxNow
      /\ timer[r].next \in FireTime
  BY <1>1, Held DEF IInv, JobsWriteLast, Shapes
<1>3. new \in Row /\ new.last = latest[r]
  BY <1>2 DEF Row
<1> HIDE DEF new
<1>4. to \in JobRun /\ to.at = "write" /\ to.old = row[r] /\ to.new = new
  BY <1>2, <1>3 DEF JobRun
<1>5. r \in known
  BY <1>1 DEF IInv, UnknownIsNew, Idle
<1> HIDE DEF to
<1>6. \A q \in Rule : timer'[q] = IF q = r THEN to ELSE timer[q]
  BY <1>1 DEF IInv, Shapes
<1>7. Shapes'
  BY <1>1, <1>4 DEF IInv, Shapes
<1>8. UnknownIsNew' /\ SavesKeepLast'
  BY <1>1, <1>5, <1>6 DEF IInv, UnknownIsNew, SavesKeepLast
<1>9. JobsWriteLast' /\ LastRunIsLatestTask'
  BY <1>1, <1>3, <1>4, <1>6 DEF IInv, JobsWriteLast, LastRunIsLatestTask
<1> QED
  BY <1>7, <1>8, <1>9 DEF IInv

LEMMA RecordRunStep ==
    ASSUME IInv, NEW r \in Rule, RecordRun(r)
    PROVE  IInv'
<1> DEFINE x == Written(row[r], timer[r].old, timer[r].new)
<1>1. /\ timer[r].at = "write" /\ row' = [row EXCEPT ![r] = x]
      /\ timer' = [timer EXCEPT ![r] = Idle] /\ schedLock' = Nobody
      /\ UNCHANGED <<known, jobs, now, latest, req, saves, crashes>>
  BY DEF RecordRun
<1>2. /\ row[r] \in Row /\ timer[r].old \in Row /\ timer[r].new \in Row
      /\ timer[r].new.last = latest[r] /\ timer[r].old.last = row[r].last
  BY <1>1, Held DEF IInv, JobsWriteLast, Shapes
<1>3. x \in Row /\ x.last = latest[r]
  BY <1>2, WrittenRow
<1>4. r \in known
  BY <1>1 DEF IInv, UnknownIsNew, Idle
<1> HIDE DEF x
<1>5. \A q \in Rule : /\ timer'[q] = IF q = r THEN Idle ELSE timer[q]
                      /\ row'[q] = IF q = r THEN x ELSE row[q]
  BY <1>1 DEF IInv, Shapes
<1>6. Shapes'
  BY <1>1, <1>3 DEF IInv, Shapes, JobRun
<1>7. UnknownIsNew' /\ SavesKeepLast'
  BY <1>1, <1>4, <1>5 DEF IInv, UnknownIsNew, SavesKeepLast
<1>8. JobsWriteLast' /\ LastRunIsLatestTask'
  BY <1>1, <1>3, <1>5 DEF IInv, JobsWriteLast, LastRunIsLatestTask, Idle
<1> QED
  BY <1>6, <1>7, <1>8 DEF IInv

LEMMA RestartStep == IInv /\ Restart => IInv'
<1> SUFFICES ASSUME IInv, Restart PROVE IInv'
  OBVIOUS
<1>1. /\ jobs' = [r \in Rule |-> IF Eligible(r) THEN row[r].cron ELSE 0]
      /\ req' = [a \in Admin |-> Idle] /\ timer' = [r \in Rule |-> Idle] /\ schedLock' = Nobody
      /\ UNCHANGED <<row, known, now, latest, saves>>
  BY DEF Restart
<1>2. crashes' \in 0..MaxCrash /\ crashes' # 0
  BY ScheduleAssumption DEF ScheduleAssumption, Restart, IInv, Shapes
<1>3. jobs' \in [Rule -> 0..MaxCron]
  <2>1. \A r \in Rule : row[r].cron \in 0..MaxCron /\ 0 \in 0..MaxCron
    BY ScheduleAssumption DEF ScheduleAssumption, IInv, Shapes, Row
  <2> QED
    BY <1>1, <2>1
<1>4. Shapes'
  BY <1>1, <1>2, <1>3 DEF IInv, Shapes, Request, JobRun
<1>5. UnknownIsNew' /\ SavesKeepLast' /\ JobsWriteLast'
  BY <1>1 DEF IInv, UnknownIsNew, SavesKeepLast, JobsWriteLast, Idle, Eligible
<1>6. LastRunIsLatestTask'
  BY <1>2 DEF LastRunIsLatestTask
<1> QED
  BY <1>4, <1>5, <1>6 DEF IInv

LEMMA StepHolds == IInv /\ [Next]_vars => IInv'
<1> SUFFICES ASSUME IInv, [Next]_vars PROVE IInv'
  OBVIOUS
<1>1. CASE UNCHANGED vars
  BY <1>1 DEF vars, IInv, Shapes, UnknownIsNew, SavesKeepLast, JobsWriteLast, LastRunIsLatestTask
<1>2. CASE \E r \in Rule : RunJob(r)
  BY <1>2, TimerSteps, CreateScheduledTaskStep, SelectRunStep, RecordRunStep DEF RunJob
<1>3. CASE \E a \in Admin, r \in Rule, p \in Patch : CreateRule(a, r, p) \/ UpdateRule(a, r, p)
  BY <1>3, CreateRuleStep, RequestSteps
<1>4. CASE \E a \in Admin : WriteRule(a) \/ SyncJobs(a)
  BY <1>4, WriteRuleStep, RequestSteps
<1> QED
  BY <1>1, <1>2, <1>3, <1>4, TimerSteps, RestartStep DEF Next

LEMMA Invariance == Spec => []IInv
BY InitHolds, StepHolds, PTL DEF Spec

(* last_run_at is the time of the latest scheduled task, however many      *)
(* administrators save the rule at the same time, unless the process dies  *)
(* between the job's two transactions (create_scheduled_task_once,         *)
(* update_rule).                                                           *)
THEOREM LastRunsAreKept == Spec => []LastRunIsLatestTask
<1>1. IInv => LastRunIsLatestTask
  BY DEF IInv
<1> QED
  BY <1>1, Invariance, PTL

(* Type correctness. Saves that overlap may mix their columns, yet a run   *)
(* that is announced always belongs to a cron expression: a job of a rule  *)
(* they left without one writes no next run (update_rule, _next_fire).     *)
THEOREM TypesHold == Spec => []TypeOK
<1>1. IInv => TypeOK
  <2> SUFFICES ASSUME IInv PROVE TypeOK
    OBVIOUS
  <2>1. /\ \A a \in Admin : req[a].at \in {"idle", "write", "sync", "remove", "read", "add"}
        /\ \A r \in Rule :
              timer[r].at \in {"idle", "fired", "check", "create", "record", "write"}
    BY Held DEF IInv
  <2> QED
    BY <2>1 DEF TypeOK, IInv, Shapes
<1> QED
  BY <1>1, Invariance, PTL

-----------------------------------------------------------------------------
(* One save at a time: the rows stay sound and the scheduler follows them. *)

(* What a save writes over a row that has kept its trigger.                *)
LEMMA SavedIsSound ==
    ASSUME NEW current \in Row, NEW old \in Row, NEW new \in Row,
           SameTrigger(old, current), Sound(new), old.next # NoTime => current.next # NoTime
    PROVE  Sound(Written(current, old, new))
<1> DEFINE w == Written(current, old, new)
<1>1. w \in Row
  BY WrittenRow
<1>2. /\ w.mode = new.mode /\ w.cron = new.cron
      /\ w.enabled = new.enabled /\ w.active = new.active
      /\ w.next = IF new.next # old.next THEN new.next ELSE current.next
  BY WrittenRow DEF SameTrigger
<1>3. new.next # NoTime => w.next # NoTime
  BY <1>2
<1> HIDE DEF w
<1>4. Sound(w)
  BY <1>2, <1>3 DEF Sound
<1> QED
  BY <1>4 DEF w

(* What a job run writes over a row.                                       *)
LEMMA RunKeepsTrigger ==
    ASSUME NEW current \in Row, NEW old \in Row, NEW new \in Row,
           SameTrigger(old, new), new.next # NoTime, Sound(current)
    PROVE  LET w == Written(current, old, new) IN
           /\ SameTrigger(current, w)
           /\ Sound(w)
           /\ current.next # NoTime => w.next # NoTime
<1> DEFINE w == Written(current, old, new)
<1>1. /\ w.mode = current.mode /\ w.cron = current.cron
      /\ w.enabled = current.enabled /\ w.active = current.active
      /\ w.next = IF new.next # old.next THEN new.next ELSE current.next
  BY WrittenRow DEF SameTrigger
<1>2. current.next # NoTime => w.next # NoTime
  BY <1>1
<1> HIDE DEF w
<1>3. Sound(w)
  BY <1>1, <1>2 DEF Sound
<1>4. SameTrigger(current, w)
  BY <1>1 DEF SameTrigger
<1> USE DEF w
<1> QED
  BY <1>2, <1>3, <1>4

LEMMA OneInit == Init => OneInv
<1> SUFFICES ASSUME Init PROVE OneInv
  OBVIOUS
<1>1. RowsAreSound
  BY DEF Init, RowsAreSound, Sound, NewRow
<1>2. SavesAreCurrent /\ JobsAnnounce /\ SyncIsAlone
  BY DEF Init, SavesAreCurrent, JobsAnnounce, SyncIsAlone, Idle
<1>3. JobsMatchRules
  BY DEF Init, JobsMatchRules, Eligible
<1> QED
  BY <1>1, <1>2, <1>3, InitHolds DEF OneInv

(* While the one administrator's request goes on, nobody is quiet, and     *)
(* every request is this one.                                              *)
LEMMA Alone ==
    ASSUME OneAdmin, OneInv, NEW a \in Admin, NEW to, to # Idle,
           req' = [req EXCEPT ![a] = to]
    PROVE  ~Quiet' /\ \A b \in Admin : req'[b] = to
<1>1. req'[a] = to
  BY DEF OneInv, IInv, Shapes
<1>2. \A b \in Admin : b = a
  BY DEF OneAdmin
<1> QED
  BY <1>1, <1>2 DEF Quiet

(* create_rule and update_rule.                                            *)
LEMMA OneSaveSteps ==
    ASSUME OneAdmin, OneInv, NEW a \in Admin,
           \/ \E r \in Rule, p \in Patch : CreateRule(a, r, p) \/ UpdateRule(a, r, p)
           \/ WriteRule(a)
    PROVE  RowsAreSound' /\ SavesAreCurrent' /\ JobsAnnounce' /\ SyncIsAlone' /\ JobsMatchRules'
<1>1. row \in [Rule -> Row] /\ now \in 0..MaxNow
  BY DEF OneInv, IInv, Shapes
<1>2. ASSUME NEW r \in Rule, NEW x, Sound(x), row' = [row EXCEPT ![r] = x],
             req' = [req EXCEPT ![a] = Sync], timer' = timer
      PROVE  RowsAreSound' /\ SavesAreCurrent' /\ JobsAnnounce' /\ SyncIsAlone' /\ JobsMatchRules'
  <2>1. ~Quiet' /\ \A b \in Admin : req'[b] = Sync
    <3>1. Sync # Idle
      BY DEF Sync, Idle
    <3> QED
      BY <1>2, <3>1, Alone
  <2>2. RowsAreSound'
    BY <1>1, <1>2 DEF OneInv, RowsAreSound
  <2>3. SavesAreCurrent' /\ SyncIsAlone' /\ JobsMatchRules'
    BY <2>1 DEF SavesAreCurrent, SyncIsAlone, JobsMatchRules, Sync
  <2>4. JobsAnnounce'
    BY <1>2 DEF OneInv, JobsAnnounce
  <2> QED
    BY <2>2, <2>3, <2>4
<1>3. ASSUME NEW r \in Rule, NEW p \in Patch, CreateRule(a, r, p)
      PROVE  RowsAreSound' /\ SavesAreCurrent' /\ JobsAnnounce' /\ SyncIsAlone' /\ JobsMatchRules'
  <2>1. row[r] = NewRow /\ NewRow \in Row /\ Accepted(NewRow, p)
    BY <1>1, <1>3 DEF CreateRule, OneInv, IInv, UnknownIsNew
  <2>2. Sound(Merged(NewRow, p))
    BY <1>1, <2>1, MergedIsSound
  <2>3. /\ row' = [row EXCEPT ![r] = Merged(NewRow, p)] /\ req' = [req EXCEPT ![a] = Sync]
        /\ timer' = timer
    BY <1>3 DEF CreateRule
  <2> QED
    BY <1>2, <2>2, <2>3
<1>4. ASSUME NEW r \in Rule, NEW p \in Patch, UpdateRule(a, r, p)
      PROVE  RowsAreSound' /\ SavesAreCurrent' /\ JobsAnnounce' /\ SyncIsAlone' /\ JobsMatchRules'
  <2> DEFINE to == [at |-> "write", rule |-> r, old |-> row[r], new |-> Merged(row[r], p)]
  <2>1. /\ row[r] \in Row /\ Accepted(row[r], p)
        /\ req' = [req EXCEPT ![a] = to] /\ row' = row /\ timer' = timer
    BY <1>1, <1>4 DEF UpdateRule
  <2>2. Sound(Merged(row[r], p))
    BY <1>1, <2>1, MergedIsSound
  <2>3. /\ to # Idle /\ to.at = "write" /\ to.rule = r /\ to.old = row[r]
        /\ to.new = Merged(row[r], p)
    BY DEF Idle
  <2> HIDE DEF to
  <2>4. ~Quiet' /\ \A b \in Admin : req'[b] = to
    BY <2>1, <2>3, Alone
  <2>5. SavesAreCurrent'
    BY <2>1, <2>2, <2>3, <2>4 DEF SavesAreCurrent, SameTrigger
  <2>6. SyncIsAlone' /\ JobsMatchRules'
    BY <2>3, <2>4 DEF SyncIsAlone, JobsMatchRules
  <2>7. RowsAreSound' /\ JobsAnnounce'
    BY <2>1 DEF OneInv, RowsAreSound, JobsAnnounce
  <2> QED
    BY <2>5, <2>6, <2>7
<1>5. CASE WriteRule(a)
  <2> DEFINE r == req[a].rule
             x == Written(row[r], req[a].old, req[a].new)
  <2>1. /\ req[a].at = "write" /\ r \in Rule
        /\ req[a].old \in Row /\ req[a].new \in Row
    <3>1. req[a].at = "write"
      BY <1>5 DEF WriteRule
    <3> QED
      BY <3>1, Held DEF OneInv, IInv
  <2>2. /\ SameTrigger(req[a].old, row[r]) /\ Sound(req[a].new)
        /\ req[a].old.next # NoTime => row[r].next # NoTime
    BY <2>1 DEF OneInv, SavesAreCurrent
  <2>3. Sound(x)
    BY <1>1, <2>1, <2>2, SavedIsSound
  <2>4. row' = [row EXCEPT ![r] = x] /\ req' = [req EXCEPT ![a] = Sync] /\ timer' = timer
    BY <1>5, <1>1, <2>1 DEF WriteRule
  <2> HIDE DEF r, x
  <2> QED
    BY <1>2, <2>1, <2>3, <2>4
<1> QED
  BY <1>3, <1>4, <1>5

(* sync_jobs: nobody else changes the rows' triggers or the jobs while the *)
(* one administrator's request runs it.                                    *)
LEMMA OneSyncSteps ==
    ASSUME OneAdmin, OneInv, NEW a \in Admin, SyncJobs(a)
    PROVE  RowsAreSound' /\ SavesAreCurrent' /\ JobsAnnounce' /\ SyncIsAlone' /\ JobsMatchRules'
<1>1. row' = row /\ known' = known /\ timer' = timer
  BY DEF SyncJobs, SyncBegin, RemoveJob, ReadRules, AddJob, SyncEnd
<1>2. RowsAreSound' /\ JobsAnnounce'
  BY <1>1 DEF OneInv, RowsAreSound, JobsAnnounce
<1>3. \A r \in Rule : Eligible(r)' <=> Eligible(r)
  BY <1>1 DEF Eligible
<1>4. jobs \in [Rule -> 0..MaxCron] /\ req \in [Admin -> Request]
  BY DEF OneInv, IInv, Shapes
<1>5. ASSUME NEW to, to.at = "remove" \/ to.at = "add", req' = [req EXCEPT ![a] = to]
      PROVE  /\ \A b \in Admin : req'[b] = to
             /\ SavesAreCurrent' /\ JobsMatchRules'
  <2>1. to # Idle
    BY <1>5 DEF Idle
  <2>2. ~Quiet' /\ \A b \in Admin : req'[b] = to
    BY <1>5, <2>1, Alone
  <2> QED
    BY <1>5, <2>2 DEF SavesAreCurrent, JobsMatchRules
<1>6. CASE SyncBegin(a)
  <2> DEFINE to == [at |-> "remove", todo |-> Registered]
  <2>1. /\ req' = [req EXCEPT ![a] = to] /\ jobs' = jobs
        /\ to.at = "remove" /\ to.todo = Registered
    BY <1>6 DEF SyncBegin
  <2> HIDE DEF to
  <2>2. (\A b \in Admin : req'[b] = to) /\ SavesAreCurrent' /\ JobsMatchRules'
    BY <1>5, <2>1
  <2>3. SyncIsAlone'
    BY <2>1, <2>2 DEF SyncIsAlone, Registered
  <2> QED
    BY <1>2, <2>2, <2>3
<1>7. ASSUME NEW r \in Rule, RemoveJob(a, r)
      PROVE  SavesAreCurrent' /\ SyncIsAlone' /\ JobsMatchRules'
  <2> DEFINE to == [req[a] EXCEPT !.todo = @ \ {r}]
  <2>1. req[a].at = "remove" /\ r \in req[a].todo /\ req[a].todo = Registered
    BY <1>7 DEF RemoveJob, OneInv, SyncIsAlone
  <2>2. jobs[r] # 0
    BY <2>1 DEF Registered
  <2>3. req' = [req EXCEPT ![a] = to] /\ jobs' = [jobs EXCEPT ![r] = 0]
    BY <1>7, <2>2 DEF RemoveJob
  <2>4. to.at = "remove" /\ to.todo = Registered \ {r}
    <3>1. req[a] \in [at : {"remove"}, todo : SUBSET Rule]
      BY <1>4, <2>1 DEF Request, Idle, Sync
    <3> QED
      BY <2>1, <3>1
  <2> HIDE DEF to
  <2>5. (\A b \in Admin : req'[b] = to) /\ SavesAreCurrent' /\ JobsMatchRules'
    BY <1>5, <2>3, <2>4
  <2>6. Registered' = Registered \ {r}
    BY <1>4, <2>3 DEF Registered
  <2>7. SyncIsAlone'
    BY <2>4, <2>5, <2>6 DEF SyncIsAlone
  <2> QED
    BY <2>5, <2>7
<1>8. CASE ReadRules(a)
  <2> DEFINE to == [at |-> "add", plan |-> {<<r, row[r].cron>> : r \in Planned}]
  <2>1. req[a].at = "remove" /\ req[a].todo = {} /\ req[a].todo = Registered
    BY <1>8 DEF ReadRules, OneInv, SyncIsAlone
  <2>2. \A r \in Rule : jobs[r] = 0
    BY <2>1 DEF Registered
  <2>3. req' = [req EXCEPT ![a] = to] /\ jobs' = jobs
    BY <1>8 DEF ReadRules
  <2>4. /\ to.at = "add"
        /\ \A e \in to.plan : e[1] \in Rule /\ Eligible(e[1]) /\ e[2] = row[e[1]].cron
        /\ \A r \in Rule : Eligible(r) /\ row[r].cron # 0 => <<r, row[r].cron>> \in to.plan
    BY DEF Planned
  <2> HIDE DEF to
  <2>5. (\A b \in Admin : req'[b] = to) /\ SavesAreCurrent' /\ JobsMatchRules'
    BY <1>5, <2>3, <2>4
  <2>6. SyncIsAlone'
    <3>1. \A e \in to.plan : Eligible(e[1])' /\ e[2] = row'[e[1]].cron
      BY <1>1, <1>3, <2>4
    <3>2. \A r \in Rule :
             jobs'[r] = IF Eligible(r)' /\ <<r, row'[r].cron>> \notin to.plan
                        THEN row'[r].cron ELSE 0
      BY <1>1, <1>3, <2>2, <2>3, <2>4
    <3> QED
      BY <2>4, <2>5, <3>1, <3>2 DEF SyncIsAlone
  <2> QED
    BY <1>2, <2>5, <2>6
<1>9. ASSUME NEW r \in Rule, NEW c \in Cron, AddJob(a, r, c)
      PROVE  SavesAreCurrent' /\ SyncIsAlone' /\ JobsMatchRules'
  <2> DEFINE to == [req[a] EXCEPT !.plan = @ \ {<<r, c>>}]
  <2>1. /\ req[a].at = "add" /\ <<r, c>> \in req[a].plan
        /\ req' = [req EXCEPT ![a] = to] /\ jobs' = [jobs EXCEPT ![r] = c]
    BY <1>9 DEF AddJob
  <2>2. /\ \A e \in req[a].plan : Eligible(e[1]) /\ e[2] = row[e[1]].cron
        /\ \A q \in Rule :
              jobs[q] = IF Eligible(q) /\ <<q, row[q].cron>> \notin req[a].plan
                        THEN row[q].cron ELSE 0
    BY <2>1 DEF OneInv, SyncIsAlone
  <2>3. to.at = "add" /\ to.plan = req[a].plan \ {<<r, c>>}
    <3>1. req[a] \in [at : {"add"}, plan : SUBSET (Rule \X (0..MaxCron))]
      BY <1>4, <2>1 DEF Request, Idle, Sync
    <3> QED
      BY <2>1, <3>1
  <2>4. Eligible(r) /\ c = row[r].cron
    <3>1. Eligible(<<r, c>>[1]) /\ <<r, c>>[2] = row[<<r, c>>[1]].cron
      BY <2>1, <2>2
    <3> QED
      BY <3>1
  <2> HIDE DEF to
  <2>5. (\A b \in Admin : req'[b] = to) /\ SavesAreCurrent' /\ JobsMatchRules'
    BY <1>5, <2>1, <2>3
  <2>6. SyncIsAlone'
    <3>1. \A e \in to.plan : Eligible(e[1]) /\ e[2] = row[e[1]].cron
      BY <2>2, <2>3
    <3>2. ASSUME NEW q \in Rule
          PROVE  jobs'[q] = IF Eligible(q) /\ <<q, row[q].cron>> \notin to.plan
                            THEN row[q].cron ELSE 0
      <4>1. CASE q = r
        BY <1>4, <2>1, <2>3, <2>4, <4>1
      <4>2. CASE q # r
        <5>1. jobs'[q] = jobs[q]
          BY <1>4, <2>1, <4>2
        <5>2. <<q, row[q].cron>> \in to.plan <=> <<q, row[q].cron>> \in req[a].plan
          BY <2>3, <4>2
        <5> QED
          BY <2>2, <5>1, <5>2
      <4> QED
        BY <4>1, <4>2
    <3>3. \A e \in to.plan : Eligible(e[1])' /\ e[2] = row'[e[1]].cron
      BY <1>1, <3>1 DEF Eligible
    <3>4. \A q \in Rule :
             jobs'[q] = IF Eligible(q)' /\ <<q, row'[q].cron>> \notin to.plan
                        THEN row'[q].cron ELSE 0
      BY <1>1, <1>3, <3>2
    <3> QED
      BY <2>3, <2>5, <3>3, <3>4 DEF SyncIsAlone
  <2> QED
    BY <2>5, <2>6
<1>10. CASE SyncEnd(a)
  <2>1. /\ req[a].at = "add" /\ req[a].plan = {} /\ jobs' = jobs
        /\ req' = [req EXCEPT ![a] = Idle]
    BY <1>10 DEF SyncEnd
  <2>2. \A q \in Rule : jobs[q] = IF Eligible(q) THEN row[q].cron ELSE 0
    BY <2>1 DEF OneInv, SyncIsAlone
  <2>3. JobsMatchRules'
    BY <1>1, <1>3, <2>1, <2>2 DEF JobsMatchRules
  <2>4. \A b \in Admin : req'[b] = Idle
    BY <1>4, <2>1 DEF OneAdmin
  <2>5. SavesAreCurrent' /\ SyncIsAlone'
    BY <2>4 DEF SavesAreCurrent, SyncIsAlone, Idle
  <2> QED
    BY <1>2, <2>3, <2>5
<1> QED
  BY <1>2, <1>6, <1>7, <1>8, <1>9, <1>10 DEF SyncJobs

(* The job runs up to the write of the rule.                               *)
LEMMA OneTimerSteps ==
    ASSUME OneInv,
           \/ Tick
           \/ \E r \in Rule : Enqueue(r) \/ CheckDue(r) \/ CreateScheduledTask(r) \/ SelectRun(r)
    PROVE  RowsAreSound' /\ SavesAreCurrent' /\ JobsAnnounce' /\ SyncIsAlone' /\ JobsMatchRules'
<1>1. UNCHANGED <<row, known, jobs, req>>
  BY DEF Tick, Enqueue, CheckDue, CreateScheduledTask, SelectRun
<1>2. RowsAreSound' /\ SavesAreCurrent'
  BY <1>1 DEF OneInv, RowsAreSound, SavesAreCurrent
<1>3. SyncIsAlone' /\ JobsMatchRules'
  BY <1>1 DEF OneInv, SyncIsAlone, JobsMatchRules, Registered, Eligible, Quiet
<1>4. timer \in [Rule -> JobRun] /\ now \in 0..MaxNow /\ row \in [Rule -> Row]
  BY DEF OneInv, IInv, Shapes
<1>5. CASE Tick
  <2>1. \A r \in Rule : timer'[r] = timer[r] \/ timer'[r].at = "fired"
    BY <1>5 DEF Tick
  <2> QED
    BY <1>2, <1>3, <2>1 DEF OneInv, JobsAnnounce
<1>6. ASSUME NEW r \in Rule, NEW to, timer' = [timer EXCEPT ![r] = to],
             to.at \in {"check", "create", "record"} => to.next # NoTime,
             to.at = "write" => to.new.next # NoTime /\ SameTrigger(to.old, to.new)
      PROVE  JobsAnnounce'
  <2>1. \A q \in Rule : timer'[q] = IF q = r THEN to ELSE timer[q]
    BY <1>4, <1>6
  <2> QED
    BY <1>6, <2>1 DEF OneInv, JobsAnnounce
<1>7. ASSUME NEW r \in Rule, Enqueue(r)
      PROVE  JobsAnnounce'
  <2> DEFINE to == IF Eligible(r)
                   THEN [at |-> "check", for |-> now, next |-> NextFire(row[r].cron)] ELSE Idle
  <2>1. Eligible(r) => NextFire(row[r].cron) # NoTime
    <3>1. Eligible(r) => row[r].cron # 0
      BY DEF OneInv, RowsAreSound, Sound, Eligible
    <3> QED
      BY <1>4, <3>1, FireTimes DEF Row
  <2>2. /\ to.at \in {"check", "create", "record"} => to.next # NoTime
        /\ to.at # "write"
    BY <2>1 DEF Idle
  <2>3. timer' = [timer EXCEPT ![r] = to]
    BY <1>7 DEF Enqueue
  <2> HIDE DEF to
  <2> QED
    BY <1>6, <2>2, <2>3
<1>8. ASSUME NEW r \in Rule, NEW place \in {"create", "record"},
             timer[r].at \in {"check", "create"}, timer' = [timer EXCEPT ![r].at = place]
      PROVE  JobsAnnounce'
  <2> DEFINE to == [timer[r] EXCEPT !.at = place]
  <2>1. timer[r].next # NoTime
    BY <1>8 DEF OneInv, JobsAnnounce
  <2>2. timer[r] \in [at : {"check", "create", "record"}, for : 0..MaxNow,
                      next : FireTime]
    BY <1>4, <1>8 DEF JobRun, Idle
  <2>3. to.at = place /\ to.next = timer[r].next
    BY <2>2
  <2>4. timer' = [timer EXCEPT ![r] = to]
    BY <1>8
  <2> HIDE DEF to
  <2> QED
    BY <1>6, <1>8, <2>1, <2>3, <2>4
<1>9. ASSUME NEW r \in Rule, CheckDue(r)
      PROVE  JobsAnnounce'
  <2>1. CASE StillDue(r)
    BY <1>8, <1>9, <2>1 DEF CheckDue
  <2>2. CASE ~StillDue(r)
    BY <1>6, <1>9, <2>2 DEF CheckDue, Idle
  <2> QED
    BY <2>1, <2>2
<1>10. ASSUME NEW r \in Rule, CreateScheduledTask(r)
       PROVE  JobsAnnounce'
  BY <1>8, <1>10 DEF CreateScheduledTask
<1>11. ASSUME NEW r \in Rule, SelectRun(r)
       PROVE  JobsAnnounce'
  <2> DEFINE new == [row[r] EXCEPT !.last = timer[r].for, !.next = timer[r].next]
             to == [at |-> "write", old |-> row[r], new |-> new]
  <2>1. timer[r].at = "record" /\ timer' = [timer EXCEPT ![r] = to]
    BY <1>11 DEF SelectRun
  <2>2. timer[r].next # NoTime
    BY <2>1 DEF OneInv, JobsAnnounce
  <2>3. row[r] \in Row
    BY <1>4
  <2>4. /\ new.mode = row[r].mode /\ new.cron = row[r].cron /\ new.enabled = row[r].enabled
        /\ new.active = row[r].active /\ new.next = timer[r].next
    BY <2>3 DEF Row
  <2> HIDE DEF new
  <2>5. to.at = "write" /\ to.new.next # NoTime /\ SameTrigger(to.old, to.new)
    BY <2>2, <2>4 DEF SameTrigger
  <2> HIDE DEF to
  <2> QED
    BY <1>6, <2>1, <2>5
<1> QED
  BY <1>2, <1>3, <1>5, <1>7, <1>9, <1>10, <1>11

(* The job's write of the run times leaves what sync_jobs and the saves    *)
(* look at as it is.                                                       *)
LEMMA OneRecordRunStep ==
    ASSUME OneInv, NEW r \in Rule, RecordRun(r)
    PROVE  RowsAreSound' /\ SavesAreCurrent' /\ JobsAnnounce' /\ SyncIsAlone' /\ JobsMatchRules'
<1> DEFINE x == Written(row[r], timer[r].old, timer[r].new)
<1>1. /\ timer[r].at = "write" /\ row' = [row EXCEPT ![r] = x]
      /\ timer' = [timer EXCEPT ![r] = Idle]
      /\ UNCHANGED <<known, jobs, req>>
  BY DEF RecordRun
<1>2. /\ row \in [Rule -> Row] /\ timer \in [Rule -> JobRun]
      /\ timer[r].old \in Row /\ timer[r].new \in Row
  BY <1>1, Held DEF OneInv, IInv, Shapes
<1>3. timer[r].new.next # NoTime /\ SameTrigger(timer[r].old, timer[r].new) /\ Sound(row[r])
  BY <1>1 DEF OneInv, JobsAnnounce, RowsAreSound
<1>4. SameTrigger(row[r], x) /\ Sound(x) /\ (row[r].next # NoTime => x.next # NoTime)
  BY <1>2, <1>3, RunKeepsTrigger
<1> HIDE DEF x
<1>5. \A q \in Rule : /\ row'[q] = IF q = r THEN x ELSE row[q]
                      /\ timer'[q] = IF q = r THEN Idle ELSE timer[q]
  BY <1>1, <1>2
<1>6. \A q \in Rule : /\ SameTrigger(row[q], row'[q]) /\ Sound(row'[q])
                      /\ row[q].next # NoTime => row'[q].next # NoTime
  <2>1. ASSUME NEW q \in Rule, q # r
        PROVE  row'[q] = row[q] /\ Sound(row[q])
    BY <1>5, <2>1 DEF OneInv, RowsAreSound
  <2> QED
    BY <1>4, <1>5, <2>1 DEF SameTrigger
<1>7. RowsAreSound'
  BY <1>6 DEF RowsAreSound
<1>8. JobsAnnounce'
  BY <1>5 DEF OneInv, JobsAnnounce, Idle
<1>9. SavesAreCurrent'
  <2> SUFFICES ASSUME NEW a \in Admin, req'[a].at = "write"
               PROVE  /\ SameTrigger(req'[a].old, row'[req'[a].rule])
                      /\ Sound(req'[a].new)
                      /\ req'[a].old.next # NoTime => row'[req'[a].rule].next # NoTime
    BY DEF SavesAreCurrent
  <2>1. req' = req /\ req[a].rule \in Rule
    BY <1>1, Held DEF OneInv, IInv
  <2>2. /\ SameTrigger(req[a].old, row[req[a].rule])
        /\ Sound(req[a].new)
        /\ req[a].old.next # NoTime => row[req[a].rule].next # NoTime
    BY <2>1 DEF OneInv, SavesAreCurrent
  <2>3. SameTrigger(req[a].old, row'[req[a].rule])
    BY <1>6, <2>1, <2>2 DEF SameTrigger
  <2> QED
    BY <1>6, <2>1, <2>2, <2>3
<1>10. \A q \in Rule : (Eligible(q)' <=> Eligible(q)) /\ row'[q].cron = row[q].cron
  BY <1>1, <1>6 DEF Eligible, SameTrigger
<1>11. SyncIsAlone'
  <2>1. Registered' = Registered
    BY <1>1 DEF Registered
  <2>2. ASSUME NEW a \in Admin, req[a].at = "add"
        PROVE  /\ \A e \in req[a].plan : Eligible(e[1])' /\ e[2] = row'[e[1]].cron
               /\ \A q \in Rule :
                     jobs[q] = IF Eligible(q)' /\ <<q, row'[q].cron>> \notin req[a].plan
                               THEN row'[q].cron ELSE 0
    <3>1. /\ \A e \in req[a].plan : e[1] \in Rule /\ Eligible(e[1]) /\ e[2] = row[e[1]].cron
          /\ \A q \in Rule :
                jobs[q] = IF Eligible(q) /\ <<q, row[q].cron>> \notin req[a].plan
                          THEN row[q].cron ELSE 0
      <4>1. req[a].plan \subseteq Rule \X (0..MaxCron)
        BY <2>2, Held DEF OneInv, IInv
      <4> QED
        BY <2>2, <4>1 DEF OneInv, SyncIsAlone
    <3> QED
      BY <1>10, <3>1
  <2>3. \A a \in Admin : req[a].at = "remove" => req[a].todo = Registered
    BY DEF OneInv, SyncIsAlone
  <2> QED
    BY <1>1, <2>1, <2>2, <2>3 DEF SyncIsAlone
<1>12. JobsMatchRules'
  BY <1>1, <1>10 DEF OneInv, JobsMatchRules, Quiet
<1> QED
  BY <1>7, <1>8, <1>9, <1>11, <1>12

LEMMA OneRestartStep ==
    ASSUME OneInv, Restart
    PROVE  RowsAreSound' /\ SavesAreCurrent' /\ JobsAnnounce' /\ SyncIsAlone' /\ JobsMatchRules'
<1>1. /\ jobs' = [r \in Rule |-> IF Eligible(r) THEN row[r].cron ELSE 0]
      /\ req' = [a \in Admin |-> Idle] /\ timer' = [r \in Rule |-> Idle]
      /\ row' = row /\ known' = known
  BY DEF Restart
<1>2. RowsAreSound'
  BY <1>1 DEF OneInv, RowsAreSound
<1>3. SavesAreCurrent' /\ JobsAnnounce' /\ SyncIsAlone'
  BY <1>1 DEF SavesAreCurrent, JobsAnnounce, SyncIsAlone, Idle
<1>4. JobsMatchRules'
  <2>1. \A r \in Rule : Eligible(r)' <=> Eligible(r)
    BY <1>1 DEF Eligible
  <2> QED
    BY <1>1, <2>1 DEF JobsMatchRules
<1> QED
  BY <1>2, <1>3, <1>4

LEMMA OneStep == OneAdmin /\ OneInv /\ [Next]_vars => OneInv'
<1> SUFFICES ASSUME OneAdmin, OneInv, [Next]_vars PROVE OneInv'
  OBVIOUS
<1>1. IInv'
  BY StepHolds DEF OneInv
<1>2. RowsAreSound' /\ SavesAreCurrent' /\ JobsAnnounce' /\ SyncIsAlone' /\ JobsMatchRules'
  <2>1. CASE UNCHANGED vars
    BY <2>1 DEF vars, OneInv, RowsAreSound, SavesAreCurrent, JobsAnnounce, SyncIsAlone,
                JobsMatchRules, Registered, Eligible, Quiet
  <2>2. CASE \E r \in Rule : RunJob(r)
    BY <2>2, OneTimerSteps, OneRecordRunStep DEF RunJob
  <2>3. CASE \E a \in Admin, r \in Rule, p \in Patch : CreateRule(a, r, p) \/ UpdateRule(a, r, p)
    BY <2>3, OneSaveSteps
  <2>4. CASE \E a \in Admin : WriteRule(a) \/ SyncJobs(a)
    BY <2>4, OneSaveSteps, OneSyncSteps
  <2> QED
    BY <2>1, <2>2, <2>3, <2>4, OneTimerSteps, OneRestartStep DEF Next
<1> QED
  BY <1>1, <1>2 DEF OneInv

(* What overlapping saves are to blame for. Were there one administrator,  *)
(* which nothing in the code ensures, every scheduled rule would be active *)
(* and announce a next run, and between requests the scheduler would have  *)
(* the jobs the rules ask for (update_rule, sync_jobs), whatever job runs  *)
(* and restarts come between.                                              *)
LEMMA OneScheduleHolds ==
    ASSUME OneAdmin
    PROVE  Spec => []ScheduleIsConsistent
<1>1. Init => OneInv
  BY OneInit
<1>2. OneInv /\ [Next]_vars => OneInv'
  BY OneStep
<1>3. OneInv => ScheduleIsConsistent
  BY DEF OneInv, ScheduleIsConsistent, EnabledIsActive, EnabledAnnounces, RowsAreSound, Sound
<1> QED
  BY <1>1, <1>2, <1>3, PTL DEF Spec
===============================================================================
