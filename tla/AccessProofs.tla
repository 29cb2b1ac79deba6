----------------------------- MODULE AccessProofs -----------------------------
(***************************************************************************)
(* Proofs about who gets in, for every value of the constants: UserAdmin   *)
(* and the PasswordFile it replaces (the report of a replacement and the   *)
(* copy it keeps, and what holds between the file, the table and the       *)
(* sessions through updates, compensations, hand edits, faults and         *)
(* deaths), then the two limiters at the door, LoginLimiter and            *)
(* CallLimiter, with what they need of their tables.                       *)
(***************************************************************************)
EXTENDS UserAdmin, LoginLimiter, CallLimiter, SequenceTheorems, FiniteSetTheorems,
        WellFoundedInduction, TLAPS

\* The table says what the entries say.
Agrees(table, entries) ==
    \A u \in User :
        IF entries[u] = None THEN ~Active(table, u)
        ELSE table[u] # None /\ table[u].pw = entries[u].pw /\ table[u].role = entries[u].role

\* Whom the entries name is active or has an excuse.
Excuses(table, entries) == \A u \in User : entries[u] # None /\ u \notin excused => Active(table, u)

\* The entries name an administrator whom a synchronisation leaves active.
Keeps(entries, table) ==
    \E u \in User : /\ entries[u] # None /\ entries[u].role = "admin"
                    /\ table[u] = None \/ table[u].active

Inactive(table, u) == table[u] # None /\ ~table[u].active

(* Where a replacement is, what it has reported so far and which contents  *)
(* the file and the copy have. The file is the administrator's alone       *)
(* during the steps that replace it.                                       *)
ReplacementIsOrderly ==
    /\ at = "idle" <=> step \notin {"write", "restore"}
    /\ at = "idle" => goal = file /\ state = "not_replaced" /\ ~raised
    /\ at \in {"backup", "temp", "replace"} => state = "not_replaced" /\ ~raised
    /\ at \in {"temp", "replace"} => durable /\ backup = before /\ file = before
    /\ at \in {"sync", "restore", "restoring"} =>
         state = "replaced_pending_durability" /\ file = goal /\ backup = before
    /\ at = "sync" => ~raised
    /\ at \in {"restore", "restoring", "resync"} => raised
    /\ at = "resync" => file = before /\ backup = before
    /\ at = "clean" => /\ durable
                       /\ \/ state = "persisted" /\ file = goal
                          \/ state = "restored" /\ file = before /\ raised

(* Who believes to have seen the file has a table that agrees with it.     *)
SeenIsSynchronised == step = "idle" /\ seen => Agrees(rows, file) /\ Excuses(rows, file)

(* An update: the table as it is goes with the original entries, the table *)
(* it is about to commit with the new ones.                                *)
UpdateIsConsistent ==
    /\ step = "write" =>
         /\ Agrees(rows, original) /\ Excuses(rows, original)
         /\ Agrees(draft, goal) /\ Excuses(draft, goal)
         /\ seen => file = original
    /\ step = "commit" => Agrees(draft, file) /\ Excuses(draft, file)
    /\ step = "record" => Agrees(rows, file) /\ Excuses(rows, file)
    /\ step \in {"write", "commit"} =>
         \A u \in User :
             /\ Inactive(draft, u) => Inactive(rows, u)
             /\ u \notin revoke /\ Active(rows, u) => Active(draft, u) /\ draft[u].pw = rows[u].pw
    /\ step # "idle" => \A u \in User : Inactive(rows, u) /\ original[u] # None => u \in excused

(* An inactive user is so by decision, or was out of the file when it was  *)
(* last looked at, so that naming him again activates him.                 *)
InactiveIsExplained ==
    \A u \in User : Inactive(rows, u) => u \in excused \/ (names # None /\ u \notin names)

(* Whatever contents the file may come to have, and whichever table is     *)
(* committed, an administrator remains.                                    *)
AdminRemainsEverywhere ==
    owed => \A table \in {rows} \cup (IF step \in {"write", "commit"} THEN {draft} ELSE {}) :
        /\ Keeps(file, table)
        /\ step # "idle" => Keeps(original, table)
        /\ at # "idle" => Keeps(goal, table)
        /\ at \in {"temp", "replace", "sync", "restore", "restoring", "resync"} => Keeps(before, table)

(* The inductive invariant.                                                *)
IInv ==
    /\ TypeOK
    /\ ReplacementIsOrderly
    /\ ReportIsHonest
    /\ OldCopyIsKept
    /\ SeenIsSynchronised
    /\ UpdateIsConsistent
    /\ InactiveIsExplained
    /\ SessionsAreCurrent
    /\ AdminRemainsEverywhere

-----------------------------------------------------------------------------
(* The steps of PasswordFile, as UserAdmin takes them.                     *)
LEMMA FileSteps ==
    ASSUME PasswordFile!FileTypeOK, ReplacementIsOrderly, ReportIsHonest, OldCopyIsKept,
           step \in {"write", "restore"}, step' = step, PasswordFile!FileStep
    PROVE  /\ PasswordFile!FileTypeOK' /\ ReplacementIsOrderly' /\ ReportIsHonest' /\ OldCopyIsKept'
           /\ goal' = goal /\ at # "idle" /\ at' # "idle"
           /\ file' = file \/ file' = goal \/ (at = "restoring" /\ file' = before)
           /\ \/ before' = file
              \/ /\ before' = before
                 /\ at' \in {"temp", "replace", "sync", "restore", "restoring", "resync"} =>
                      at \in {"temp", "replace", "sync", "restore", "restoring", "resync"}
<1> USE DEF PasswordFile!FileTypeOK, PasswordFile!At, PasswordFile!UpdateState, ReplacementIsOrderly,
            ReportIsHonest, PasswordFile!ReportIsHonest, OldCopyIsKept, PasswordFile!OldCopyIsKept,
            PasswordFile!Attempted, PasswordFile!Fault
<1>1. CASE PasswordFile!WriteBackup \/ PasswordFile!WriteTemporary \/ PasswordFile!Replace
  <2>1. CASE PasswordFile!WriteBackup
    BY <2>1 DEF PasswordFile!WriteBackup
  <2>2. CASE PasswordFile!WriteTemporary
    BY <2>2 DEF PasswordFile!WriteTemporary
  <2>3. CASE PasswordFile!Replace
    BY <2>3 DEF PasswordFile!Replace
  <2> QED
    BY <1>1, <2>1, <2>2, <2>3
<1>2. CASE PasswordFile!FailsBeforeReplace
  BY <1>2, AdminAssumption DEF AdminAssumption, PasswordFile!FailsBeforeReplace
<1>3. CASE PasswordFile!SyncDirectory
  <2>1. CASE at' = "clean"
    BY <1>3, <2>1, AdminAssumption DEF AdminAssumption, PasswordFile!SyncDirectory
  <2>2. CASE at' # "clean"
    <3>1. /\ at = "sync" /\ at' = "restore" /\ raised' = TRUE /\ faults' \in 0..MaxFaults
          /\ UNCHANGED <<state, durable, file, backup, before, goal>>
      BY <1>3, <2>2, AdminAssumption DEF AdminAssumption, PasswordFile!SyncDirectory
    <3> QED
      BY <3>1
  <2> QED
    BY <2>1, <2>2
<1>4. CASE PasswordFile!CopyBackup \/ PasswordFile!PutBack
  BY <1>4 DEF PasswordFile!CopyBackup, PasswordFile!PutBack
<1>5. CASE PasswordFile!FailsToRestore
  BY <1>5, AdminAssumption DEF AdminAssumption, PasswordFile!FailsToRestore
<1>6. CASE PasswordFile!ResyncDirectory
  <2>1. CASE at' = "clean"
    BY <1>6, <2>1, AdminAssumption DEF AdminAssumption, PasswordFile!ResyncDirectory
  <2>2. CASE at' # "clean"
    BY <1>6, <2>2, AdminAssumption DEF AdminAssumption, PasswordFile!ResyncDirectory
  <2> QED
    BY <2>1, <2>2
<1>7. CASE PasswordFile!RemoveBackup
  <2>1. CASE raised' = raised
    BY <1>7, <2>1, AdminAssumption DEF AdminAssumption, PasswordFile!RemoveBackup
  <2>2. CASE raised' # raised
    <3>1. /\ at = "clean" /\ at' = "done" /\ raised' = TRUE /\ faults' \in 0..MaxFaults
          /\ backup' \in {backup, None}
          /\ UNCHANGED <<file, durable, before, goal, state>>
      BY <1>7, <2>2, AdminAssumption DEF AdminAssumption, PasswordFile!RemoveBackup
    <3> QED
      BY <3>1
  <2> QED
    BY <2>1, <2>2
<1> QED
  BY <1>1, <1>2, <1>3, <1>4, <1>5, <1>6, <1>7 DEF PasswordFile!FileStep

-----------------------------------------------------------------------------
(* A synchronisation: what becomes of one row.                             *)
LEMMA OneRowSynchronised ==
    ASSUME TypeOK, Synchronise, NEW u \in User
    PROVE  /\ rows'[u] \in Row \cup {None}
           /\ file[u] = None => ~Active(rows', u)
           /\ file[u] # None =>
                /\ rows'[u] # None /\ rows'[u].pw = file[u].pw /\ rows'[u].role = file[u].role
                /\ Active(rows', u) <=> rows[u] = None \/ rows[u].active \/ Reactivated(u)
           /\ sessions'[u] = IF SyncRevokes(u) THEN {} ELSE sessions[u]
           /\ late'[u] = IF SyncRevokes(u) THEN {} ELSE late[u]
           /\ u \in excused' <=> (u \in excused /\ ~Active(rows', u))
           /\ u \in names' <=> file[u] # None
<1>1. rows'[u] = SyncedRow(u)
  BY DEF Synchronise
<1>2. rows[u] \in Row \cup {None} /\ file[u] \in Entry \cup {None}
  BY DEF TypeOK, PasswordFile!FileTypeOK, Entries
<1>3. /\ sessions'[u] = IF SyncRevokes(u) THEN {} ELSE sessions[u]
      /\ late'[u] = IF SyncRevokes(u) THEN {} ELSE late[u]
      /\ u \in excused' <=> (u \in excused /\ ~Active(rows', u))
      /\ u \in names' <=> file[u] # None
  BY DEF Synchronise, Histories, Named, TypeOK
<1>4. CASE file[u] = None
  <2>1. CASE rows[u] = None
    BY <1>1, <1>3, <1>4, <2>1 DEF SyncedRow, Active, Inactive
  <2>2. CASE rows[u] # None
    <3>1. rows'[u] = [rows[u] EXCEPT !.active = FALSE] /\ rows[u] \in Row
      BY <1>1, <1>2, <1>4, <2>2 DEF SyncedRow
    <3>2. rows'[u] \in Row /\ ~rows'[u].active
      BY <3>1 DEF Row
    <3> QED
      BY <1>3, <1>4, <2>2, <3>2 DEF Active
  <2> QED
    BY <2>1, <2>2
<1>5. CASE file[u] # None
  <2> DEFINE woken == rows[u] = None \/ rows[u].active \/ Reactivated(u)
  <2>1. /\ file[u] \in Entry
        /\ rows'[u] = [pw |-> file[u].pw, role |-> file[u].role, active |-> woken]
    BY <1>1, <1>2, <1>5 DEF SyncedRow
  <2>2. woken \in BOOLEAN
    BY <1>2 DEF Row, Reactivated
  <2> HIDE DEF woken
  <2>3. /\ rows'[u] \in Row /\ rows'[u].pw = file[u].pw /\ rows'[u].role = file[u].role
        /\ rows'[u].active = woken
    BY <2>1, <2>2 DEF Entry, Row
  <2>4. rows'[u] # None /\ (Active(rows', u) <=> woken)
    BY <2>2, <2>3, NoneAssumption DEF NoneAssumption, Active
  <2> QED
    BY <1>3, <1>5, <2>3, <2>4 DEF woken
<1> QED
  BY <1>4, <1>5

(* After it the table agrees with the file, and nothing is forgotten.      *)
LEMMA Synchronised ==
    ASSUME TypeOK, InactiveIsExplained, SessionsAreCurrent, owed => Keeps(file, rows),
           Synchronise, file' = file
    PROVE  /\ rows' \in [User -> Row \cup {None}] /\ sessions' \in [User -> SUBSET Pw]
           /\ late' \in [User -> SUBSET Pw] /\ seen' \in BOOLEAN /\ names' \in (SUBSET User) \cup {None}
           /\ owed' \in BOOLEAN /\ excused' \subseteq User
           /\ Agrees(rows', file') /\ Excuses(rows, file)'
           /\ InactiveIsExplained' /\ SessionsAreCurrent'
           /\ owed' => Keeps(file', rows')
<1>1. /\ rows' \in [User -> Row \cup {None}] /\ sessions' \in [User -> SUBSET Pw]
      /\ late' \in [User -> SUBSET Pw] /\ seen' \in BOOLEAN /\ names' \in SUBSET User
      /\ owed' \in BOOLEAN /\ excused' \subseteq User
  <2>1. rows' = [u \in User |-> rows'[u]]
    BY DEF Synchronise
  <2>2. rows' \in [User -> Row \cup {None}]
    BY <2>1, OneRowSynchronised
  <2> QED
    BY <2>2 DEF Synchronise, Histories, Named, TypeOK
<1>2. Agrees(rows', file)
  BY OneRowSynchronised DEF Agrees
<1>3. ASSUME NEW u \in User, Inactive(rows', u), file[u] # None
      PROVE  u \in excused'
  <2>1. rows[u] # None /\ ~rows[u].active /\ ~Reactivated(u) /\ ~Active(rows', u)
    BY <1>3, OneRowSynchronised DEF Inactive, Active
  <2>2. u \in excused
    BY <2>1 DEF Inactive, Reactivated, InactiveIsExplained
  <2> QED
    BY <2>1, <2>2, OneRowSynchronised
<1>4. Excuses(rows, file)'
  BY <1>3, OneRowSynchronised DEF Excuses, Inactive, Active
<1>5. InactiveIsExplained'
  BY <1>1, <1>3, OneRowSynchronised, NoneAssumption DEF NoneAssumption, InactiveIsExplained, Inactive
<1>6. SessionsAreCurrent'
  <2> SUFFICES ASSUME NEW u \in User
               PROVE  sessions'[u] \ late'[u] \subseteq IF Active(rows', u) THEN {rows'[u].pw} ELSE {}
    BY DEF SessionsAreCurrent, Active
  <2>1. CASE SyncRevokes(u)
    BY <2>1, OneRowSynchronised
  <2>2. CASE ~SyncRevokes(u) /\ ~Active(rows, u)
    BY <2>2, OneRowSynchronised DEF SessionsAreCurrent
  <2>3. CASE ~SyncRevokes(u) /\ Active(rows, u)
    BY <2>3, OneRowSynchronised DEF SessionsAreCurrent, SyncRevokes, Active
  <2> QED
    BY <2>1, <2>2, <2>3
<1>7. ASSUME owed'
      PROVE  Keeps(file', rows')
  <2>1. CASE owed
    <3>1. PICK u \in User : /\ file[u] # None /\ file[u].role = "admin"
                            /\ rows[u] = None \/ rows[u].active
      BY <2>1 DEF Keeps
    <3>2. Active(rows', u)
      BY <3>1, OneRowSynchronised
    <3> QED
      BY <3>1, <3>2 DEF Keeps, Active
  <2>2. CASE Admins(rows') # {}
    <3>1. PICK u \in User : Active(rows', u) /\ rows'[u].role = "admin"
      BY <2>2 DEF Admins
    <3>2. file[u] # None /\ file[u].role = rows'[u].role
      BY <3>1, OneRowSynchronised
    <3> QED
      BY <3>1, <3>2 DEF Keeps, Active
  <2> QED
    BY <1>7, <2>1, <2>2 DEF Synchronise
<1> QED
  BY <1>1, <1>2, <1>4, <1>5, <1>6, <1>7

-----------------------------------------------------------------------------
(* Every action preserves the invariant. When no update is under way, only *)
(* the file and the table are left to speak of.                            *)
LEMMA Resting ==
    ASSUME step' = "idle", at' = "idle", owed' => Keeps(file', rows')
    PROVE  UpdateIsConsistent' /\ AdminRemainsEverywhere'
BY DEF UpdateIsConsistent, AdminRemainsEverywhere, Keeps

(* The file's part of the invariant does not depend on the rest.           *)
LEMMA FileUntouched ==
    ASSUME IInv, UNCHANGED <<file, durable, backup, before, goal, at, state, raised>>,
           faults' \in 0..MaxFaults, step' \in {"write", "restore"} <=> step \in {"write", "restore"}
    PROVE  PasswordFile!FileTypeOK' /\ ReplacementIsOrderly' /\ ReportIsHonest' /\ OldCopyIsKept'
BY DEF IInv, TypeOK, PasswordFile!FileTypeOK, ReplacementIsOrderly, ReportIsHonest,
       PasswordFile!ReportIsHonest, PasswordFile!Attempted, OldCopyIsKept, PasswordFile!OldCopyIsKept

LEMMA SyncIfChangedStep ==
    ASSUME IInv, SyncIfChanged
    PROVE  IInv'
<1>1. /\ step = "idle" /\ step' = "idle" /\ at = "idle"
      /\ UNCHANGED <<fileVars, update, login, counters>>
  BY DEF SyncIfChanged, LockFree, update, IInv, ReplacementIsOrderly
<1>2. PasswordFile!FileTypeOK' /\ ReplacementIsOrderly' /\ ReportIsHonest' /\ OldCopyIsKept'
  BY <1>1, FileUntouched DEF fileVars, IInv, TypeOK, PasswordFile!FileTypeOK
<1>3. CASE ~seen /\ Synchronise
  <2>1. owed => Keeps(file, rows)
    BY DEF IInv, AdminRemainsEverywhere
  <2>2. file' = file /\ at' = "idle"
    BY <1>1 DEF fileVars
  <2>3. TypeOK'
    BY <1>1, <1>2, <1>3, <2>1, <2>2, Synchronised DEF IInv, TypeOK, update, counters
  <2>4. SeenIsSynchronised' /\ InactiveIsExplained' /\ SessionsAreCurrent'
    BY <1>3, <2>1, <2>2, Synchronised DEF IInv, SeenIsSynchronised
  <2>5. UpdateIsConsistent' /\ AdminRemainsEverywhere'
    BY <1>1, <1>3, <2>1, <2>2, Synchronised, Resting DEF IInv
  <2> QED
    BY <1>2, <2>3, <2>4, <2>5 DEF IInv
<1>4. CASE UNCHANGED <<rows, sessions, memory, history>>
  <2>1. UNCHANGED vars
    BY <1>1, <1>4 DEF vars
  <2>2. owed' => Keeps(file', rows')
    BY <2>1 DEF IInv, AdminRemainsEverywhere, Keeps, vars, fileVars, history
  <2>3. at' = "idle"
    BY <1>1 DEF fileVars
  <2>4. UpdateIsConsistent' /\ AdminRemainsEverywhere'
    BY <1>1, <2>2, <2>3, Resting
  <2>5. TypeOK' /\ SeenIsSynchronised' /\ InactiveIsExplained' /\ SessionsAreCurrent'
    BY <2>1, <1>2 DEF vars, fileVars, memory, update, counters, history, IInv, TypeOK, SeenIsSynchronised,
       InactiveIsExplained, SessionsAreCurrent, Agrees, Excuses, Active, Inactive
  <2> QED
    BY <1>2, <2>4, <2>5 DEF IInv
<1> QED
  BY <1>3, <1>4 DEF SyncIfChanged

(* An update begins. What is asked of its entry and its row is what the    *)
(* three operations see to.                                                *)
LEMMA StartUpdateStep ==
    ASSUME IInv, NEW u \in User, NEW entry \in Entry, NEW row \in Row, NEW revoked \in SUBSET User,
           StartUpdate(u, entry, row, revoked),
           row.pw = entry.pw, row.role = entry.role,
           file[u] = None => row.active,
           file[u] # None => rows[u] # None /\ row.active = rows[u].active,
           u \notin revoked => row.pw = rows[u].pw /\ file[u] # None,
           u \in Admins(rows) => entry.role = "admin" \/ \E v \in Admins(rows) : v # u
    PROVE  IInv'
<1>1. /\ step = "idle" /\ seen /\ step' = "write" /\ at = "idle" /\ at' = "backup"
      /\ original' = file /\ draft' = [rows EXCEPT ![u] = row] /\ revoke' = revoked
      /\ goal' = [file EXCEPT ![u] = entry]
      /\ state' = "not_replaced" /\ raised' = FALSE
      /\ updates' \in 0..MaxUpdates
      /\ UNCHANGED <<file, durable, backup, before, faults, rows, sessions, memory, login,
                     logins, edits, kills, history>>
  BY AdminAssumption DEF AdminAssumption, StartUpdate, LockFree, PasswordFile!Begin, IInv, TypeOK
<1>2. /\ file \in Entries /\ rows \in [User -> Row \cup {None}]
      /\ Agrees(rows, file) /\ Excuses(rows, file)
  BY <1>1 DEF IInv, TypeOK, PasswordFile!FileTypeOK, SeenIsSynchronised
<1>3. /\ draft'[u] = row /\ goal'[u] = entry /\ entry # None /\ row # None
      /\ \A v \in User \ {u} : draft'[v] = rows[v] /\ goal'[v] = file[v]
      /\ draft' \in [User -> Row \cup {None}] /\ goal' \in Entries
  BY <1>1, <1>2, NoneAssumption DEF NoneAssumption, Entries
<1>4. TypeOK'
  BY <1>1, <1>2, <1>3 DEF IInv, TypeOK, PasswordFile!FileTypeOK, PasswordFile!At,
     PasswordFile!UpdateState, memory, history, Step
<1>5. ReplacementIsOrderly' /\ ReportIsHonest' /\ OldCopyIsKept'
  BY <1>1 DEF IInv, ReplacementIsOrderly, ReportIsHonest, PasswordFile!ReportIsHonest,
              OldCopyIsKept, PasswordFile!OldCopyIsKept
<1>6. SeenIsSynchronised' /\ InactiveIsExplained' /\ SessionsAreCurrent'
  BY <1>1 DEF IInv, SeenIsSynchronised, InactiveIsExplained, SessionsAreCurrent, Active, Inactive,
              memory, history
<1>7. Agrees(draft', goal') /\ Excuses(draft, goal)'
  <2>1. Agrees(draft', goal')
    BY <1>2, <1>3 DEF Agrees, Active
  <2>2. Excuses(draft, goal)'
    BY <1>1, <1>2, <1>3 DEF Excuses, Active, history
  <2> QED
    BY <2>1, <2>2
<1>8. UpdateIsConsistent'
  <2>1. Agrees(rows', original') /\ Excuses(rows, original)'
    BY <1>1, <1>2 DEF Agrees, Excuses, Active, history
  <2>2. \A v \in User :
          /\ Inactive(draft', v) => Inactive(rows', v)
          /\ v \notin revoke' /\ Active(rows', v) => Active(draft', v) /\ draft'[v].pw = rows'[v].pw
    <3>1. Inactive(draft', u) => Inactive(rows', u)
      BY <1>1, <1>3 DEF Inactive
    <3>2. u \notin revoke' /\ Active(rows', u) => Active(draft', u) /\ draft'[u].pw = rows'[u].pw
      BY <1>1, <1>3 DEF Active
    <3> QED
      BY <1>1, <1>3, <3>1, <3>2 DEF Active, Inactive
  <2>3. \A v \in User : Inactive(rows', v) /\ original'[v] # None => v \in excused'
    BY <1>1, <1>2 DEF Excuses, Active, Inactive, history
  <2> QED
    BY <1>1, <1>7, <2>1, <2>2, <2>3 DEF UpdateIsConsistent
<1>9. AdminRemainsEverywhere'
  <2> SUFFICES ASSUME owed
               PROVE  \A table \in {rows, draft'} : Keeps(file, table) /\ Keeps(goal', table)
    BY <1>1 DEF AdminRemainsEverywhere, history
  <2>1. PICK v \in User : /\ file[v] # None /\ file[v].role = "admin"
                          /\ rows[v] = None \/ rows[v].active
    BY DEF IInv, AdminRemainsEverywhere, Keeps
  <2>2. Active(rows, v) /\ rows[v].role = "admin"
    BY <1>2, <2>1 DEF Agrees, Active
  <2>3. CASE v # u
    BY <1>3, <2>1, <2>2, <2>3 DEF Keeps, Active
  <2>4. CASE v = u /\ entry.role = "admin"
    BY <1>3, <2>1, <2>2, <2>4 DEF Keeps, Active
  <2>5. CASE v = u /\ entry.role # "admin"
    <3>1. PICK w \in Admins(rows) : w # u
      BY <2>2, <2>5 DEF Admins
    <3>2. /\ w \in User /\ Active(rows, w) /\ rows[w].role = "admin"
          /\ file[w] # None /\ file[w].role = "admin"
      BY <1>2, <3>1 DEF Admins, Agrees, Active
    <3> QED
      BY <1>3, <3>1, <3>2 DEF Keeps, Active
  <2> QED
    BY <2>3, <2>4, <2>5
<1> QED
  BY <1>4, <1>5, <1>6, <1>8, <1>9 DEF IInv

(* What _ensure_admin_remains asks for: the user is no active              *)
(* administrator, stays one, or is not the only one.                       *)
LEMMA AnotherAdmin ==
    ASSUME NEW u \in User, NEW role, NEW active, AdminRemains(u, role, active), u \in Admins(rows)
    PROVE  (role = "admin" /\ active) \/ \E v \in Admins(rows) : v # u
<1>1. CASE \A v \in Admins(rows) : v = u
  <2>1. Admins(rows) = {u}
    BY <1>1
  <2>2. Cardinality(Admins(rows)) = 1
    BY <2>1, FS_Singleton
  <2> QED
    BY <2>2 DEF AdminRemains
<1> QED
  BY <1>1

LEMMA StartUpdateSteps ==
    ASSUME IInv, NEW u \in User,
           \/ \E pw \in Pw, role \in Role : CreateUser(u, pw, role)
           \/ \E pw \in Pw : ChangePassword(u, pw)
           \/ \E role \in Role : ChangeRole(u, role)
    PROVE  IInv'
<1>1. file[u] \in Entry \cup {None} /\ rows[u] \in Row \cup {None}
  BY DEF IInv, TypeOK, PasswordFile!FileTypeOK, Entries
<1>2. ASSUME step = "idle", seen
      PROVE  /\ file[u] # None => /\ file[u] \in Entry /\ rows[u] \in Row
                                 /\ rows[u] # None /\ rows[u].pw = file[u].pw
                                 /\ rows[u].role = file[u].role
             /\ file[u] = None => u \notin Admins(rows)
  BY <1>1, <1>2 DEF IInv, SeenIsSynchronised, Agrees, Admins
<1>3. ASSUME NEW pw \in Pw, NEW role \in Role, CreateUser(u, pw, role)
      PROVE  IInv'
  <2> DEFINE entry == [pw |-> pw, role |-> role]
             row == [pw |-> pw, role |-> role, active |-> TRUE]
  <2>1. /\ entry \in Entry /\ row \in Row /\ row.pw = entry.pw /\ row.role = entry.role /\ row.active
    BY DEF Entry, Row
  <2>2. file[u] = None /\ StartUpdate(u, entry, row, {u}) /\ step = "idle" /\ seen
    BY <1>3 DEF CreateUser, StartUpdate, LockFree
  <2>3. u \notin Admins(rows)
    BY <1>2, <2>2
  <2> HIDE DEF entry, row
  <2> QED
    BY <2>1, <2>2, <2>3, StartUpdateStep
<1>4. ASSUME NEW pw \in Pw, ChangePassword(u, pw)
      PROVE  IInv'
  <2> DEFINE entry == [file[u] EXCEPT !.pw = pw]
             row == [rows[u] EXCEPT !.pw = pw]
  <2>1. file[u] # None /\ StartUpdate(u, entry, row, {u}) /\ step = "idle" /\ seen
    BY <1>4 DEF ChangePassword, StartUpdate, LockFree
  <2>2. /\ entry \in Entry /\ row \in Row /\ row.pw = entry.pw /\ row.role = entry.role
        /\ row.active = rows[u].active /\ entry.role = rows[u].role
    BY <1>2, <2>1 DEF Entry, Row
  <2>3. u \in Admins(rows) => entry.role = "admin"
    BY <2>2 DEF Admins
  <2> HIDE DEF entry, row
  <2> QED
    BY <1>2, <2>1, <2>2, <2>3, StartUpdateStep
<1>5. ASSUME NEW role \in Role, ChangeRole(u, role)
      PROVE  IInv'
  <2> DEFINE entry == [file[u] EXCEPT !.role = role]
             row == [rows[u] EXCEPT !.role = role]
  <2>1. /\ file[u] # None /\ StartUpdate(u, entry, row, {}) /\ step = "idle" /\ seen
        /\ AdminRemains(u, role, rows[u].active)
    BY <1>5 DEF ChangeRole, StartUpdate, LockFree
  <2>2. /\ entry \in Entry /\ row \in Row /\ row.pw = entry.pw /\ row.role = entry.role
        /\ row.active = rows[u].active /\ entry.role = role /\ row.pw = rows[u].pw
    BY <1>2, <2>1 DEF Entry, Row
  <2>3. u \in Admins(rows) => entry.role = "admin" \/ \E v \in Admins(rows) : v # u
    BY <2>1, <2>2, AnotherAdmin
  <2>4. {} \in SUBSET User /\ rows[u] # None
    BY <1>2, <2>1
  <2> HIDE DEF entry, row
  <2> QED
    BY <2>1, <2>2, <2>3, <2>4, StartUpdateStep
<1> QED
  BY <1>3, <1>4, <1>5

LEMMA SetActiveStep ==
    ASSUME IInv, NEW u \in User, NEW active \in BOOLEAN, SetActive(u, active)
    PROVE  IInv'
<1>1. /\ step = "idle" /\ seen /\ at = "idle" /\ rows[u] # None /\ rows[u] \in Row
      /\ active => file[u] # None
      /\ AdminRemains(u, rows[u].role, active)
      /\ UNCHANGED <<fileVars, memory, update, login, counters, owed>>
  BY DEF SetActive, LockFree, IInv, ReplacementIsOrderly, TypeOK
<1>2. /\ rows'[u] \in Row /\ rows'[u] # None /\ rows'[u].active = active
      /\ rows'[u].pw = rows[u].pw /\ rows'[u].role = rows[u].role
      /\ \A v \in User \ {u} : rows'[v] = rows[v]
      /\ rows' \in [User -> Row \cup {None}]
  <2>1. [rows[u] EXCEPT !.active = active] \in Row
    BY <1>1 DEF Row
  <2>2. rows' = [rows EXCEPT ![u] = [rows[u] EXCEPT !.active = active]]
    BY DEF SetActive
  <2> QED
    BY <1>1, <2>1, <2>2, NoneAssumption DEF NoneAssumption, IInv, TypeOK, Row
<1>3. /\ Active(rows', u) <=> active
      /\ \A v \in User \ {u} : Active(rows', v) <=> Active(rows, v)
  BY <1>2 DEF Active
<1>4. /\ \A v \in User : /\ sessions'[v] = IF v = u /\ ~active THEN {} ELSE sessions[v]
                         /\ late'[v] = IF v = u /\ ~active THEN {} ELSE late[v]
                         /\ v \in excused' <=> (v \in excused \/ v = u) /\ ~Active(rows', v)
      /\ sessions' \in [User -> SUBSET Pw] /\ late' \in [User -> SUBSET Pw] /\ excused' \subseteq User
  BY DEF SetActive, Histories, IInv, TypeOK
<1>5. Agrees(rows, file) /\ Excuses(rows, file)
  BY <1>1 DEF IInv, SeenIsSynchronised
<1>6. PasswordFile!FileTypeOK' /\ ReplacementIsOrderly' /\ ReportIsHonest' /\ OldCopyIsKept'
  BY <1>1, FileUntouched DEF fileVars, update, IInv, TypeOK, PasswordFile!FileTypeOK
<1>7. TypeOK'
  BY <1>1, <1>2, <1>4, <1>6 DEF IInv, TypeOK, memory, update, counters
<1>8. SeenIsSynchronised'
  <2>1. Agrees(rows', file)
    BY <1>1, <1>2, <1>3, <1>5 DEF Agrees
  <2>2. Excuses(rows, file)'
    BY <1>1, <1>3, <1>4, <1>5 DEF Excuses, fileVars
  <2> QED
    BY <1>1, <2>1, <2>2 DEF SeenIsSynchronised, fileVars
<1>9. InactiveIsExplained'
  <2>1. ASSUME NEW v \in User \ {u}, Inactive(rows', v)
        PROVE  v \in excused' \/ (names' # None /\ v \notin names')
    BY <1>1, <1>2, <1>3, <1>4, <2>1 DEF IInv, InactiveIsExplained, Inactive, Active, memory
  <2>2. ASSUME Inactive(rows', u)
        PROVE  u \in excused'
    BY <1>3, <1>4, <2>2 DEF Inactive, Active
  <2> QED
    BY <2>1, <2>2 DEF InactiveIsExplained
<1>10. SessionsAreCurrent'
  <2> SUFFICES ASSUME NEW v \in User
               PROVE  sessions'[v] \ late'[v] \subseteq IF Active(rows', v) THEN {rows'[v].pw} ELSE {}
    BY DEF SessionsAreCurrent, Active
  <2>1. sessions[v] \ late[v] \subseteq IF Active(rows, v) THEN {rows[v].pw} ELSE {}
    BY DEF IInv, SessionsAreCurrent
  <2>2. CASE v # u
    BY <1>2, <1>3, <1>4, <2>1, <2>2
  <2>3. CASE v = u /\ active
    BY <1>2, <1>3, <1>4, <2>1, <2>3
  <2>4. CASE v = u /\ ~active
    BY <1>3, <1>4, <2>4
  <2> QED
    BY <2>2, <2>3, <2>4
<1>11. owed' => Keeps(file', rows')
  <2> SUFFICES ASSUME owed
               PROVE  Keeps(file, rows')
    BY <1>1 DEF fileVars
  <2>1. PICK v \in User : /\ file[v] # None /\ file[v].role = "admin"
                          /\ rows[v] = None \/ rows[v].active
    BY DEF IInv, AdminRemainsEverywhere, Keeps
  <2>2. Active(rows, v) /\ rows[v].role = "admin"
    BY <1>5, <2>1 DEF Agrees, Active
  <2>3. CASE v # u
    BY <1>2, <2>1, <2>3 DEF Keeps
  <2>4. CASE v = u /\ active
    BY <1>2, <2>1, <2>4 DEF Keeps
  <2>5. CASE v = u /\ ~active
    <3>1. PICK w \in Admins(rows) : w # u
      BY <1>1, <2>2, <2>5, AnotherAdmin DEF Admins
    <3>2. /\ w \in User /\ Active(rows, w) /\ file[w] # None /\ file[w].role = "admin"
      BY <1>5, <3>1 DEF Admins, Agrees, Active
    <3> QED
      BY <1>2, <3>1, <3>2 DEF Keeps, Active
  <2> QED
    BY <2>3, <2>4, <2>5
<1>12. step' = "idle" /\ at' = "idle"
  BY <1>1 DEF update, fileVars
<1>13. UpdateIsConsistent' /\ AdminRemainsEverywhere'
  BY <1>11, <1>12, Resting
<1> QED
  BY <1>6, <1>7, <1>8, <1>9, <1>10, <1>13 DEF IInv

LEMMA ReplaceFileStep ==
    ASSUME IInv, ReplaceFile
    PROVE  IInv'
<1>1. /\ step \in {"write", "restore"} /\ step' = step /\ PasswordFile!FileStep
      /\ seen' = (seen /\ file' = file)
      /\ UNCHANGED <<rows, sessions, names, draft, revoke, original, login,
                     updates, logins, edits, kills, owed, late, excused>>
  BY DEF ReplaceFile, update, counters, history
<1>2. /\ PasswordFile!FileTypeOK' /\ ReplacementIsOrderly' /\ ReportIsHonest' /\ OldCopyIsKept'
      /\ goal' = goal /\ at # "idle" /\ at' # "idle"
      /\ file' = file \/ file' = goal \/ (at = "restoring" /\ file' = before)
      /\ \/ before' = file
         \/ /\ before' = before
            /\ at' \in {"temp", "replace", "sync", "restore", "restoring", "resync"} =>
                 at \in {"temp", "replace", "sync", "restore", "restoring", "resync"}
  BY <1>1, FileSteps DEF IInv, TypeOK
<1>3. TypeOK'
  BY <1>1, <1>2 DEF IInv, TypeOK
<1>4. SeenIsSynchronised' /\ InactiveIsExplained' /\ SessionsAreCurrent'
  BY <1>1 DEF IInv, SeenIsSynchronised, InactiveIsExplained, SessionsAreCurrent, Active, Inactive
<1>5. UpdateIsConsistent'
  BY <1>1, <1>2 DEF IInv, UpdateIsConsistent, Agrees, Excuses, Active, Inactive
<1>6. AdminRemainsEverywhere'
  <2> SUFFICES ASSUME owed, NEW table \in {rows} \cup (IF step \in {"write", "commit"} THEN {draft} ELSE {})
               PROVE  /\ Keeps(file', table) /\ Keeps(original, table) /\ Keeps(goal, table)
                      /\ at' \in {"temp", "replace", "sync", "restore", "restoring", "resync"} =>
                           Keeps(before', table)
    BY <1>1, <1>2 DEF AdminRemainsEverywhere
  <2>1. /\ Keeps(file, table) /\ Keeps(original, table) /\ Keeps(goal, table)
        /\ at \in {"temp", "replace", "sync", "restore", "restoring", "resync"} => Keeps(before, table)
    BY <1>1, <1>2 DEF IInv, AdminRemainsEverywhere
  <2> QED
    BY <1>2, <2>1
<1> QED
  BY <1>2, <1>3, <1>4, <1>5, <1>6 DEF IInv

LEMMA WrittenStep ==
    ASSUME IInv, Written
    PROVE  IInv'
<1>1. /\ step = "write" /\ at = "done" /\ at' = "idle" /\ goal' = file
      /\ state' = "not_replaced" /\ raised' = FALSE
      /\ before' = IF backup = None THEN file ELSE before
      /\ UNCHANGED <<file, durable, backup, faults, rows, sessions, memory, login, counters, history>>
  BY DEF Written, PasswordFile!Return
<1>2. PasswordFile!FileTypeOK' /\ ReplacementIsOrderly' /\ ReportIsHonest' /\ OldCopyIsKept'
  <2>1. step' \in {"idle", "commit", "recover"}
    BY DEF Written, EndUpdate
  <2>2. backup = None => durable
    BY NoneAssumption DEF NoneAssumption, IInv, OldCopyIsKept, PasswordFile!OldCopyIsKept,
                          TypeOK, PasswordFile!FileTypeOK
  <2> QED
    BY <1>1, <2>1, <2>2
       DEF IInv, TypeOK, PasswordFile!FileTypeOK, PasswordFile!At, PasswordFile!UpdateState,
           ReplacementIsOrderly, ReportIsHonest, PasswordFile!ReportIsHonest,
           OldCopyIsKept, PasswordFile!OldCopyIsKept
<1>3. /\ Agrees(rows, original) /\ Excuses(rows, original)
      /\ Agrees(draft, goal) /\ Excuses(draft, goal)
      /\ seen => file = original
  BY <1>1 DEF IInv, UpdateIsConsistent
<1>4. owed => Keeps(file, rows)
  BY DEF IInv, AdminRemainsEverywhere
<1>5. InactiveIsExplained' /\ SessionsAreCurrent'
  BY <1>1 DEF IInv, InactiveIsExplained, SessionsAreCurrent, Active, Inactive, memory, history
<1>6. CASE step' \in {"commit", "recover"} /\ UNCHANGED <<draft, revoke, original>>
  <2>1. TypeOK'
    BY <1>1, <1>2, <1>6 DEF IInv, TypeOK, memory, counters, history, Step
  <2>2. SeenIsSynchronised'
    BY <1>6 DEF SeenIsSynchronised
  <2>3. step' = "commit" => file = goal
    BY <1>1 DEF Written, EndUpdate, IInv, ReportIsHonest, PasswordFile!ReportIsHonest, PasswordFile!Attempted
  <2>4. UpdateIsConsistent'
    BY <1>1, <1>3, <1>6, <2>3 DEF IInv, UpdateIsConsistent, Agrees, Excuses, Active, Inactive, history
  <2>5. AdminRemainsEverywhere'
    BY <1>1, <1>6 DEF IInv, AdminRemainsEverywhere, history
  <2> QED
    BY <1>2, <1>5, <2>1, <2>2, <2>4, <2>5 DEF IInv
<1>7. CASE EndUpdate
  <2>1. TypeOK'
    BY <1>1, <1>2, <1>7 DEF IInv, TypeOK, memory, counters, history, Step, EndUpdate, Entries
  <2>2. SeenIsSynchronised'
    BY <1>1, <1>3 DEF SeenIsSynchronised, Agrees, Excuses, Active, memory, history
  <2>3. owed' => Keeps(file', rows')
    BY <1>1, <1>4 DEF history
  <2>4. UpdateIsConsistent' /\ AdminRemainsEverywhere'
    BY <1>1, <1>7, <2>3, Resting DEF EndUpdate
  <2> QED
    BY <1>2, <1>5, <2>1, <2>2, <2>4 DEF IInv
<1> QED
  BY <1>6, <1>7 DEF Written

LEMMA CommitStep ==
    ASSUME IInv, Commit
    PROVE  IInv'
<1>1. /\ step = "commit" /\ step' \in {"record", "recover"} /\ at = "idle"
      /\ UNCHANGED <<file, durable, backup, before, goal, at, state, raised,
                     memory, draft, revoke, original, login, counters, owed>>
      /\ faults' \in 0..MaxFaults
  BY AdminAssumption DEF AdminAssumption, Commit, PasswordFile!Fault, fileVars, IInv, ReplacementIsOrderly,
         TypeOK, PasswordFile!FileTypeOK
<1>2. PasswordFile!FileTypeOK' /\ ReplacementIsOrderly' /\ ReportIsHonest' /\ OldCopyIsKept'
  BY <1>1, FileUntouched
<1>3. SeenIsSynchronised'
  BY <1>1 DEF SeenIsSynchronised
<1>4. CASE step' = "recover" /\ UNCHANGED <<rows, sessions, late, excused>>
  <2>1. TypeOK'
    BY <1>1, <1>2, <1>4 DEF IInv, TypeOK, memory, counters, Step
  <2>2. InactiveIsExplained' /\ SessionsAreCurrent'
    BY <1>1, <1>4 DEF IInv, InactiveIsExplained, SessionsAreCurrent, Active, Inactive, memory
  <2>3. UpdateIsConsistent'
    BY <1>1, <1>4 DEF IInv, UpdateIsConsistent, Inactive
  <2>4. AdminRemainsEverywhere'
    BY <1>1, <1>4 DEF IInv, AdminRemainsEverywhere
  <2> QED
    BY <1>2, <1>3, <2>1, <2>2, <2>3, <2>4 DEF IInv
<1>5. CASE /\ step' = "record" /\ rows' = draft
           /\ sessions' = [u \in User |-> IF u \in revoke THEN {} ELSE sessions[u]]
           /\ Histories(rows', revoke, {})
  <2>1. /\ \A u \in User : /\ sessions'[u] = IF u \in revoke THEN {} ELSE sessions[u]
                           /\ late'[u] = IF u \in revoke THEN {} ELSE late[u]
                           /\ u \in excused' <=> (u \in excused /\ ~Active(rows', u))
        /\ sessions' \in [User -> SUBSET Pw] /\ late' \in [User -> SUBSET Pw] /\ excused' \subseteq User
    BY <1>5 DEF Histories, IInv, TypeOK
  <2>2. TypeOK'
    BY <1>1, <1>2, <1>5, <2>1 DEF IInv, TypeOK, memory, counters, Step
  <2>3. \A u \in User :
          /\ Inactive(rows', u) => Inactive(rows, u) /\ ~Active(rows', u)
          /\ u \notin revoke /\ Active(rows, u) => Active(rows', u) /\ rows'[u].pw = rows[u].pw
    BY <1>1, <1>5 DEF IInv, UpdateIsConsistent, Active, Inactive
  <2>4. InactiveIsExplained'
    BY <1>1, <2>1, <2>3 DEF IInv, InactiveIsExplained, Inactive, memory
  <2>5. SessionsAreCurrent'
    BY <2>1, <2>3 DEF IInv, SessionsAreCurrent
  <2>6. UpdateIsConsistent'
    <3>1. Agrees(rows', file') /\ Excuses(rows, file)'
      BY <1>1, <1>5, <2>1 DEF IInv, UpdateIsConsistent, Excuses
    <3>2. \A u \in User : Inactive(rows', u) /\ original'[u] # None => u \in excused'
      BY <1>1, <2>1, <2>3 DEF IInv, UpdateIsConsistent
    <3> QED
      BY <1>5, <3>1, <3>2 DEF UpdateIsConsistent, Inactive
  <2>7. AdminRemainsEverywhere'
    BY <1>1, <1>5 DEF IInv, AdminRemainsEverywhere
  <2> QED
    BY <1>2, <1>3, <2>2, <2>4, <2>5, <2>6, <2>7 DEF IInv
<1> QED
  BY <1>4, <1>5 DEF Commit

LEMMA RecordStep ==
    ASSUME IInv, Record
    PROVE  IInv'
<1>1. /\ step = "record" /\ step' \in {"idle", "recover"} /\ at = "idle"
      /\ UNCHANGED <<file, durable, backup, before, goal, at, state, raised,
                     rows, sessions, login, counters, late, excused>>
      /\ faults' \in 0..MaxFaults
  BY AdminAssumption DEF AdminAssumption, Record, EndUpdate, PasswordFile!Fault, fileVars, IInv,
         ReplacementIsOrderly, TypeOK, PasswordFile!FileTypeOK
<1>2. PasswordFile!FileTypeOK' /\ ReplacementIsOrderly' /\ ReportIsHonest' /\ OldCopyIsKept'
  BY <1>1, FileUntouched
<1>3. SessionsAreCurrent'
  BY <1>1 DEF IInv, SessionsAreCurrent, Active
<1>4. Agrees(rows, file) /\ Excuses(rows, file)
  BY <1>1 DEF IInv, UpdateIsConsistent
<1>5. CASE step' = "recover" /\ UNCHANGED <<memory, draft, revoke, original, owed>>
  <2>1. TypeOK'
    BY <1>1, <1>2, <1>5 DEF IInv, TypeOK, memory, counters, Step
  <2>2. InactiveIsExplained' /\ SeenIsSynchronised'
    BY <1>1, <1>5 DEF IInv, InactiveIsExplained, SeenIsSynchronised, Inactive, memory
  <2>3. UpdateIsConsistent'
    BY <1>1, <1>5 DEF IInv, UpdateIsConsistent, Inactive
  <2>4. AdminRemainsEverywhere'
    BY <1>1, <1>5 DEF IInv, AdminRemainsEverywhere
  <2> QED
    BY <1>2, <1>3, <2>1, <2>2, <2>3, <2>4 DEF IInv
<1>6. CASE seen' = TRUE /\ names' = Named(file) /\ owed' = (owed \/ Admins(rows) # {}) /\ EndUpdate
  <2>1. TypeOK'
    BY <1>1, <1>2, <1>6 DEF IInv, TypeOK, counters, Step, EndUpdate, Entries, Named
  <2>2. SeenIsSynchronised'
    BY <1>1, <1>4 DEF SeenIsSynchronised, Agrees, Excuses, Active
  <2>3. InactiveIsExplained'
    <3>1. Named(file) # None /\ \A u \in User : u \in Named(file) <=> file[u] # None
      BY NoneAssumption DEF NoneAssumption, Named
    <3> QED
      BY <1>1, <1>4, <1>6, <3>1 DEF InactiveIsExplained, Excuses, Inactive, Active
  <2>4. owed' => Keeps(file', rows')
    <3>1. CASE owed
      BY <1>1, <3>1 DEF IInv, AdminRemainsEverywhere
    <3>2. CASE Admins(rows) # {}
      <4>1. PICK u \in User : Active(rows, u) /\ rows[u].role = "admin"
        BY <3>2 DEF Admins
      <4> QED
        BY <1>1, <1>4, <4>1 DEF Agrees, Keeps, Active
    <3> QED
      BY <1>6, <3>1, <3>2
  <2>5. UpdateIsConsistent' /\ AdminRemainsEverywhere'
    BY <1>1, <1>6, <2>4, Resting DEF EndUpdate
  <2> QED
    BY <1>2, <1>3, <2>1, <2>2, <2>3, <2>5 DEF IInv
<1> QED
  BY <1>5, <1>6 DEF Record

LEMMA CompensateStep ==
    ASSUME IInv, Compensate
    PROVE  IInv'
<1>1. /\ step = "recover" /\ step' = "restore" /\ at = "idle" /\ at' = "backup" /\ goal' = original
      /\ state' = "not_replaced" /\ raised' = FALSE
      /\ UNCHANGED <<file, durable, backup, before, faults, rows, sessions, memory, draft, revoke,
                     original, login, counters, history>>
  BY DEF Compensate, PasswordFile!Begin
<1>2. PasswordFile!FileTypeOK' /\ ReplacementIsOrderly' /\ ReportIsHonest' /\ OldCopyIsKept'
  BY <1>1 DEF IInv, TypeOK, PasswordFile!FileTypeOK, PasswordFile!At, PasswordFile!UpdateState,
       ReplacementIsOrderly, ReportIsHonest, PasswordFile!ReportIsHonest,
       OldCopyIsKept, PasswordFile!OldCopyIsKept
<1>3. TypeOK'
  BY <1>1, <1>2 DEF IInv, TypeOK, memory, counters, history, Step
<1>4. SeenIsSynchronised' /\ InactiveIsExplained' /\ SessionsAreCurrent'
  BY <1>1 DEF IInv, SeenIsSynchronised, InactiveIsExplained, SessionsAreCurrent, Active, Inactive,
              memory, history
<1>5. UpdateIsConsistent'
  BY <1>1 DEF IInv, UpdateIsConsistent, Inactive, history
<1>6. AdminRemainsEverywhere'
  BY <1>1 DEF IInv, AdminRemainsEverywhere, history
<1> QED
  BY <1>2, <1>3, <1>4, <1>5, <1>6 DEF IInv

LEMMA RestoredStep ==
    ASSUME IInv, Restored
    PROVE  IInv'
<1>1. /\ step = "restore" /\ step' \in {"final", "note"} /\ at = "done" /\ at' = "idle" /\ goal' = file
      /\ state' = "not_replaced" /\ raised' = FALSE
      /\ before' = IF backup = None THEN file ELSE before
      /\ UNCHANGED <<file, durable, backup, faults, rows, sessions, memory, draft, revoke, original,
                     login, counters, history>>
  BY DEF Restored, PasswordFile!Return
<1>2. PasswordFile!FileTypeOK' /\ ReplacementIsOrderly' /\ ReportIsHonest' /\ OldCopyIsKept'
  <2>1. backup = None => durable
    BY NoneAssumption DEF NoneAssumption, IInv, OldCopyIsKept, PasswordFile!OldCopyIsKept,
                          TypeOK, PasswordFile!FileTypeOK
  <2> QED
    BY <1>1, <2>1
       DEF IInv, TypeOK, PasswordFile!FileTypeOK, PasswordFile!At, PasswordFile!UpdateState,
           ReplacementIsOrderly, ReportIsHonest, PasswordFile!ReportIsHonest,
           OldCopyIsKept, PasswordFile!OldCopyIsKept
<1>3. TypeOK'
  BY <1>1, <1>2 DEF IInv, TypeOK, memory, counters, history, Step
<1>4. SeenIsSynchronised' /\ InactiveIsExplained' /\ SessionsAreCurrent'
  BY <1>1 DEF IInv, SeenIsSynchronised, InactiveIsExplained, SessionsAreCurrent, Active, Inactive,
              memory, history
<1>5. UpdateIsConsistent'
  BY <1>1 DEF IInv, UpdateIsConsistent, Inactive, history
<1>6. AdminRemainsEverywhere'
  BY <1>1 DEF IInv, AdminRemainsEverywhere, history
<1> QED
  BY <1>2, <1>3, <1>4, <1>5, <1>6 DEF IInv

LEMMA NoteOriginalStep ==
    ASSUME IInv, NoteOriginal
    PROVE  IInv'
<1>1. /\ step = "note" /\ step' = "final" /\ at = "idle"
      /\ UNCHANGED <<file, durable, backup, before, goal, at, state, raised,
                     rows, sessions, draft, revoke, original, login, counters, history>>
      /\ faults' \in 0..MaxFaults
      /\ \/ seen' = TRUE /\ names' = Named(original)
         \/ UNCHANGED memory
  BY AdminAssumption DEF AdminAssumption, NoteOriginal, PasswordFile!Fault, fileVars, IInv,
         ReplacementIsOrderly, TypeOK, PasswordFile!FileTypeOK
<1>2. PasswordFile!FileTypeOK' /\ ReplacementIsOrderly' /\ ReportIsHonest' /\ OldCopyIsKept'
  BY <1>1, FileUntouched
<1>3. TypeOK'
  BY <1>1, <1>2 DEF IInv, TypeOK, memory, counters, history, Step, Named
<1>4. InactiveIsExplained'
  <2>1. Named(original) # None /\ \A u \in User : u \in Named(original) <=> original[u] # None
    BY NoneAssumption DEF NoneAssumption, Named
  <2> QED
    BY <1>1, <2>1 DEF IInv, InactiveIsExplained, UpdateIsConsistent, Inactive, memory, history
<1>5. SeenIsSynchronised' /\ SessionsAreCurrent'
  BY <1>1 DEF IInv, SeenIsSynchronised, SessionsAreCurrent, Active, history
<1>6. UpdateIsConsistent'
  BY <1>1 DEF IInv, UpdateIsConsistent, Inactive, history
<1>7. AdminRemainsEverywhere'
  BY <1>1 DEF IInv, AdminRemainsEverywhere, history
<1> QED
  BY <1>2, <1>3, <1>4, <1>5, <1>6, <1>7 DEF IInv

LEMMA FinalSyncStep ==
    ASSUME IInv, FinalSync
    PROVE  IInv'
<1>1. /\ step = "final" /\ step' = "idle" /\ at = "idle" /\ EndUpdate
      /\ UNCHANGED <<file, durable, backup, before, goal, at, state, raised, login, counters>>
      /\ faults' \in 0..MaxFaults
  BY AdminAssumption DEF AdminAssumption, FinalSync, EndUpdate, PasswordFile!Fault, fileVars, IInv,
         ReplacementIsOrderly, TypeOK, PasswordFile!FileTypeOK
<1>2. PasswordFile!FileTypeOK' /\ ReplacementIsOrderly' /\ ReportIsHonest' /\ OldCopyIsKept'
  BY <1>1, FileUntouched
<1>3. owed => Keeps(file, rows)
  BY DEF IInv, AdminRemainsEverywhere
<1>4. CASE Synchronise
  <2>1. TypeOK'
    BY <1>1, <1>2, <1>3, <1>4, Synchronised DEF IInv, TypeOK, counters, EndUpdate, Step, Entries
  <2>2. SeenIsSynchronised' /\ InactiveIsExplained' /\ SessionsAreCurrent'
    BY <1>1, <1>3, <1>4, Synchronised DEF IInv, SeenIsSynchronised
  <2>3. UpdateIsConsistent' /\ AdminRemainsEverywhere'
    BY <1>1, <1>3, <1>4, Synchronised, Resting DEF IInv
  <2> QED
    BY <1>2, <2>1, <2>2, <2>3 DEF IInv
<1>5. CASE seen' = FALSE /\ UNCHANGED <<rows, sessions, names, history>>
  <2>1. TypeOK'
    BY <1>1, <1>2, <1>5 DEF IInv, TypeOK, counters, history, EndUpdate, Step, Entries
  <2>2. SeenIsSynchronised' /\ InactiveIsExplained' /\ SessionsAreCurrent'
    BY <1>5 DEF IInv, SeenIsSynchronised, InactiveIsExplained, SessionsAreCurrent, Active, Inactive,
                history
  <2>3. owed' => Keeps(file', rows')
    BY <1>1, <1>3, <1>5 DEF history
  <2>4. UpdateIsConsistent' /\ AdminRemainsEverywhere'
    BY <1>1, <2>3, Resting
  <2> QED
    BY <1>2, <2>1, <2>2, <2>4 DEF IInv
<1> QED
  BY <1>4, <1>5 DEF FinalSync

(* Logins leave the file and the update alone.                             *)
LEMMA LoginSteps ==
    ASSUME IInv, LoginStores \/ \E u \in User : LoginVerifies(u) \/ Logout(u)
    PROVE  IInv'
<1>1. UNCHANGED <<fileVars, rows, memory, update, updates, edits, kills, owed, excused>>
  BY DEF LoginStores, LoginVerifies, Logout, counters, history
<1>2. PasswordFile!FileTypeOK' /\ ReplacementIsOrderly' /\ ReportIsHonest' /\ OldCopyIsKept'
  BY <1>1, FileUntouched DEF fileVars, update, IInv, TypeOK, PasswordFile!FileTypeOK
<1>3. /\ sessions' \in [User -> SUBSET Pw] /\ late' \in [User -> SUBSET Pw]
      /\ login' \in [user: User, pw: Pw] \cup {None} /\ logins' \in 0..MaxLogins
      /\ SessionsAreCurrent'
  <2>1. ASSUME NEW u \in User, LoginVerifies(u)
        PROVE  /\ login' \in [user: User, pw: Pw] /\ logins' \in 0..MaxLogins
               /\ UNCHANGED <<sessions, late>>
    BY <2>1, AdminAssumption DEF AdminAssumption, LoginVerifies, Active, history, IInv, TypeOK, Row
  <2>2. ASSUME NEW u \in User, Logout(u)
        PROVE  /\ sessions' \in [User -> SUBSET Pw] /\ late' \in [User -> SUBSET Pw]
               /\ UNCHANGED <<login, logins>> /\ SessionsAreCurrent'
    <3>1. PICK pw \in sessions[u] : /\ sessions' = [sessions EXCEPT ![u] = @ \ {pw}]
                                    /\ late' = [late EXCEPT ![u] = @ \ {pw}]
      BY <2>2 DEF Logout
    <3>2. /\ sessions' \in [User -> SUBSET Pw] /\ late' \in [User -> SUBSET Pw]
          /\ UNCHANGED <<login, logins>>
      BY <2>2, <3>1 DEF Logout, counters, IInv, TypeOK
    <3>3. \A v \in User : sessions'[v] \ late'[v] \subseteq sessions[v] \ late[v]
      BY <3>1 DEF IInv, TypeOK
    <3> QED
      BY <1>1, <3>2, <3>3 DEF IInv, SessionsAreCurrent, Active
  <2>3. ASSUME LoginStores
        PROVE  /\ sessions' \in [User -> SUBSET Pw] /\ late' \in [User -> SUBSET Pw]
               /\ login' = None /\ UNCHANGED logins /\ SessionsAreCurrent'
    <3> DEFINE u == login.user
    <3>1. /\ u \in User /\ login.pw \in Pw
          /\ sessions' = [sessions EXCEPT ![u] = @ \cup {login.pw}]
          /\ late' = IF ~Active(rows, u) \/ rows[u].pw # login.pw
                     THEN [late EXCEPT ![u] = @ \cup {login.pw}] ELSE late
          /\ login' = None /\ UNCHANGED logins
      BY <2>3 DEF LoginStores, IInv, TypeOK, counters
    <3> HIDE DEF u
    <3>2. sessions' \in [User -> SUBSET Pw] /\ late' \in [User -> SUBSET Pw]
      BY <3>1 DEF IInv, TypeOK
    <3>3. \A v \in User \ {u} : sessions'[v] = sessions[v] /\ late'[v] = late[v]
      BY <3>1 DEF IInv, TypeOK
    <3>4. sessions'[u] = sessions[u] \cup {login.pw}
      BY <3>1 DEF IInv, TypeOK
    <3>5. sessions[u] \ late[u] \subseteq IF Active(rows, u) THEN {rows[u].pw} ELSE {}
      BY <3>1 DEF IInv, SessionsAreCurrent
    <3>6. sessions'[u] \ late'[u] \subseteq IF Active(rows, u) THEN {rows[u].pw} ELSE {}
      <4>1. CASE ~Active(rows, u) \/ rows[u].pw # login.pw
        <5>1. late'[u] = late[u] \cup {login.pw}
          BY <3>1, <4>1 DEF IInv, TypeOK
        <5> QED
          BY <3>4, <3>5, <5>1
      <4>2. CASE Active(rows, u) /\ rows[u].pw = login.pw
        <5>1. late'[u] = late[u]
          BY <3>1, <4>2
        <5> QED
          BY <3>4, <3>5, <4>2, <5>1
      <4> QED
        BY <4>1, <4>2
    <3> QED
      BY <1>1, <3>1, <3>2, <3>3, <3>6 DEF IInv, SessionsAreCurrent, Active
  <2> QED
    BY <1>1, <2>1, <2>2, <2>3 DEF IInv, TypeOK, SessionsAreCurrent, Active
<1>4. TypeOK'
  BY <1>1, <1>2, <1>3 DEF IInv, TypeOK, memory, update
<1>5. SeenIsSynchronised' /\ InactiveIsExplained'
  BY <1>1 DEF IInv, SeenIsSynchronised, InactiveIsExplained, Agrees, Excuses, Active, Inactive,
              memory, update, fileVars
<1>6. UpdateIsConsistent'
  BY <1>1 DEF IInv, UpdateIsConsistent, Agrees, Excuses, Active, Inactive, memory, update, fileVars
<1>7. AdminRemainsEverywhere'
  BY <1>1 DEF IInv, AdminRemainsEverywhere, Keeps, update, fileVars
<1> QED
  BY <1>2, <1>3, <1>4, <1>5, <1>6, <1>7 DEF IInv

LEMMA EditByHandStep ==
    ASSUME IInv, NEW u \in User, NEW entry \in Entry \cup {None}, EditByHand(u, entry)
    PROVE  IInv'
<1>1. /\ step = "idle" /\ at = "idle" /\ state = "not_replaced" /\ ~raised
      /\ file' = [file EXCEPT ![u] = entry] /\ goal' = file' /\ seen' = FALSE /\ owed' = FALSE
      /\ edits' \in 0..MaxEdits
      /\ UNCHANGED <<durable, backup, before, at, state, raised, faults, rows, sessions,
                     names, update, login, updates, logins, kills, late, excused>>
  BY AdminAssumption DEF AdminAssumption, EditByHand, LockFree, IInv, ReplacementIsOrderly, TypeOK
<1>2. file' \in Entries
  BY <1>1 DEF IInv, TypeOK, PasswordFile!FileTypeOK, Entries
<1>3. TypeOK'
  BY <1>1, <1>2 DEF IInv, TypeOK, PasswordFile!FileTypeOK, update
<1>4. ReplacementIsOrderly' /\ ReportIsHonest' /\ OldCopyIsKept'
  BY <1>1 DEF IInv, ReplacementIsOrderly, ReportIsHonest, PasswordFile!ReportIsHonest,
              OldCopyIsKept, PasswordFile!OldCopyIsKept, update
<1>5. SeenIsSynchronised' /\ InactiveIsExplained' /\ SessionsAreCurrent'
  BY <1>1 DEF IInv, SeenIsSynchronised, InactiveIsExplained, SessionsAreCurrent, Active, Inactive
<1>6. UpdateIsConsistent' /\ AdminRemainsEverywhere'
  BY <1>1, Resting DEF update
<1> QED
  BY <1>3, <1>4, <1>5, <1>6 DEF IInv

LEMMA DieStep ==
    ASSUME IInv, Die
    PROVE  IInv'
<1>1. /\ step' = "idle" /\ at' = "idle" /\ goal' = file /\ state' = "not_replaced" /\ raised' = FALSE
      /\ seen' = FALSE /\ names' = None /\ login' = None
      /\ kills' \in 0..MaxKills
      /\ excused' = {u \in User : rows[u] # None /\ ~rows[u].active}
      /\ EndUpdate
      /\ UNCHANGED <<file, durable, backup, before, faults, rows, sessions, updates, logins, edits,
                     owed, late>>
  BY AdminAssumption DEF AdminAssumption, Die, EndUpdate, PasswordFile!FileDies, IInv, TypeOK
<1>2. PasswordFile!FileTypeOK' /\ ReplacementIsOrderly' /\ ReportIsHonest' /\ OldCopyIsKept'
  BY <1>1 DEF IInv, TypeOK, PasswordFile!FileTypeOK, PasswordFile!At, PasswordFile!UpdateState,
       ReplacementIsOrderly, ReportIsHonest, PasswordFile!ReportIsHonest,
       OldCopyIsKept, PasswordFile!OldCopyIsKept
<1>3. TypeOK'
  <2>1. /\ draft' \in [User -> Row \cup {None}] /\ original' \in Entries
        /\ revoke' \subseteq User /\ excused' \subseteq User /\ step' \in Step
    BY <1>1 DEF EndUpdate, Step, Entries
  <2>2. /\ rows' \in [User -> Row \cup {None}] /\ owed' \in BOOLEAN
        /\ sessions' \in [User -> SUBSET Pw] /\ late' \in [User -> SUBSET Pw]
        /\ seen' \in BOOLEAN /\ names' \in (SUBSET User) \cup {None}
        /\ login' \in [user: User, pw: Pw] \cup {None}
    <3>1. rows \in [User -> Row \cup {None}] /\ owed \in BOOLEAN
          /\ sessions \in [User -> SUBSET Pw] /\ late \in [User -> SUBSET Pw]
      BY DEF IInv, TypeOK
    <3>2. rows' = rows /\ owed' = owed /\ sessions' = sessions /\ late' = late
      BY <1>1
    <3>3. seen' = FALSE /\ names' = None /\ login' = None
      BY <1>1
    <3>4. seen' \in BOOLEAN
      BY <3>3
    <3>5. names' \in (SUBSET User) \cup {None}
      <4>1. names' \in {None}
        BY <3>3
      <4> QED
        BY <4>1
    <3>6. login' \in [user: User, pw: Pw] \cup {None}
      BY <3>3
    <3> QED
      BY <3>1, <3>2, <3>4, <3>5, <3>6
  <2>3. /\ updates' \in 0..MaxUpdates /\ logins' \in 0..MaxLogins
        /\ edits' \in 0..MaxEdits /\ kills' \in 0..MaxKills
    BY <1>1 DEF IInv, TypeOK
  <2> QED
    BY <1>2, <2>1, <2>2, <2>3 DEF TypeOK
<1>4. SeenIsSynchronised' /\ InactiveIsExplained' /\ SessionsAreCurrent'
  BY <1>1 DEF IInv, SeenIsSynchronised, InactiveIsExplained, SessionsAreCurrent, Active, Inactive
<1>5. owed' => Keeps(file', rows')
  BY <1>1 DEF IInv, AdminRemainsEverywhere, Keeps
<1>6. UpdateIsConsistent' /\ AdminRemainsEverywhere'
  BY <1>1, <1>5, Resting
<1> QED
  BY <1>2, <1>3, <1>4, <1>6 DEF IInv

-----------------------------------------------------------------------------
(* The invariant holds of every behaviour.                                 *)
LEMMA InitHolds == Init => IInv
<1> SUFFICES ASSUME Init
             PROVE  IInv
  OBVIOUS
<1>1. PICK u \in User, p \in Pw :
        file = [v \in User |-> IF v = u THEN [pw |-> p, role |-> "admin"] ELSE None]
  BY DEF Init
<1>2. file \in Entries
  BY <1>1 DEF Entries, Entry, Role
<1>3. TypeOK
  <2>1. PasswordFile!FileTypeOK
    <3>1. /\ before = file /\ goal = file /\ durable = TRUE /\ backup = None
          /\ at = "idle" /\ state = "not_replaced" /\ raised = FALSE /\ faults = 0
      BY DEF Init
    <3>2. faults \in 0..MaxFaults
      BY <3>1, AdminAssumption DEF AdminAssumption
    <3> QED
      BY <1>2, <3>1, <3>2 DEF PasswordFile!FileTypeOK, PasswordFile!At, PasswordFile!UpdateState
  <2>2. rows \in [User -> Row \cup {None}] /\ draft = rows
    BY DEF Init
  <2>3. sessions \in [User -> SUBSET Pw] /\ late = sessions
    BY DEF Init
  <2> QED
    <3>1. /\ seen = FALSE /\ names = None /\ step = "idle" /\ revoke = {} /\ original = file
          /\ login = None /\ owed = FALSE /\ excused = {}
      BY DEF Init
    <3>2. /\ updates \in 0..MaxUpdates /\ logins \in 0..MaxLogins
          /\ edits \in 0..MaxEdits /\ kills \in 0..MaxKills
      BY AdminAssumption DEF AdminAssumption, Init
    <3>3. /\ draft \in [User -> Row \cup {None}] /\ late \in [User -> SUBSET Pw]
          /\ original \in Entries /\ step \in Step /\ revoke \subseteq User /\ excused \subseteq User
      BY <1>2, <2>2, <2>3, <3>1 DEF Step
    <3>4. seen \in BOOLEAN /\ owed \in BOOLEAN
      BY <3>1
    <3>5. names \in (SUBSET User) \cup {None}
      <4>1. names \in {None}
        BY <3>1
      <4> QED
        BY <4>1
    <3>6. login \in [user: User, pw: Pw] \cup {None}
      BY <3>1
    <3> QED
      BY <2>1, <2>2, <2>3, <3>2, <3>3, <3>4, <3>5, <3>6 DEF TypeOK
<1>4. ReplacementIsOrderly /\ ReportIsHonest /\ OldCopyIsKept
  BY DEF Init, ReplacementIsOrderly, ReportIsHonest, PasswordFile!ReportIsHonest,
         OldCopyIsKept, PasswordFile!OldCopyIsKept
<1>5. SeenIsSynchronised /\ InactiveIsExplained /\ SessionsAreCurrent
  BY DEF Init, SeenIsSynchronised, InactiveIsExplained, SessionsAreCurrent, Active, Inactive
<1>6. UpdateIsConsistent /\ AdminRemainsEverywhere
  BY DEF Init, UpdateIsConsistent, AdminRemainsEverywhere
<1> QED
  BY <1>3, <1>4, <1>5, <1>6 DEF IInv

LEMMA StepHolds == IInv /\ [Next]_vars => IInv'
<1> SUFFICES ASSUME IInv, [Next]_vars
             PROVE  IInv'
  OBVIOUS
<1>1. CASE Administer
  BY <1>1, StartUpdateSteps, SetActiveStep DEF Administer
<1>2. CASE UNCHANGED vars
  <2>1. PasswordFile!FileTypeOK' /\ ReplacementIsOrderly' /\ ReportIsHonest' /\ OldCopyIsKept'
    BY <1>2, FileUntouched DEF vars, fileVars, update, IInv, TypeOK, PasswordFile!FileTypeOK
  <2>2. TypeOK' /\ SeenIsSynchronised' /\ InactiveIsExplained' /\ SessionsAreCurrent'
    BY <1>2, <2>1 DEF vars, fileVars, memory, update, counters, history, IInv, TypeOK,
       SeenIsSynchronised, InactiveIsExplained, SessionsAreCurrent, Agrees, Excuses, Active, Inactive
  <2>3. UpdateIsConsistent'
    BY <1>2 DEF vars, fileVars, memory, update, history, IInv, UpdateIsConsistent, Agrees, Excuses,
                Active, Inactive
  <2>4. AdminRemainsEverywhere'
    BY <1>2 DEF vars, fileVars, update, history, IInv, AdminRemainsEverywhere, Keeps
  <2> QED
    BY <2>1, <2>2, <2>3, <2>4 DEF IInv
<1> QED
  BY <1>1, <1>2, SyncIfChangedStep, ReplaceFileStep, WrittenStep, CommitStep, RecordStep,
     CompensateStep, RestoredStep, NoteOriginalStep, FinalSyncStep, LoginSteps, EditByHandStep, DieStep
     DEF Next

LEMMA Invariance == Spec => []IInv
BY InitHolds, StepHolds, PTL DEF Spec

(* The types of the file, of the table, of the sessions and of what the    *)
(* process remembers.                                                      *)
THEOREM TypesHold == Spec => []TypeOK
<1>1. IInv => TypeOK
  BY DEF IInv
<1> QED
  BY <1>1, Invariance, PTL

(* What replace_password_file_contents reports is so, whichever of its     *)
(* steps on the file system has failed.                                    *)
THEOREM ReportHolds == Spec => []ReportIsHonest
<1>1. IInv => ReportIsHonest
  BY DEF IInv
<1> QED
  BY <1>1, Invariance, PTL

(* A copy of the former contents is kept until the new ones are durable.   *)
THEOREM CopyIsKept == Spec => []OldCopyIsKept
<1>1. IInv => OldCopyIsKept
  BY DEF IInv
<1> QED
  BY <1>1, Invariance, PTL

(* The table agrees with the file for whoever believes to have seen it.    *)
THEOREM TableFollowsFile == Spec => []RowsFollowFile
<1>1. IInv => RowsFollowFile
  BY DEF IInv, SeenIsSynchronised, Agrees, RowsFollowFile, LockFree
<1> QED
  BY <1>1, Invariance, PTL

(* A user in the file is active unless somebody decided otherwise or the   *)
(* process has forgotten why he was not.                                   *)
THEOREM NamedUsersAreActive == Spec => []NamedIsActive
<1>1. IInv => NamedIsActive
  BY DEF IInv, SeenIsSynchronised, Excuses, NamedIsActive, LockFree
<1> QED
  BY <1>1, Invariance, PTL

(* Sessions are those of active users and their current passwords, but for *)
(* logins that were overtaken.                                             *)
THEOREM SessionsHold == Spec => []SessionsAreCurrent
<1>1. IInv => SessionsAreCurrent
  BY DEF IInv
<1> QED
  BY <1>1, Invariance, PTL

(* The last active administrator is never lost, for any number of users,   *)
(* updates, faults and deaths, except by an edit of the file by hand.      *)
THEOREM AdministratorRemains == Spec => []AdminIsKept
<1>1. IInv => AdminIsKept
  <2> SUFFICES ASSUME IInv, step = "idle", seen, owed
               PROVE  Admins(rows) # {}
    BY DEF AdminIsKept, LockFree
  <2>1. PICK u \in User : /\ file[u] # None /\ file[u].role = "admin"
                          /\ rows[u] = None \/ rows[u].active
    BY DEF IInv, AdminRemainsEverywhere, Keeps
  <2>2. u \in Admins(rows)
    BY <2>1 DEF IInv, SeenIsSynchronised, Agrees, Admins, Active
  <2> QED
    BY <2>2
<1> QED
  BY <1>1, Invariance, PTL

-----------------------------------------------------------------------------
(* LoginLimiter.                                                           *)

\* A set of natural numbers that is not empty has a least member.
LEMMA LeastIndex ==
  ASSUME NEW T \in SUBSET Nat, T # {}
  PROVE  \E m \in T : \A n \in T : m <= n
<1> DEFINE R == OpToRel(<, Nat)
<1>1. IsWellFoundedOn(R, Nat)
  BY NatLessThanWellFounded, Zenon
<1> HIDE DEF R
<1>2. PICK m \in T : \A n \in T : ~(<<n, m>> \in R)
  BY <1>1, WFMin
<1>3. ASSUME NEW n \in T
      PROVE  m <= n
  <2>1. ~(<<n, m>> \in R)
    BY <1>2
  <2>2. n \in Nat /\ m \in Nat
    OBVIOUS
  <2>3. ~(n < m)
    BY <2>1, <2>2 DEF R, OpToRel
  <2> QED
    BY <2>2, <2>3
<1> QED
  BY <1>3

\* What has expired at the front of a sequence is a number there is.
LEMMA ExpiredIs ==
  ASSUME NEW times \in Seq(Nat), NEW now \in Nat
  PROVE  /\ Expired(times, now) \in 0..Len(times)
         /\ \A i \in 1..Expired(times, now) : ~Recent(times[i], now)
         /\ Expired(times, now) < Len(times) => Recent(times[Expired(times, now) + 1], now)
<1> DEFINE P(n) == /\ \A i \in 1..n : ~Recent(times[i], now)
                   /\ n < Len(times) => Recent(times[n + 1], now)
           T == {i \in 1..Len(times) : Recent(times[i], now)}
<1>1. Len(times) \in Nat
  BY LenProperties
<1>2. \E n \in 0..Len(times) : P(n)
  <2>1. CASE T = {}
    <3>1. P(Len(times))
      BY <2>1, <1>1
    <3> QED BY <3>1, <1>1
  <2>2. CASE T # {}
    <3> HIDE DEF P
    <3>0. T \in SUBSET Nat
      BY <1>1
    <3>1. PICK m \in T : \A n \in T : m <= n
      <4> HIDE DEF T
      <4> QED BY <2>2, <3>0, LeastIndex
    <3>2. m \in 1..Len(times) /\ Recent(times[m], now)
      BY <3>1
    <3>3. \A i \in 1..(m - 1) : ~Recent(times[i], now)
      <4> TAKE i \in 1..(m - 1)
      <4>1. i \in 1..Len(times) /\ ~(m <= i)
        BY <3>2, <1>1
      <4> QED BY <4>1, <3>1
    <3>4. P(m - 1)
      BY <3>2, <3>3, <1>1 DEF P
    <3>5. m - 1 \in 0..Len(times)
      BY <3>2, <1>1
    <3> QED BY <3>4, <3>5
  <2> QED BY <2>1, <2>2
<1> HIDE DEF P
<1>3. Expired(times, now) = CHOOSE n \in 0..Len(times) : P(n)
  BY DEF Expired, P
<1>4. Expired(times, now) \in 0..Len(times) /\ P(Expired(times, now))
  BY <1>2, <1>3
<1> QED BY <1>4 DEF P

\* There is one such number.
LEMMA ExpiredIsOne ==
  ASSUME NEW times \in Seq(Nat), NEW now \in Nat, NEW n \in 0..Len(times),
         \A i \in 1..n : ~Recent(times[i], now),
         n < Len(times) => Recent(times[n + 1], now)
  PROVE  Expired(times, now) = n
<1> DEFINE m == Expired(times, now)
<1>1. Len(times) \in Nat
  BY LenProperties
<1>2. /\ m \in 0..Len(times)
      /\ \A i \in 1..m : ~Recent(times[i], now)
      /\ m < Len(times) => Recent(times[m + 1], now)
  BY ExpiredIs
<1> HIDE DEF m
<1>3. ~(m < n)
  <2> SUFFICES ASSUME m < n PROVE FALSE
    OBVIOUS
  <2>1. m + 1 \in 1..n /\ m < Len(times)
    BY <1>1, <1>2
  <2> QED BY <2>1, <1>2
<1>4. ~(n < m)
  <2> SUFFICES ASSUME n < m PROVE FALSE
    OBVIOUS
  <2>1. n + 1 \in 1..m /\ n < Len(times)
    BY <1>1, <1>2
  <2> QED BY <2>1, <1>2
<1>5. m = n
  BY <1>1, <1>2, <1>3, <1>4
<1> QED BY <1>5 DEF m

\* What is left is the end of the sequence.
LEMMA UnexpiredIs ==
  ASSUME NEW S \in SUBSET Nat, NEW times \in Seq(S), NEW now \in Nat
  PROVE  /\ Expired(times, now) \in 0..Len(times)
         /\ Len(times) \in Nat
         /\ Unexpired(times, now) \in Seq(S)
         /\ Len(Unexpired(times, now)) = Len(times) - Expired(times, now)
         /\ \A i \in 1..(Len(times) - Expired(times, now)) :
              Unexpired(times, now)[i] = times[i + Expired(times, now)]
<1> DEFINE n == Expired(times, now)
<1>1. times \in Seq(Nat)
  BY SeqMonotonic
<1>2. Len(times) \in Nat /\ n \in 0..Len(times)
  BY <1>1, ExpiredIs, LenProperties
<1> HIDE DEF n
<1>3. \A i \in (n + 1)..Len(times) : times[i] \in S
  BY <1>2, ElementOfSeq
<1>4. Unexpired(times, now) = SubSeq(times, n + 1, Len(times))
  BY DEF Unexpired, n
<1>5. /\ SubSeq(times, n + 1, Len(times)) \in Seq(S)
      /\ Len(SubSeq(times, n + 1, Len(times))) = IF n + 1 <= Len(times) THEN Len(times) - (n + 1) + 1 ELSE 0
      /\ \A i \in 1..(Len(times) - (n + 1) + 1) :
           SubSeq(times, n + 1, Len(times))[i] = times[(n + 1) + i - 1]
  BY <1>2, <1>3, SubSeqProperties
<1>6. Len(Unexpired(times, now)) = Len(times) - n
  BY <1>2, <1>4, <1>5
<1>7. \A i \in 1..(Len(times) - n) : Unexpired(times, now)[i] = times[i + n]
  <2> TAKE i \in 1..(Len(times) - n)
  <2>1. i \in 1..(Len(times) - (n + 1) + 1) /\ (n + 1) + i - 1 = i + n
    BY <1>2
  <2> QED BY <2>1, <1>4, <1>5
<1> QED BY <1>2, <1>4, <1>5, <1>6, <1>7 DEF n

\* What expires now and then later is what expires later.
LEMMA UnexpiredLater ==
  ASSUME NEW S \in SUBSET Nat, NEW times \in Seq(S), NEW now \in Nat, NEW later \in Nat, now <= later
  PROVE  /\ Unexpired(Unexpired(times, now), later) = Unexpired(times, later)
         /\ Len(Unexpired(times, later)) <= Len(Unexpired(times, now))
<1> DEFINE n == Expired(times, now)
           m == Expired(times, later)
           u == Unexpired(times, now)
<1>0. LimiterAssumption
  BY LimiterAssumption
<1>1. times \in Seq(Nat)
  BY SeqMonotonic
<1>2. /\ Len(times) \in Nat /\ n \in 0..Len(times) /\ m \in 0..Len(times)
      /\ \A i \in 1..n : ~Recent(times[i], now)
      /\ \A i \in 1..m : ~Recent(times[i], later)
      /\ m < Len(times) => Recent(times[m + 1], later)
  BY <1>1, ExpiredIs, LenProperties
<1>3. /\ u \in Seq(S) /\ Len(u) = Len(times) - n
      /\ \A i \in 1..(Len(times) - n) : u[i] = times[i + n]
  BY UnexpiredIs
<1>4. \A i \in 1..Len(times) : times[i] \in Nat
  BY <1>1, ElementOfSeq
<1>5. /\ Unexpired(times, later) \in Seq(S)
      /\ Len(Unexpired(times, later)) = Len(times) - m
      /\ \A i \in 1..(Len(times) - m) : Unexpired(times, later)[i] = times[i + m]
  BY UnexpiredIs
<1> HIDE DEF n, m, u
<1>6. n <= m
  <2> SUFFICES ASSUME m < n PROVE FALSE
    BY <1>2
  <2>1. m + 1 \in 1..n /\ m < Len(times) /\ m + 1 \in 1..Len(times)
    BY <1>2
  <2>2. Recent(times[m + 1], later) /\ ~Recent(times[m + 1], now) /\ times[m + 1] \in Nat
    BY <2>1, <1>2, <1>4
  <2> QED BY <2>2, <1>0 DEF Recent, LimiterAssumption
<1>7. Expired(u, later) = m - n
  <2>0. u \in Seq(Nat)
    BY <1>3, SeqMonotonic
  <2>1. m - n \in 0..Len(u)
    BY <1>2, <1>3, <1>6
  <2>2. \A i \in 1..(m - n) : ~Recent(u[i], later)
    <3> TAKE i \in 1..(m - n)
    <3>1. i \in 1..(Len(times) - n) /\ i + n \in 1..m
      BY <1>2, <1>6
    <3> QED BY <3>1, <1>2, <1>3
  <2>3. m - n < Len(u) => Recent(u[m - n + 1], later)
    <3> SUFFICES ASSUME m - n < Len(u) PROVE Recent(u[m - n + 1], later)
      OBVIOUS
    <3>1. m - n + 1 \in 1..(Len(times) - n) /\ (m - n + 1) + n = m + 1 /\ m < Len(times)
      BY <1>2, <1>3, <1>6
    <3> QED BY <3>1, <1>2, <1>3
  <2> QED BY <2>0, <2>1, <2>2, <2>3, ExpiredIsOne
<1>8. /\ Unexpired(u, later) \in Seq(S)
      /\ Len(Unexpired(u, later)) = Len(u) - (m - n)
      /\ \A i \in 1..(Len(u) - (m - n)) : Unexpired(u, later)[i] = u[i + (m - n)]
  <2>1. /\ Unexpired(u, later) \in Seq(S)
        /\ Len(Unexpired(u, later)) = Len(u) - Expired(u, later)
        /\ \A i \in 1..(Len(u) - Expired(u, later)) :
             Unexpired(u, later)[i] = u[i + Expired(u, later)]
    BY <1>3, UnexpiredIs
  <2> QED BY <2>1, <1>7
<1>9. Len(Unexpired(u, later)) = Len(Unexpired(times, later))
  BY <1>2, <1>3, <1>5, <1>6, <1>8
<1>10. \A i \in 1..Len(Unexpired(u, later)) : Unexpired(u, later)[i] = Unexpired(times, later)[i]
  <2> TAKE i \in 1..Len(Unexpired(u, later))
  <2>1. /\ i \in 1..(Len(times) - m) /\ i \in 1..(Len(u) - (m - n))
        /\ i + (m - n) \in 1..(Len(times) - n) /\ (i + (m - n)) + n = i + m
    BY <1>2, <1>3, <1>5, <1>6, <1>9
  <2> QED BY <2>1, <1>3, <1>5, <1>8
<1>11. Unexpired(u, later) = Unexpired(times, later)
  BY <1>5, <1>8, <1>9, <1>10, SeqEqual
<1>12. Len(Unexpired(times, later)) <= Len(u)
  BY <1>2, <1>3, <1>5, <1>6
<1> QED BY <1>11, <1>12 DEF u

\* A failure of now is kept.
LEMMA UnexpiredWithNow ==
  ASSUME NEW S \in SUBSET Nat, NEW times \in Seq(S), NEW now \in S
  PROVE  Unexpired(Append(times, now), now) = Append(Unexpired(times, now), now)
<1> DEFINE n == Expired(times, now)
           t == Append(times, now)
           u == Unexpired(times, now)
<1>1. times \in Seq(Nat) /\ now \in Nat
  BY SeqMonotonic
<1>2. /\ Len(times) \in Nat /\ n \in 0..Len(times)
      /\ \A i \in 1..n : ~Recent(times[i], now)
      /\ n < Len(times) => Recent(times[n + 1], now)
  BY <1>1, ExpiredIs, LenProperties
<1>3. /\ u \in Seq(S) /\ Len(u) = Len(times) - n
      /\ \A i \in 1..(Len(times) - n) : u[i] = times[i + n]
  BY <1>1, UnexpiredIs
<1>4. /\ t \in Seq(S) /\ Len(t) = Len(times) + 1 /\ t[Len(times) + 1] = now
      /\ \A i \in 1..Len(times) : t[i] = times[i]
  BY AppendProperties
<1>5. /\ Append(u, now) \in Seq(S) /\ Len(Append(u, now)) = Len(u) + 1 /\ Append(u, now)[Len(u) + 1] = now
      /\ \A i \in 1..Len(u) : Append(u, now)[i] = u[i]
  BY <1>3, AppendProperties
<1> HIDE DEF n, t, u
<1>6. Expired(t, now) = n
  <2>0. t \in Seq(Nat)
    BY <1>4, SeqMonotonic
  <2>1. n \in 0..Len(t)
    BY <1>2, <1>4
  <2>2. \A i \in 1..n : ~Recent(t[i], now)
    BY <1>2, <1>4
  <2>3. Recent(t[n + 1], now)
    <3>1. CASE n < Len(times)
      BY <3>1, <1>2, <1>4
    <3>2. CASE n = Len(times)
      BY <3>2, <1>1, <1>4, LimiterAssumption DEF Recent, LimiterAssumption
    <3> QED BY <3>1, <3>2, <1>2
  <2> QED BY <1>1, <2>0, <2>1, <2>2, <2>3, ExpiredIsOne
<1>7. /\ Unexpired(t, now) \in Seq(S) /\ Len(Unexpired(t, now)) = Len(t) - n
      /\ \A i \in 1..(Len(t) - n) : Unexpired(t, now)[i] = t[i + n]
  BY <1>1, <1>4, <1>6, UnexpiredIs
<1>8. Len(Unexpired(t, now)) = Len(Append(u, now))
  BY <1>2, <1>3, <1>4, <1>5, <1>7
<1>9. \A i \in 1..Len(Unexpired(t, now)) : Unexpired(t, now)[i] = Append(u, now)[i]
  <2> TAKE i \in 1..Len(Unexpired(t, now))
  <2>1. i \in 1..(Len(t) - n) /\ Unexpired(t, now)[i] = t[i + n]
    BY <1>7
  <2>2. CASE i <= Len(u)
    <3>1. i \in 1..Len(u) /\ i \in 1..(Len(times) - n) /\ i + n \in 1..Len(times)
      BY <2>1, <2>2, <1>2, <1>3
    <3> QED BY <3>1, <2>1, <1>3, <1>4, <1>5
  <2>3. CASE ~(i <= Len(u))
    <3>1. i = Len(u) + 1 /\ i + n = Len(times) + 1
      BY <2>1, <2>3, <1>2, <1>3, <1>4
    <3> QED BY <3>1, <2>1, <1>4, <1>5
  <2> QED BY <2>2, <2>3
<1>10. Unexpired(t, now) = Append(u, now)
  BY <1>5, <1>7, <1>8, <1>9, SeqEqual
<1> QED BY <1>10 DEF t, u

\* Nothing is kept of failures before a time that is not recent.
LEMMA NothingUnexpired ==
  ASSUME NEW S \in SUBSET Nat, NEW times \in Seq(S), NEW now \in Nat, NEW last \in Nat,
         \A i \in 1..Len(times) : times[i] <= last, ~Recent(last, now)
  PROVE  Unexpired(times, now) = <<>>
<1>1. times \in Seq(Nat) /\ Len(times) \in Nat
  BY SeqMonotonic, LenProperties
<1>2. \A i \in 1..Len(times) : ~Recent(times[i], now)
  <2> TAKE i \in 1..Len(times)
  <2>1. times[i] \in Nat /\ times[i] <= last
    BY <1>1, ElementOfSeq
  <2> QED BY <2>1, LimiterAssumption DEF Recent, LimiterAssumption
<1>3. Expired(times, now) = Len(times)
  BY <1>1, <1>2, ExpiredIsOne
<1>4. Unexpired(times, now) \in Seq(S) /\ Len(Unexpired(times, now)) = 0
  <2>1. Unexpired(times, now) \in Seq(S) /\ Len(Unexpired(times, now)) = Len(times) - Expired(times, now)
    BY UnexpiredIs
  <2> QED BY <2>1, <1>1, <1>3
<1> QED BY <1>4, EmptySeq

\* The recent ones are among the unexpired.
LEMMA RecentAreUnexpired ==
  ASSUME NEW times \in Seq(Nat), NEW now \in Nat
  PROVE  Cardinality(RecentOf(times, now)) <= Len(Unexpired(times, now))
<1> DEFINE n == Expired(times, now)
           kept == (n + 1)..Len(times)
<1>1. /\ Len(times) \in Nat /\ n \in 0..Len(times) /\ DOMAIN times = 1..Len(times)
      /\ \A i \in 1..n : ~Recent(times[i], now)
  BY ExpiredIs, LenProperties
<1>2. Len(Unexpired(times, now)) = Len(times) - n
  BY UnexpiredIs
<1> HIDE DEF n
<1>3. IsFiniteSet(kept) /\ Cardinality(kept) = IF n + 1 > Len(times) THEN 0 ELSE Len(times) - (n + 1) + 1
  <2>1. n + 1 \in Int /\ Len(times) \in Int
    BY <1>1
  <2> QED BY <2>1, FS_Interval
<1>4. RecentOf(times, now) \subseteq kept
  <2> SUFFICES ASSUME NEW i \in RecentOf(times, now) PROVE i \in kept
    OBVIOUS
  <2>1. i \in 1..Len(times) /\ Recent(times[i], now)
    BY <1>1 DEF RecentOf
  <2>2. ~(i \in 1..n)
    BY <2>1, <1>1
  <2> QED BY <2>1, <2>2, <1>1
<1>5. Cardinality(RecentOf(times, now)) <= Cardinality(kept)
  BY <1>3, <1>4, FS_Subset
<1>6. Cardinality(kept) = Len(times) - n
  BY <1>1, <1>3
<1> QED BY <1>2, <1>5, <1>6
(* Rows of a table, in their order.                                        *)
Within(part, table) ==
    \A i, j \in 1..Len(part) : i <= j =>
        \E k, l \in 1..Len(table) : /\ k <= l /\ (i < j => k < l)
                                    /\ part[i] = table[k] /\ part[j] = table[l]

\* A key of a table has a row there.
LEMMA Placed ==
  ASSUME NEW S, NEW table \in Seq(S), NEW key \in Keys(table)
  PROVE  /\ Place(table, key) \in 1..Len(table) /\ RowOf(table, key) = table[Place(table, key)]
         /\ RowOf(table, key) \in S /\ RowOf(table, key).key = key
<1>1. DOMAIN table = 1..Len(table)
  BY LenProperties
<1>2. \E i \in DOMAIN table : table[i].key = key
  BY DEF Keys
<1>3. Place(table, key) \in 1..Len(table) /\ table[Place(table, key)].key = key
  BY <1>1, <1>2 DEF Place
<1>4. RowOf(table, key) = table[Place(table, key)]
  BY DEF RowOf
<1> QED BY <1>3, <1>4, ElementOfSeq

\* A part of a table has no key twice and none that is new.
LEMMA WithinKeepsRows ==
  ASSUME NEW S, NEW table \in Seq(S), NEW part \in Seq(S), Within(part, table), OneRowEach(table)
  PROVE  OneRowEach(part) /\ Keys(part) \subseteq Keys(table)
<1>1. DOMAIN table = 1..Len(table) /\ DOMAIN part = 1..Len(part) /\ Len(part) \in Nat /\ Len(table) \in Nat
  BY LenProperties
<1>2. ASSUME NEW i \in 1..Len(part), NEW j \in 1..Len(part), part[i].key = part[j].key, i < j
      PROVE  FALSE
  <2>0. i <= j
    BY <1>1, <1>2
  <2>1. PICK k \in 1..Len(table), l \in 1..Len(table) :
          k < l /\ part[i] = table[k] /\ part[j] = table[l]
    BY <1>2, <2>0 DEF Within
  <2>2. k = l
    BY <1>1, <1>2, <2>1 DEF OneRowEach
  <2> QED BY <2>1, <2>2
<1>3. ASSUME NEW i \in 1..Len(part), NEW j \in 1..Len(part), part[i].key = part[j].key
      PROVE  i = j
  <2>1. ~(i < j)
    BY <1>2, <1>3
  <2>2. ~(j < i)
    BY <1>2, <1>3
  <2> QED BY <1>1, <2>1, <2>2
<1>4. ASSUME NEW key \in Keys(part)
      PROVE  key \in Keys(table)
  <2>1. PICK i \in 1..Len(part) : part[i].key = key
    BY <1>1 DEF Keys
  <2>2. i <= i
    BY <1>1
  <2>3. PICK k \in 1..Len(table) : part[i] = table[k]
    BY <2>2 DEF Within
  <2> QED BY <1>1, <2>1, <2>3 DEF Keys
<1>5. OneRowEach(part)
  BY <1>1, <1>3 DEF OneRowEach
<1> QED BY <1>4, <1>5

\* What is left after taking rows from the front.
LEMMA SuffixIs ==
  ASSUME NEW S, NEW table \in Seq(S), NEW n \in 0..Len(table)
  PROVE  LET part == SubSeq(table, n + 1, Len(table)) IN
         /\ part \in Seq(S) /\ Len(part) = Len(table) - n
         /\ \A i \in 1..(Len(table) - n) : part[i] = table[i + n]
         /\ Within(part, table)
<1> DEFINE part == SubSeq(table, n + 1, Len(table))
<1>1. Len(table) \in Nat /\ n \in 0..Len(table)
  BY LenProperties
<1>2. \A i \in (n + 1)..Len(table) : table[i] \in S
  BY <1>1, ElementOfSeq
<1>3. /\ part \in Seq(S)
      /\ Len(part) = IF n + 1 <= Len(table) THEN Len(table) - (n + 1) + 1 ELSE 0
      /\ \A i \in 1..(Len(table) - (n + 1) + 1) : part[i] = table[(n + 1) + i - 1]
  BY <1>1, <1>2, SubSeqProperties
<1> HIDE DEF part
<1>4. Len(part) = Len(table) - n
  BY <1>1, <1>3
<1>5. ASSUME NEW i \in 1..(Len(table) - n)
      PROVE  part[i] = table[i + n]
  <2>1. i \in 1..(Len(table) - (n + 1) + 1) /\ (n + 1) + i - 1 = i + n
    BY <1>1
  <2> QED BY <2>1, <1>3
<1>6. Within(part, table)
  <2> SUFFICES ASSUME NEW i \in 1..Len(part), NEW j \in 1..Len(part), i <= j
               PROVE  \E k, l \in 1..Len(table) : /\ k <= l /\ (i < j => k < l)
                                                  /\ part[i] = table[k] /\ part[j] = table[l]
    BY DEF Within
  <2> DEFINE k == i + n
             l == j + n
  <2>1. part[i] = table[k] /\ part[j] = table[l]
    BY <1>4, <1>5
  <2>2. k \in 1..Len(table) /\ l \in 1..Len(table) /\ k <= l /\ (i < j => k < l)
    BY <1>1, <1>4
  <2> HIDE DEF k, l
  <2> QED BY <2>1, <2>2
<1> QED BY <1>3, <1>4, <1>5, <1>6 DEF part

\* What is left after taking the row of a key.
LEMMA WithoutIs ==
  ASSUME NEW S, NEW table \in Seq(S), NEW key, OneRowEach(table)
  PROVE  /\ Without(table, key) \in Seq(S) /\ Within(Without(table, key), table)
         /\ Keys(Without(table, key)) = Keys(table) \ {key}
         /\ Len(Without(table, key)) = IF key \in Keys(table) THEN Len(table) - 1 ELSE Len(table)
<1> DEFINE part == Without(table, key)
           p == Place(table, key)
<1>1. DOMAIN table = 1..Len(table) /\ Len(table) \in Nat
  BY LenProperties
<1>2. CASE key \notin Keys(table)
  <2>1. part = table
    BY <1>2 DEF Without
  <2>2. Within(table, table)
    BY <1>1 DEF Within
  <2> QED BY <1>2, <2>1, <2>2
<1>3. CASE key \in Keys(table)
  <2>1. p \in 1..Len(table) /\ table[p].key = key
    BY <1>3, Placed
  <2>2. part = SubSeq(table, 1, p - 1) \o SubSeq(table, p + 1, Len(table))
    BY <1>3 DEF Without, RemoveAt
  <2> HIDE DEF part, p
  <2>3. /\ SubSeq(table, 1, p - 1) \in Seq(S) /\ Len(SubSeq(table, 1, p - 1)) = p - 1
        /\ \A i \in 1..(p - 1) : SubSeq(table, 1, p - 1)[i] = table[i]
    <3>1. \A i \in 1..(p - 1) : table[i] \in S
      BY <1>1, <2>1, ElementOfSeq
    <3>2. 1 \in Int /\ p - 1 \in Int
      BY <2>1
    <3>3. /\ SubSeq(table, 1, p - 1) \in Seq(S)
          /\ Len(SubSeq(table, 1, p - 1)) = IF 1 <= p - 1 THEN (p - 1) - 1 + 1 ELSE 0
          /\ \A i \in 1..((p - 1) - 1 + 1) : SubSeq(table, 1, p - 1)[i] = table[1 + i - 1]
      BY <3>1, <3>2, SubSeqProperties
    <3>4. Len(SubSeq(table, 1, p - 1)) = p - 1
      BY <2>1, <3>3
    <3>5. ASSUME NEW i \in 1..(p - 1)
          PROVE  SubSeq(table, 1, p - 1)[i] = table[i]
      <4>1. i \in 1..((p - 1) - 1 + 1) /\ 1 + i - 1 = i
        BY <2>1
      <4> QED BY <4>1, <3>3
    <3> QED BY <3>3, <3>4, <3>5
  <2>4. /\ SubSeq(table, p + 1, Len(table)) \in Seq(S)
        /\ Len(SubSeq(table, p + 1, Len(table))) = Len(table) - p
        /\ \A i \in 1..(Len(table) - p) : SubSeq(table, p + 1, Len(table))[i] = table[i + p]
    <3>1. p \in 0..Len(table)
      BY <1>1, <2>1
    <3> QED BY <3>1, SuffixIs
  <2>5. part \in Seq(S) /\ Len(part) = (p - 1) + (Len(table) - p)
        /\ \A i \in 1..((p - 1) + (Len(table) - p)) :
             part[i] = IF i <= p - 1 THEN SubSeq(table, 1, p - 1)[i]
                       ELSE SubSeq(table, p + 1, Len(table))[i - (p - 1)]
    BY <2>2, <2>3, <2>4, ConcatProperties
  <2>6. Len(part) = Len(table) - 1
    BY <1>1, <2>1, <2>5
  <2>7. ASSUME NEW i \in 1..Len(part)
        PROVE  part[i] = table[IF i < p THEN i ELSE i + 1]
    <3>1. CASE i < p
      <4>1. i \in 1..(p - 1) /\ i <= p - 1 /\ i \in 1..((p - 1) + (Len(table) - p))
        BY <1>1, <2>1, <2>6, <3>1
      <4> QED BY <4>1, <3>1, <2>3, <2>5
    <3>2. CASE ~(i < p)
      <4>1. /\ ~(i <= p - 1) /\ i \in 1..((p - 1) + (Len(table) - p))
            /\ i - (p - 1) \in 1..(Len(table) - p) /\ (i - (p - 1)) + p = i + 1
        BY <1>1, <2>1, <2>6, <3>2
      <4> QED BY <4>1, <3>2, <2>4, <2>5
    <3> QED BY <3>1, <3>2
  <2>8. \A i \in 1..Len(part) : /\ (IF i < p THEN i ELSE i + 1) \in 1..Len(table)
                                /\ (IF i < p THEN i ELSE i + 1) # p
    BY <1>1, <2>1, <2>6
  <2>9. Within(part, table)
    <3> SUFFICES ASSUME NEW i \in 1..Len(part), NEW j \in 1..Len(part), i <= j
                 PROVE  \E k, l \in 1..Len(table) : /\ k <= l /\ (i < j => k < l)
                                                    /\ part[i] = table[k] /\ part[j] = table[l]
      BY DEF Within
    <3> DEFINE k == IF i < p THEN i ELSE i + 1
               l == IF j < p THEN j ELSE j + 1
    <3>1. k \in 1..Len(table) /\ l \in 1..Len(table) /\ part[i] = table[k] /\ part[j] = table[l]
      BY <2>7, <2>8
    <3>2. k <= l /\ (i < j => k < l)
      BY <1>1, <2>1, <2>6
    <3> HIDE DEF k, l
    <3> QED BY <3>1, <3>2
  <2>10. ASSUME NEW other \in Keys(table), other # key
         PROVE  other \in Keys(part)
    <3>1. PICK i \in 1..Len(table) : table[i].key = other
      BY <1>1 DEF Keys
    <3>2. i # p
      BY <3>1, <2>1, <2>10
    <3> DEFINE j == IF i < p THEN i ELSE i - 1
    <3>3. j \in 1..Len(part) /\ (IF j < p THEN j ELSE j + 1) = i
      BY <1>1, <2>1, <2>6, <3>2
    <3>4. part[j] = table[i]
      BY <2>7, <3>3
    <3>5. DOMAIN part = 1..Len(part)
      BY <2>5, LenProperties
    <3> QED BY <3>1, <3>3, <3>4, <3>5 DEF Keys
  <2>11. key \notin Keys(part)
    <3> SUFFICES ASSUME NEW i \in 1..Len(part), part[i].key = key PROVE FALSE
      BY <2>5, LenProperties DEF Keys
    <3> DEFINE k == IF i < p THEN i ELSE i + 1
    <3>1. k \in 1..Len(table) /\ k # p /\ part[i] = table[k]
      BY <2>7, <2>8
    <3> HIDE DEF k
    <3> QED BY <3>1, <2>1, <1>1 DEF OneRowEach
  <2>12. Keys(part) \subseteq Keys(table)
    BY <2>5, <2>9, WithinKeepsRows
  <2>13. Keys(part) = Keys(table) \ {key}
    BY <2>10, <2>11, <2>12
  <2> QED BY <1>3, <2>5, <2>6, <2>9, <2>13 DEF part
<1> QED BY <1>2, <1>3

\* A row for a key without one, put at the end.
LEMMA AppendedRow ==
  ASSUME NEW S, NEW table \in Seq(S), NEW row \in S, OneRowEach(table), row.key \notin Keys(table)
  PROVE  /\ Append(table, row) \in Seq(S) /\ Len(Append(table, row)) = Len(table) + 1
         /\ OneRowEach(Append(table, row))
         /\ Keys(Append(table, row)) = Keys(table) \cup {row.key}
         /\ Append(table, row)[Len(table) + 1] = row
         /\ \A i \in 1..Len(table) : Append(table, row)[i] = table[i]
<1> DEFINE t == Append(table, row)
<1>1. /\ t \in Seq(S) /\ Len(t) = Len(table) + 1 /\ t[Len(table) + 1] = row
      /\ \A i \in 1..Len(table) : t[i] = table[i]
  BY AppendProperties
<1> HIDE DEF t
<1>2. DOMAIN table = 1..Len(table) /\ DOMAIN t = 1..Len(t) /\ Len(table) \in Nat
  BY <1>1, LenProperties
<1>3. \A i \in 1..Len(t) : i \in 1..Len(table) \/ i = Len(table) + 1
  BY <1>1, <1>2
<1>4. 1..Len(table) \subseteq 1..Len(t) /\ Len(table) + 1 \in 1..Len(t)
  BY <1>1, <1>2
<1>5. \A i \in 1..Len(table) : table[i].key # row.key
  BY <1>2 DEF Keys
<1>6. OneRowEach(t)
  <2> SUFFICES ASSUME NEW i \in 1..Len(t), NEW j \in 1..Len(t), t[i].key = t[j].key PROVE i = j
    BY <1>2 DEF OneRowEach
  <2>1. CASE i \in 1..Len(table) /\ j \in 1..Len(table)
    BY <2>1, <1>1, <1>2 DEF OneRowEach
  <2>2. CASE i = Len(table) + 1 /\ j = Len(table) + 1
    BY <2>2
  <2>3. CASE i \in 1..Len(table) /\ j = Len(table) + 1
    BY <2>3, <1>1, <1>5
  <2>4. CASE i = Len(table) + 1 /\ j \in 1..Len(table)
    BY <2>4, <1>1, <1>5
  <2> QED BY <1>3, <2>1, <2>2, <2>3, <2>4
<1>7. Keys(t) = Keys(table) \cup {row.key}
  <2>1. \A key \in Keys(t) : key \in Keys(table) \cup {row.key}
    BY <1>1, <1>2, <1>3 DEF Keys
  <2>2. \A key \in Keys(table) : key \in Keys(t)
    BY <1>1, <1>2, <1>4 DEF Keys
  <2>3. row.key \in Keys(t)
    BY <1>1, <1>2, <1>4 DEF Keys
  <2> QED BY <2>1, <2>2, <2>3
<1> QED BY <1>1, <1>6, <1>7 DEF t
Times == 0..MaxClock

(* One row for each account, oldest activity first; no failure is later    *)
(* than the activity of its row.                                           *)
Sound(table, now) ==
    /\ table \in Seq(FailureWindow) /\ Len(table) <= MaxActiveKeys /\ OneRowEach(table)
    /\ \A i, j \in 1..Len(table) : i <= j => table[i].last <= table[j].last
    /\ \A i \in 1..Len(table) : table[i].last <= now
    /\ \A i \in 1..Len(table) :
         \A n \in 1..Len(table[i].failed) : table[i].failed[n] <= table[i].last

\* The table has the failures that were reported, as far as they are unexpired.
Matches(table, reports, now) ==
    /\ \A i \in 1..Len(table) : Unexpired(reports[table[i].key], now) = Unexpired(table[i].failed, now)
    /\ \A a \in Account \ Keys(table) : Unexpired(reports[a], now) = <<>>

\* One thread at a time is inside an attempt for a lock.
OneVerifier ==
    \A p, q \in Login : /\ verifying[p] # Nobody /\ verifying[q] # Nobody
                        /\ GuardOf[verifying[p]] = GuardOf[verifying[q]]
                        => p = q

\* Whoever verifies may fail once more.
RoomForOneMore ==
    \A p \in Login : verifying[p] # Nobody =>
        Len(Unexpired(reported[verifying[p]], clock)) < Attempts

ReportsAreBounded == \A a \in Account : Len(Unexpired(reported[a], clock)) <= Attempts

LimiterIInv ==
    /\ LimiterTypeOK
    /\ Sound(failures, clock)
    /\ Matches(failures, reported, clock)
    /\ OneVerifier
    /\ RoomForOneMore
    /\ ReportsAreBounded

LEMMA TimesAreNumbers == Times \in SUBSET Nat /\ \A now \in Times : now \in Nat
BY LimiterAssumption DEF Times, LimiterAssumption

LEMMA RowsAreTyped ==
  ASSUME NEW table \in Seq(FailureWindow), NEW i \in 1..Len(table)
  PROVE  /\ table[i] \in FailureWindow /\ table[i].key \in Account /\ table[i].last \in Nat
         /\ table[i].failed \in Seq(Times) /\ table[i].last \in Times
<1>1. table[i] \in FailureWindow
  BY ElementOfSeq
<1>2. table[i].key \in Account /\ table[i].last \in Times /\ table[i].failed \in Seq(Times)
  BY <1>1 DEF FailureWindow, Times
<1> QED BY <1>1, <1>2, TimesAreNumbers

LEMMA NoneUnexpired ==
  ASSUME NEW now \in Times
  PROVE  Unexpired(<<>>, now) = <<>>
<1>1. <<>> \in Seq(Times) /\ Len(<<>>) = 0 /\ now \in Nat
  BY EmptySeq, TimesAreNumbers
<1>2. Unexpired(<<>>, now) \in Seq(Times) /\ Len(Unexpired(<<>>, now)) = 0 - Expired(<<>>, now)
      /\ Expired(<<>>, now) \in 0..0
  BY <1>1, UnexpiredIs, TimesAreNumbers
<1>3. Len(Unexpired(<<>>, now)) = 0
  BY <1>2
<1> QED BY <1>2, <1>3, EmptySeq

\* A part of a sound table is sound.
LEMMA SoundWithin ==
  ASSUME NEW now \in Times, NEW table, NEW part \in Seq(FailureWindow), Sound(table, now),
         Within(part, table), Len(part) <= Len(table)
  PROVE  Sound(part, now)
<1>1. table \in Seq(FailureWindow) /\ Len(table) \in Nat /\ Len(part) \in Nat
      /\ OneRowEach(table) /\ Len(table) <= MaxActiveKeys
  BY LenProperties DEF Sound
<1>2. OneRowEach(part)
  BY <1>1, WithinKeepsRows
<1>3. Len(part) <= MaxActiveKeys
  BY <1>1, LimiterAssumption DEF LimiterAssumption
<1>4. \A i, j \in 1..Len(part) : i <= j => part[i].last <= part[j].last
  <2> TAKE i, j \in 1..Len(part)
  <2> HAVE i <= j
  <2>1. PICK k \in 1..Len(table), l \in 1..Len(table) : k <= l /\ part[i] = table[k] /\ part[j] = table[l]
    BY DEF Within
  <2> QED BY <2>1 DEF Sound
<1>5. \A i \in 1..Len(part) : \E k \in 1..Len(table) : part[i] = table[k]
  <2> TAKE i \in 1..Len(part)
  <2>1. i <= i
    BY <1>1
  <2> QED BY <2>1 DEF Within
<1>6. \A i \in 1..Len(part) : part[i].last <= now
  BY <1>5 DEF Sound
<1>7. \A i \in 1..Len(part) :
        \A n \in 1..Len(part[i].failed) : part[i].failed[n] <= part[i].last
  BY <1>5 DEF Sound
<1> QED BY <1>2, <1>3, <1>4, <1>6, <1>7 DEF Sound

(* Pruning keeps the table sound and true to the reports, and, since the  *)
(* rows are in the order of their activity, leaves recent ones only.       *)
LEMMA PrunedIs ==
  ASSUME NEW now \in Times, NEW table, Sound(table, now),
         NEW reports \in [Account -> Seq(Times)], Matches(table, reports, now)
  PROVE  /\ Sound(Pruned(table, now), now) /\ Matches(Pruned(table, now), reports, now)
         /\ \A i \in 1..Len(Pruned(table, now)) : Recent(Pruned(table, now)[i].last, now)
<1> DEFINE lasts == [i \in DOMAIN table |-> table[i].last]
           n == Expired(lasts, now)
           part == Pruned(table, now)
<1>1. table \in Seq(FailureWindow) /\ Len(table) \in Nat /\ DOMAIN table = 1..Len(table)
  BY LenProperties DEF Sound
<1>2. now \in Nat
  BY TimesAreNumbers
<1>3. lasts \in Seq(Nat) /\ Len(lasts) = Len(table) /\ \A i \in 1..Len(table) : lasts[i] = table[i].last
  <2>1. lasts = [i \in 1..Len(table) |-> table[i].last]
    BY <1>1
  <2>2. \A i \in 1..Len(table) : table[i].last \in Nat
    BY <1>1, RowsAreTyped
  <2>3. lasts \in Seq(Nat)
    BY <1>1, <2>1, <2>2, IsASeq
  <2>4. DOMAIN lasts = 1..Len(lasts) /\ Len(lasts) \in Nat
    BY <2>3, LenProperties
  <2> HIDE DEF lasts
  <2>5. DOMAIN lasts = 1..Len(table)
    BY <2>1
  <2>6. Len(lasts) = Len(table)
    <3>1. \A i \in Nat : i \in 1..Len(lasts) <=> i \in 1..Len(table)
      BY <2>4, <2>5
    <3>2. ~(Len(lasts) < Len(table))
      BY <1>1, <2>4, <3>1
    <3>3. ~(Len(table) < Len(lasts))
      BY <1>1, <2>4, <3>1
    <3>4. \A x, y \in Nat : ~(x < y) /\ ~(y < x) => x = y
      OBVIOUS
    <3>5. Len(lasts) \in Nat /\ Len(table) \in Nat
      BY <1>1, <2>4
    <3> QED BY <3>2, <3>3, <3>4, <3>5
  <2> QED BY <2>1, <2>3, <2>6
<1>4. /\ n \in 0..Len(table)
      /\ \A i \in 1..n : ~Recent(lasts[i], now)
      /\ n < Len(table) => Recent(lasts[n + 1], now)
  <2> HIDE DEF lasts
  <2> QED BY <1>2, <1>3, ExpiredIs
<1>5. part = SubSeq(table, n + 1, Len(table))
  BY DEF Pruned
<1> HIDE DEF lasts, n, part
<1>6. /\ part \in Seq(FailureWindow) /\ Len(part) = Len(table) - n
      /\ \A i \in 1..(Len(table) - n) : part[i] = table[i + n]
      /\ Within(part, table)
  BY <1>1, <1>4, <1>5, SuffixIs
<1>7. Len(part) <= Len(table)
  BY <1>1, <1>4, <1>6
<1>8. Sound(part, now)
  BY <1>6, <1>7, SoundWithin
<1>9. ASSUME NEW i \in 1..Len(part)
      PROVE  i + n \in 1..Len(table) /\ part[i] = table[i + n]
  BY <1>1, <1>4, <1>6
<1>10. ASSUME NEW i \in 1..Len(part)
       PROVE  Recent(part[i].last, now)
  <2>1. n < Len(table) /\ n + 1 \in 1..Len(table) /\ n + 1 <= i + n
    BY <1>1, <1>4, <1>6
  <2>2. Recent(table[n + 1].last, now)
    BY <1>3, <1>4, <2>1
  <2>3. table[n + 1].last <= table[i + n].last
    BY <2>1, <1>9 DEF Sound
  <2>4. table[n + 1].last \in Nat /\ table[i + n].last \in Nat
    BY <1>1, <1>9, <2>1, RowsAreTyped
  <2>5. Recent(table[i + n].last, now)
    BY <1>2, <2>2, <2>3, <2>4, LimiterAssumption DEF Recent, LimiterAssumption
  <2> QED BY <1>9, <2>5
<1>11. ASSUME NEW a \in Account \ Keys(part)
       PROVE  Unexpired(reports[a], now) = <<>>
  <2>1. CASE a \notin Keys(table)
    BY <2>1 DEF Matches
  <2>2. CASE a \in Keys(table)
    <3>1. PICK i \in 1..Len(table) : table[i].key = a
      BY <1>1, <2>2 DEF Keys
    <3>2. i \in 1..n
      <4> SUFFICES ASSUME ~(i \in 1..n) PROVE FALSE
        OBVIOUS
      <4> DEFINE j == i - n
      <4>1. j \in 1..(Len(table) - n) /\ j + n = i
        BY <1>1, <1>4
      <4>2. part[j] = table[i] /\ j \in 1..Len(part)
        BY <1>6, <4>1
      <4>3. DOMAIN part = 1..Len(part)
        BY <1>6, LenProperties
      <4> HIDE DEF j
      <4> QED BY <3>1, <4>2, <4>3 DEF Keys
    <3>3. ~Recent(table[i].last, now)
      BY <1>3, <1>4, <3>2
    <3>4. table[i].failed \in Seq(Times) /\ table[i].last \in Nat
      BY <1>1, RowsAreTyped
    <3>5. \A m \in 1..Len(table[i].failed) : table[i].failed[m] <= table[i].last
      BY DEF Sound
    <3>6. Unexpired(table[i].failed, now) = <<>>
      BY <1>2, <3>3, <3>4, <3>5, NothingUnexpired, TimesAreNumbers
    <3> QED BY <3>1, <3>6 DEF Matches
  <2> QED BY <2>1, <2>2
<1>12. \A i \in 1..Len(part) : Unexpired(reports[part[i].key], now) = Unexpired(part[i].failed, now)
  BY <1>9 DEF Matches
<1>13. Matches(part, reports, now)
  BY <1>11, <1>12 DEF Matches
<1> QED BY <1>8, <1>10, <1>13 DEF part
\* A new row of now at the end of a table.
LEMMA RowAdded ==
  ASSUME NEW now \in Times, NEW table, Sound(table, now), Len(table) < MaxActiveKeys,
         NEW row \in FailureWindow, row.key \notin Keys(table), row.last = now,
         \A n \in 1..Len(row.failed) : row.failed[n] <= now
  PROVE  Sound(Append(table, row), now)
<1> DEFINE t == Append(table, row)
<1>1. table \in Seq(FailureWindow) /\ Len(table) \in Nat /\ OneRowEach(table) /\ now \in Nat
  BY LenProperties, TimesAreNumbers DEF Sound
<1>2. /\ t \in Seq(FailureWindow) /\ Len(t) = Len(table) + 1 /\ OneRowEach(t)
      /\ t[Len(table) + 1] = row /\ \A i \in 1..Len(table) : t[i] = table[i]
  BY <1>1, AppendedRow
<1> HIDE DEF t
<1>3. \A i \in 1..Len(t) : i \in 1..Len(table) \/ i = Len(table) + 1
  BY <1>1, <1>2
<1>4. \A i \in 1..Len(t) : t[i].last <= now
  BY <1>1, <1>2, <1>3 DEF Sound
<1>5. ASSUME NEW i \in 1..Len(t), NEW j \in 1..Len(t), i <= j
      PROVE  t[i].last <= t[j].last
  <2>1. CASE j \in 1..Len(table)
    <3>1. i \in 1..Len(table)
      BY <1>1, <1>2, <1>5, <2>1
    <3> QED BY <1>2, <1>5, <2>1, <3>1 DEF Sound
  <2>2. CASE j = Len(table) + 1
    BY <1>2, <1>4, <2>2
  <2> QED BY <1>3, <2>1, <2>2
<1>6. \A i \in 1..Len(t) : \A n \in 1..Len(t[i].failed) : t[i].failed[n] <= t[i].last
  BY <1>2, <1>3 DEF Sound
<1>7. Len(t) <= MaxActiveKeys
  BY <1>1, <1>2, LimiterAssumption DEF LimiterAssumption
<1> QED BY <1>2, <1>4, <1>5, <1>6, <1>7 DEF Sound, t

\* A new row with what is reported of its account keeps the table true to the reports.
LEMMA RowAddedMatches ==
  ASSUME NEW now \in Times, NEW table, Sound(table, now), NEW row \in FailureWindow, row.key \notin Keys(table),
         NEW old \in [Account -> Seq(Times)], NEW reports \in [Account -> Seq(Times)],
         \A a \in Account \ {row.key} : reports[a] = old[a],
         Unexpired(reports[row.key], now) = Unexpired(row.failed, now),
         \A i \in 1..Len(table) : Unexpired(old[table[i].key], now) = Unexpired(table[i].failed, now),
         \A a \in Account \ Keys(table) : a # row.key => Unexpired(old[a], now) = <<>>
  PROVE  Matches(Append(table, row), reports, now)
<1> DEFINE t == Append(table, row)
<1>1. table \in Seq(FailureWindow) /\ Len(table) \in Nat /\ OneRowEach(table) /\ DOMAIN table = 1..Len(table)
  BY LenProperties DEF Sound
<1>2. /\ t \in Seq(FailureWindow) /\ Len(t) = Len(table) + 1 /\ Keys(t) = Keys(table) \cup {row.key}
      /\ t[Len(table) + 1] = row /\ \A i \in 1..Len(table) : t[i] = table[i]
  BY <1>1, AppendedRow
<1> HIDE DEF t
<1>3. \A i \in 1..Len(t) : i \in 1..Len(table) \/ i = Len(table) + 1
  BY <1>1, <1>2
<1>4. \A i \in 1..Len(table) : table[i].key \in Account \ {row.key}
  BY <1>1, RowsAreTyped DEF Keys
<1>5. \A i \in 1..Len(t) : Unexpired(reports[t[i].key], now) = Unexpired(t[i].failed, now)
  <2> TAKE i \in 1..Len(t)
  <2>1. CASE i \in 1..Len(table)
    BY <2>1, <1>2, <1>4
  <2>2. CASE i = Len(table) + 1
    BY <2>2, <1>2
  <2> QED BY <1>3, <2>1, <2>2
<1>6. \A a \in Account \ Keys(t) : Unexpired(reports[a], now) = <<>>
  BY <1>2
<1> QED BY <1>5, <1>6 DEF Matches, t

\* A row that loses failures, where it stands.
LEMMA RowPut ==
  ASSUME NEW now \in Times, NEW table, Sound(table, now), NEW key \in Keys(table),
         NEW reports \in [Account -> Seq(Times)], Matches(table, reports, now)
  PROVE  LET f == Unexpired(RowOf(table, key).failed, now)
             row == [RowOf(table, key) EXCEPT !.failed = f]
         IN
         /\ Sound(Put(table, row), now) /\ Matches(Put(table, row), reports, now)
         /\ f = Unexpired(reports[key], now) /\ row \in FailureWindow
         /\ f \in Seq(Times) /\ Unexpired(f, now) = f
         /\ \A n \in 1..Len(f) : f[n] <= now
         /\ row.key = key
<1> DEFINE old == RowOf(table, key)
           f == Unexpired(old.failed, now)
           row == [old EXCEPT !.failed = f]
           p == Place(table, key)
           t == Put(table, row)
<1>1. table \in Seq(FailureWindow) /\ Len(table) \in Nat /\ OneRowEach(table)
      /\ DOMAIN table = 1..Len(table) /\ now \in Nat
  BY LenProperties, TimesAreNumbers DEF Sound
<1>2. p \in 1..Len(table) /\ old = table[p] /\ old.key = key
  BY <1>1, Placed
<1>3. old \in FailureWindow /\ old.failed \in Seq(Times) /\ old.last \in Times /\ old.last \in Nat
      /\ old.key \in Account
  BY <1>1, <1>2, RowsAreTyped
<1> HIDE DEF old, p
<1>4. /\ Expired(old.failed, now) \in 0..Len(old.failed) /\ Len(old.failed) \in Nat
      /\ f \in Seq(Times) /\ Len(f) = Len(old.failed) - Expired(old.failed, now)
      /\ \A n \in 1..(Len(old.failed) - Expired(old.failed, now)) :
           f[n] = old.failed[n + Expired(old.failed, now)]
  BY <1>1, <1>3, UnexpiredIs, TimesAreNumbers
<1>5. now <= now
  BY <1>1
<1>6. Unexpired(f, now) = f
  BY <1>1, <1>3, <1>5, UnexpiredLater, TimesAreNumbers
<1> HIDE DEF f
<1>7. row.key = key /\ row.last = old.last /\ row.failed = f /\ row \in FailureWindow
  BY <1>2, <1>3, <1>4 DEF FailureWindow, Times
<1> HIDE DEF row
<1>8. \A n \in 1..Len(f) : f[n] <= old.last
  <2> TAKE n \in 1..Len(f)
  <2>1. /\ n \in 1..(Len(old.failed) - Expired(old.failed, now))
        /\ n + Expired(old.failed, now) \in 1..Len(old.failed)
    BY <1>4
  <2> QED BY <2>1, <1>2, <1>4 DEF Sound
<1>9. old.last <= now
  BY <1>2 DEF Sound
<1>10. \A n \in 1..Len(f) : f[n] <= now
  <2> TAKE n \in 1..Len(f)
  <2>1. f[n] \in Nat
    BY <1>4, ElementOfSeq, TimesAreNumbers
  <2>2. f[n] <= old.last
    BY <1>8
  <2> QED BY <1>1, <1>3, <1>9, <2>1, <2>2
<1>11. /\ t \in Seq(FailureWindow) /\ Len(t) = Len(table)
       /\ \A i \in 1..Len(table) : t[i] = IF i = p THEN row ELSE table[i]
  <2>1. t = [table EXCEPT ![p] = row]
    BY <1>7 DEF Put, p
  <2> HIDE DEF t
  <2> QED BY <2>1, <1>1, <1>2, <1>7, ExceptSeq
<1> HIDE DEF t
<1>12. \A i \in 1..Len(table) : t[i].key = table[i].key /\ t[i].last = table[i].last
  BY <1>2, <1>7, <1>11
<1>13. DOMAIN t = 1..Len(table)
  BY <1>11, LenProperties
<1>14. Keys(t) = Keys(table)
  BY <1>1, <1>12, <1>13 DEF Keys
<1>15. OneRowEach(t)
  BY <1>1, <1>12, <1>13 DEF OneRowEach
<1>16. /\ \A i, j \in 1..Len(t) : i <= j => t[i].last <= t[j].last
       /\ \A i \in 1..Len(t) : t[i].last <= now
  BY <1>11, <1>12 DEF Sound
<1>17. \A i \in 1..Len(t) : \A n \in 1..Len(t[i].failed) : t[i].failed[n] <= t[i].last
  BY <1>7, <1>8, <1>11 DEF Sound
<1>18. Sound(t, now)
  BY <1>11, <1>15, <1>16, <1>17 DEF Sound
<1>19. f = Unexpired(reports[key], now)
  BY <1>2 DEF Matches, f
<1>20. Matches(t, reports, now)
  <2>1. \A i \in 1..Len(t) : Unexpired(reports[t[i].key], now) = Unexpired(t[i].failed, now)
    <3> TAKE i \in 1..Len(t)
    <3>1. CASE i = p
      BY <3>1, <1>2, <1>6, <1>7, <1>11, <1>19
    <3>2. CASE i # p
      BY <3>2, <1>11 DEF Matches
    <3> QED BY <3>1, <3>2
  <2>2. \A a \in Account \ Keys(t) : Unexpired(reports[a], now) = <<>>
    BY <1>14 DEF Matches
  <2> QED BY <2>1, <2>2 DEF Matches
<1> QED BY <1>4, <1>6, <1>7, <1>10, <1>18, <1>19, <1>20 DEF t, row, f, old
LEMMA LimiterStarts == LimiterInit => LimiterIInv
<1> SUFFICES ASSUME LimiterInit PROVE LimiterIInv
  OBVIOUS
<1> USE DEF LimiterInit
<1>1. 0 \in Times /\ MaxActiveKeys \in Nat /\ Attempts \in Nat /\ Attempts > 0
  BY LimiterAssumption DEF LimiterAssumption, Times
<1>2. failures = <<>> /\ failures \in Seq(FailureWindow) /\ Len(failures) = 0 /\ DOMAIN failures = {}
  BY EmptySeq
<1>3. \A i \in 1..Len(failures) : FALSE
  BY <1>2
<1>4. OneRowEach(failures) /\ Keys(failures) = {}
  BY <1>2 DEF OneRowEach, Keys
<1>5. Unexpired(<<>>, 0) = <<>> /\ Len(<<>>) = 0
  BY <1>1, NoneUnexpired, EmptySeq
<1>6. LimiterTypeOK
  <2>1. <<>> \in Seq(0..MaxClock)
    BY EmptySeq
  <2> QED BY <1>1, <1>2, <1>4, <2>1 DEF LimiterTypeOK, Times
<1>7. Sound(failures, clock)
  BY <1>1, <1>2, <1>3, <1>4 DEF Sound
<1>8. Matches(failures, reported, clock)
  BY <1>3, <1>5 DEF Matches
<1>9. OneVerifier /\ RoomForOneMore
  BY DEF OneVerifier, RoomForOneMore
<1>10. ReportsAreBounded
  BY <1>1, <1>5 DEF ReportsAreBounded
<1> QED BY <1>6, <1>7, <1>8, <1>9, <1>10 DEF LimiterIInv

LEMMA ClockStep ==
  ASSUME LimiterIInv, ClockTicks
  PROVE  LimiterIInv'
<1> USE DEF ClockTicks
<1>1. clock \in Times /\ clock' \in Times /\ clock \in Nat /\ clock' \in Nat /\ clock <= clock'
  BY LimiterAssumption DEF LimiterIInv, LimiterTypeOK, Times, LimiterAssumption
<1>2. LimiterTypeOK'
  BY <1>1 DEF LimiterIInv, LimiterTypeOK, Times
<1>3. failures \in Seq(FailureWindow) /\ \A a \in Account : reported[a] \in Seq(Times)
  BY DEF LimiterIInv, LimiterTypeOK, Times
<1>4. Sound(failures, clock')
  <2>1. \A i \in 1..Len(failures) : failures[i].last <= clock'
    <3> TAKE i \in 1..Len(failures)
    <3>1. failures[i].last \in Nat /\ failures[i].last <= clock
      BY <1>3, RowsAreTyped DEF LimiterIInv, Sound
    <3> QED BY <1>1, <3>1
  <2> QED BY <2>1 DEF LimiterIInv, Sound
<1>5. ASSUME NEW times \in Seq(Times)
      PROVE  /\ Unexpired(Unexpired(times, clock), clock') = Unexpired(times, clock')
             /\ Len(Unexpired(times, clock')) <= Len(Unexpired(times, clock))
             /\ Len(Unexpired(times, clock')) \in Nat /\ Len(Unexpired(times, clock)) \in Nat
  <2>1. /\ Unexpired(Unexpired(times, clock), clock') = Unexpired(times, clock')
        /\ Len(Unexpired(times, clock')) <= Len(Unexpired(times, clock))
    BY <1>1, UnexpiredLater, TimesAreNumbers
  <2>2. Unexpired(times, clock') \in Seq(Times) /\ Unexpired(times, clock) \in Seq(Times)
    BY <1>1, UnexpiredIs, TimesAreNumbers
  <2> QED BY <2>1, <2>2, LenProperties
<1>6. Matches(failures, reported, clock')
  <2>1. ASSUME NEW i \in 1..Len(failures)
        PROVE  Unexpired(reported[failures[i].key], clock') = Unexpired(failures[i].failed, clock')
    <3>1. failures[i].failed \in Seq(Times) /\ reported[failures[i].key] \in Seq(Times)
      BY <1>3, RowsAreTyped
    <3>2. Unexpired(reported[failures[i].key], clock) = Unexpired(failures[i].failed, clock)
      BY DEF LimiterIInv, Matches
    <3> QED BY <1>5, <3>1, <3>2
  <2>2. ASSUME NEW a \in Account \ Keys(failures)
        PROVE  Unexpired(reported[a], clock') = <<>>
    <3>1. Unexpired(reported[a], clock) = <<>>
      BY DEF LimiterIInv, Matches
    <3>2. Unexpired(<<>>, clock') = <<>>
      BY <1>1, NoneUnexpired
    <3> QED BY <1>3, <1>5, <3>1, <3>2
  <2> QED BY <2>1, <2>2 DEF Matches
<1>7. OneVerifier'
  BY DEF LimiterIInv, OneVerifier
<1>8. RoomForOneMore'
  <2> SUFFICES ASSUME NEW p \in Login, verifying[p] # Nobody
               PROVE  Len(Unexpired(reported[verifying[p]], clock')) < Attempts
    BY DEF RoomForOneMore
  <2>1. verifying[p] \in Account
    BY DEF LimiterIInv, LimiterTypeOK
  <2>2. Len(Unexpired(reported[verifying[p]], clock)) < Attempts
    BY DEF LimiterIInv, RoomForOneMore
  <2> QED BY <1>3, <1>5, <2>1, <2>2, LimiterAssumption DEF LimiterAssumption
<1>9. ReportsAreBounded'
  <2> SUFFICES ASSUME NEW a \in Account PROVE Len(Unexpired(reported[a], clock')) <= Attempts
    BY DEF ReportsAreBounded
  <2>1. Len(Unexpired(reported[a], clock)) <= Attempts
    BY DEF LimiterIInv, ReportsAreBounded
  <2> QED BY <1>3, <1>5, <2>1, LimiterAssumption DEF LimiterAssumption
<1> QED BY <1>2, <1>4, <1>6, <1>7, <1>8, <1>9 DEF LimiterIInv

\* What an attempt that has the lock and its pruned table knows.
LEMMA EnsureAllowedStep ==
  ASSUME LimiterIInv, NEW p \in Login, NEW account \in Account, EnsureAllowed(p, account)
  PROVE  LimiterIInv'
<1> DEFINE table == Pruned(failures, clock)
           row == Renewed(table, account)
<1>1. /\ clock \in Times /\ Sound(failures, clock) /\ Matches(failures, reported, clock)
      /\ reported \in [Account -> Seq(Times)] /\ \A a \in Account : reported[a] \in Seq(Times)
  BY DEF LimiterIInv, LimiterTypeOK, Times
<1>2. Sound(table, clock) /\ Matches(table, reported, clock)
  BY <1>1, PrunedIs
<1> HIDE DEF table
<1>3. table \in Seq(FailureWindow) /\ Len(table) \in Nat /\ Len(table) <= MaxActiveKeys
  BY <1>2, LenProperties DEF Sound
<1>4. /\ verifying[p] = Nobody /\ GuardIsFree(account)
      /\ \/ /\ account \notin Keys(table) /\ Full(table)
            /\ failures' = table
            /\ Refuse(p, "full")
         \/ /\ account \notin Keys(table) /\ ~Full(table)
            /\ failures' = Append(table, NewWindow(account, <<>>))
            /\ Verify(p, account)
         \/ /\ account \in Keys(table)
            /\ failures' = Put(table, row)
            /\ IF Len(row.failed) >= Attempts THEN Refuse(p, "limited") ELSE Verify(p, account)
  BY DEF EnsureAllowed, table
<1>5. ASSUME NEW answer \in {"full", "limited"}, Refuse(p, answer),
             Sound(failures', clock), Matches(failures', reported, clock)
      PROVE  LimiterIInv'
  <2>1. LimiterTypeOK'
    BY <1>1, <1>5 DEF LimiterIInv, LimiterTypeOK, Refuse, Sound
  <2>2. OneVerifier' /\ RoomForOneMore' /\ ReportsAreBounded'
    BY <1>5 DEF LimiterIInv, OneVerifier, RoomForOneMore, ReportsAreBounded, Refuse
  <2>3. Sound(failures, clock)' /\ Matches(failures, reported, clock)'
    BY <1>5 DEF Refuse, Sound, Matches
  <2> QED BY <2>1, <2>2, <2>3 DEF LimiterIInv
<1>6. ASSUME Verify(p, account), Len(Unexpired(reported[account], clock)) < Attempts,
             Sound(failures', clock), Matches(failures', reported, clock)
      PROVE  LimiterIInv'
  <2>1. \A q \in Login : verifying'[q] = IF q = p THEN account ELSE verifying[q]
    BY <1>6 DEF Verify, LimiterIInv, LimiterTypeOK
  <2>2. LimiterTypeOK'
    BY <1>1, <1>6 DEF LimiterIInv, LimiterTypeOK, Verify, Sound
  <2>3. OneVerifier'
    BY <1>4, <2>1 DEF LimiterIInv, OneVerifier, GuardIsFree
  <2>4. RoomForOneMore'
    BY <1>6, <2>1 DEF LimiterIInv, RoomForOneMore, Verify
  <2>5. ReportsAreBounded'
    BY <1>6 DEF LimiterIInv, ReportsAreBounded, Verify
  <2>6. Sound(failures, clock)' /\ Matches(failures, reported, clock)'
    BY <1>6 DEF Verify, Sound, Matches
  <2> QED BY <2>2, <2>3, <2>4, <2>5, <2>6 DEF LimiterIInv
<1>7. CASE account \notin Keys(table) /\ Full(table) /\ failures' = table /\ Refuse(p, "full")
  BY <1>2, <1>5, <1>7
<1>8. CASE /\ account \notin Keys(table) /\ ~Full(table)
           /\ failures' = Append(table, NewWindow(account, <<>>))
           /\ Verify(p, account)
  <2> DEFINE new == NewWindow(account, <<>>)
  <2>0. Len(<<>>) = 0 /\ <<>> \in Seq(Times)
    BY EmptySeq
  <2>1. new \in FailureWindow /\ new.key = account /\ new.last = clock /\ new.failed = <<>>
    BY <1>1, <2>0 DEF NewWindow, FailureWindow, Times
  <2> HIDE DEF new
  <2>2. Len(table) < MaxActiveKeys
    BY <1>3, <1>8, LimiterAssumption DEF Full, LimiterAssumption
  <2>3. \A n \in 1..Len(new.failed) : new.failed[n] <= clock
    BY <2>0, <2>1
  <2>4. Sound(failures', clock)
    BY <1>1, <1>2, <1>8, <2>1, <2>2, <2>3, RowAdded DEF new
  <2>5. Unexpired(reported[account], clock) = <<>> /\ Unexpired(<<>>, clock) = <<>>
    BY <1>1, <1>2, <1>8, NoneUnexpired DEF Matches
  <2>6. Matches(failures', reported, clock)
    <3>1. \A i \in 1..Len(table) :
            Unexpired(reported[table[i].key], clock) = Unexpired(table[i].failed, clock)
      BY <1>2 DEF Matches
    <3>2. \A a \in Account \ Keys(table) : a # new.key => Unexpired(reported[a], clock) = <<>>
      BY <1>2 DEF Matches
    <3>3. \A a \in Account \ {new.key} : reported[a] = reported[a]
      OBVIOUS
    <3>4. Unexpired(reported[new.key], clock) = Unexpired(new.failed, clock)
      BY <2>1, <2>5
    <3>5. new.key \notin Keys(table)
      BY <1>8, <2>1
    <3>6. Matches(Append(table, new), reported, clock)
      BY <1>1, <1>2, <2>1, <3>1, <3>2, <3>3, <3>4, <3>5, RowAddedMatches
    <3> QED BY <1>8, <3>6 DEF new
  <2>7. Len(Unexpired(reported[account], clock)) < Attempts
    BY <2>0, <2>5, LimiterAssumption DEF LimiterAssumption
  <2> QED BY <1>6, <1>8, <2>4, <2>6, <2>7
<1>9. CASE /\ account \in Keys(table) /\ failures' = Put(table, row)
           /\ IF Len(row.failed) >= Attempts THEN Refuse(p, "limited") ELSE Verify(p, account)
  <2>1. /\ Sound(Put(table, row), clock) /\ Matches(Put(table, row), reported, clock)
        /\ row.failed = Unexpired(reported[account], clock)
    <3> DEFINE f == Unexpired(RowOf(table, account).failed, clock)
               put == [RowOf(table, account) EXCEPT !.failed = f]
    <3>1. /\ Sound(Put(table, put), clock) /\ Matches(Put(table, put), reported, clock)
          /\ f = Unexpired(reported[account], clock) /\ put \in FailureWindow
      BY <1>1, <1>2, <1>9, RowPut
    <3>2. row = put
      BY DEF Renewed
    <3>3. RowOf(table, account) \in FailureWindow
      BY <1>3, <1>9, Placed
    <3>4. put.failed = f
      BY <3>3 DEF FailureWindow
    <3> QED BY <3>1, <3>2, <3>4
  <2>2. Len(row.failed) \in Nat
    <3>1. Unexpired(reported[account], clock) \in Seq(Times)
      BY <1>1, UnexpiredIs, TimesAreNumbers
    <3> QED BY <2>1, <3>1, LenProperties
  <2> HIDE DEF row
  <2>3. CASE Len(row.failed) >= Attempts
    BY <1>5, <1>9, <2>1, <2>3
  <2>4. CASE ~(Len(row.failed) >= Attempts)
    <3>1. Len(row.failed) < Attempts
      BY <2>2, <2>4, LimiterAssumption DEF LimiterAssumption
    <3> QED BY <1>6, <1>9, <2>1, <2>4, <3>1
  <2> QED BY <2>3, <2>4
<1> QED BY <1>4, <1>7, <1>8, <1>9
\* An attempt ends: what is to be shown of the table and of the account's reports.
LEMMA AttemptEnds ==
  ASSUME LimiterIInv, NEW p \in Login, verifying[p] # Nobody,
         NEW answer \in {"full", "invalid", "welcome", "error"}, Done(p, answer),
         Sound(failures', clock), Matches(failures', reported', clock),
         reported' \in [Account -> Seq(Times)],
         \A a \in Account : a # verifying[p] => reported'[a] = reported[a],
         Len(Unexpired(reported'[verifying[p]], clock)) <= Attempts
  PROVE  LimiterIInv'
<1>1. clock' = clock /\ clock \in Times
  BY DEF Done, LimiterIInv, LimiterTypeOK, Times
<1>2. \A q \in Login : verifying'[q] = IF q = p THEN Nobody ELSE verifying[q]
  BY DEF Done, LimiterIInv, LimiterTypeOK
<1>3. LimiterTypeOK'
  BY <1>1 DEF LimiterIInv, LimiterTypeOK, Done, Sound, Times
<1>4. OneVerifier'
  BY <1>2 DEF LimiterIInv, OneVerifier
<1>5. RoomForOneMore'
  <2> SUFFICES ASSUME NEW q \in Login, verifying'[q] # Nobody
               PROVE  Len(Unexpired(reported'[verifying'[q]], clock)) < Attempts
    BY <1>1 DEF RoomForOneMore
  <2>1. q # p /\ verifying'[q] = verifying[q] /\ verifying[q] # Nobody
    BY <1>2
  <2>2. verifying[q] # verifying[p] /\ verifying[q] \in Account
    BY <2>1 DEF LimiterIInv, OneVerifier, LimiterTypeOK
  <2>3. reported'[verifying[q]] = reported[verifying[q]]
    BY <2>2
  <2>4. Len(Unexpired(reported[verifying[q]], clock)) < Attempts
    BY <2>1 DEF LimiterIInv, RoomForOneMore
  <2> QED BY <2>1, <2>3, <2>4
<1>6. ReportsAreBounded'
  BY <1>1 DEF LimiterIInv, ReportsAreBounded
<1>7. Sound(failures, clock)' /\ Matches(failures, reported, clock)'
  BY <1>1 DEF Sound, Matches
<1> QED BY <1>3, <1>4, <1>5, <1>6, <1>7 DEF LimiterIInv

LEMMA RecordFailureStep ==
  ASSUME LimiterIInv, NEW p \in Login, RecordFailure(p)
  PROVE  LimiterIInv'
<1> DEFINE account == verifying[p]
           table == Pruned(failures, clock)
           row == Renewed(table, account)
           u == Unexpired(reported[account], clock)
           r == Append(u, clock)
<1>1. /\ clock \in Times /\ Sound(failures, clock) /\ Matches(failures, reported, clock)
      /\ reported \in [Account -> Seq(Times)] /\ \A a \in Account : reported[a] \in Seq(Times)
      /\ clock \in Nat
  BY TimesAreNumbers DEF LimiterIInv, LimiterTypeOK, Times
<1>2. Sound(table, clock) /\ Matches(table, reported, clock)
  BY <1>1, PrunedIs
<1>3. account \in Account /\ verifying[p] # Nobody /\ Len(u) < Attempts
  BY DEF RecordFailure, LimiterIInv, LimiterTypeOK, RoomForOneMore
<1>4. IF account \notin Keys(table) /\ Full(table)
      THEN failures' = table /\ Done(p, "full") /\ UNCHANGED reported
      ELSE /\ failures' = WithFailure(table, account)
           /\ Done(p, "invalid")
           /\ reported' = [reported EXCEPT
                ![account] = Unexpired(Append(reported[account], clock), clock)]
  BY DEF RecordFailure
<1>5. Unexpired(Append(reported[account], clock), clock) = r
  BY <1>1, <1>3, UnexpiredWithNow, TimesAreNumbers
<1>6. u \in Seq(Times) /\ Unexpired(u, clock) = u
  <2>1. u \in Seq(Times)
    BY <1>1, <1>3, UnexpiredIs, TimesAreNumbers
  <2>2. clock <= clock
    BY <1>1
  <2>3. Unexpired(u, clock) = u
    BY <1>1, <1>3, <2>2, UnexpiredLater, TimesAreNumbers
  <2> QED BY <2>1, <2>3
<1>7. r \in Seq(Times) /\ Len(r) = Len(u) + 1 /\ Len(u) \in Nat
  BY <1>1, <1>6, AppendProperties, LenProperties
<1>8. Unexpired(r, clock) = r
  BY <1>1, <1>6, UnexpiredWithNow, TimesAreNumbers
<1>9. Len(r) <= Attempts
  BY <1>3, <1>7, LimiterAssumption DEF LimiterAssumption
<1>10. table \in Seq(FailureWindow) /\ Len(table) \in Nat /\ Len(table) <= MaxActiveKeys /\ OneRowEach(table)
  BY <1>2, LenProperties DEF Sound
<1> HIDE DEF account, table, r, u
<1>11. CASE account \notin Keys(table) /\ Full(table)
  <2>1. failures' = table /\ Done(p, "full") /\ reported' = reported
    BY <1>4, <1>11
  <2>2. Len(Unexpired(reported'[account], clock)) <= Attempts
    BY <1>3, <1>7, <2>1, LimiterAssumption DEF LimiterAssumption, u
  <2>3. /\ Sound(failures', clock) /\ Matches(failures', reported', clock)
        /\ reported' \in [Account -> Seq(Times)]
        /\ \A a \in Account : a # account => reported'[a] = reported[a]
    BY <1>1, <1>2, <2>1
  <2> QED BY <1>3, <2>1, <2>2, <2>3, AttemptEnds DEF account
<1>12. ASSUME ~(account \notin Keys(table) /\ Full(table)),
              Sound(failures', clock), Matches(failures', reported', clock)
       PROVE  LimiterIInv'
  <2>1. Done(p, "invalid") /\ reported' = [reported EXCEPT ![account] = r]
    BY <1>4, <1>5, <1>12
  <2>2. /\ reported' \in [Account -> Seq(Times)] /\ reported'[account] = r
        /\ \A a \in Account : a # account => reported'[a] = reported[a]
    BY <1>1, <1>3, <1>7, <2>1
  <2>3. Len(Unexpired(reported'[account], clock)) <= Attempts
    BY <1>8, <1>9, <2>2
  <2> QED BY <1>3, <1>12, <2>1, <2>2, <2>3, AttemptEnds DEF account
<1>13. ASSUME ~(account \notin Keys(table) /\ Full(table))
       PROVE  /\ failures' = WithFailure(table, account)
              /\ reported' \in [Account -> Seq(Times)] /\ reported'[account] = r
              /\ \A a \in Account \ {account} : reported'[a] = reported[a]
  BY <1>1, <1>3, <1>4, <1>5, <1>7, <1>13
<1>14. CASE account \notin Keys(table) /\ ~Full(table)
  <2> DEFINE new == NewWindow(account, <<clock>>)
  <2>1. <<clock>> = Append(<<>>, clock)
    OBVIOUS
  <2>2. u = <<>>
    BY <1>2, <1>3, <1>14 DEF Matches, u
  <2>3. r = <<clock>>
    BY <2>1, <2>2 DEF r
  <2>4. new \in FailureWindow /\ new.key = account /\ new.last = clock /\ new.failed = r
    <3>1. r \in Seq(0..MaxClock) /\ clock \in 0..MaxClock
      BY <1>1, <1>7 DEF Times
    <3> QED BY <1>3, <2>3, <3>1 DEF NewWindow, FailureWindow
  <2> HIDE DEF new
  <2>5. Len(table) < MaxActiveKeys
    BY <1>10, <1>14, LimiterAssumption DEF Full, LimiterAssumption
  <2>6. \A n \in 1..Len(new.failed) : new.failed[n] <= clock
    BY <1>1, <2>3, <2>4
  <2>7. failures' = Append(table, new)
    BY <1>13, <1>14 DEF WithFailure, new
  <2>8. Sound(failures', clock)
    BY <1>1, <1>2, <1>14, <2>4, <2>5, <2>6, <2>7, RowAdded
  <2>9. Matches(failures', reported', clock)
    <3>1. \A i \in 1..Len(table) :
            Unexpired(reported[table[i].key], clock) = Unexpired(table[i].failed, clock)
      BY <1>2 DEF Matches
    <3>2. \A a \in Account \ Keys(table) : a # new.key => Unexpired(reported[a], clock) = <<>>
      BY <1>2 DEF Matches
    <3>3. /\ \A a \in Account \ {new.key} : reported'[a] = reported[a]
          /\ reported' \in [Account -> Seq(Times)]
      BY <1>13, <1>14, <2>4
    <3>4. Unexpired(reported'[new.key], clock) = Unexpired(new.failed, clock)
      BY <1>13, <1>14, <2>4
    <3>5. new.key \notin Keys(table)
      BY <1>14, <2>4
    <3> QED BY <1>1, <1>2, <2>4, <2>7, <3>1, <3>2, <3>3, <3>4, <3>5, RowAddedMatches
  <2> QED BY <1>12, <1>14, <2>8, <2>9
<1>15. CASE account \in Keys(table)
  <2> DEFINE old == RowOf(table, account)
             f == Unexpired(old.failed, clock)
             put == [old EXCEPT !.failed = f]
             again == FailedAgain(row)
             rest == Without(table, account)
  <2>1. f = u /\ put \in FailureWindow
    BY <1>1, <1>2, <1>15, RowPut DEF u
  <2>1a. \A n \in 1..Len(f) : f[n] <= clock
    BY <1>1, <1>2, <1>15, RowPut
  <2>2. row = put /\ row.failed = u
    <3>1. old \in FailureWindow
      BY <1>10, <1>15, Placed
    <3>2. put.failed = f
      BY <3>1 DEF FailureWindow
    <3> QED BY <2>1, <3>2 DEF Renewed
  <2>3. row \in FailureWindow /\ row.key = account
    <3>1. old \in FailureWindow /\ old.key = account
      BY <1>10, <1>15, Placed
    <3> QED BY <2>1, <2>2, <3>1 DEF FailureWindow
  <2> HIDE DEF row
  <2>4. ~(Len(row.failed) >= Attempts)
    BY <1>3, <1>7, <2>2, LimiterAssumption DEF LimiterAssumption
  <2>5. failures' = Append(rest, again)
    <3>1. failures' = WithFailure(table, account)
      BY <1>13, <1>15
    <3> QED BY <1>15, <2>4, <3>1 DEF WithFailure, row
  <2>6. again \in FailureWindow /\ again.key = account /\ again.last = clock /\ again.failed = r
    <3>1. again = [row EXCEPT !.failed = r, !.last = clock]
      BY <2>2 DEF FailedAgain, r
    <3>2. r \in Seq(0..MaxClock) /\ clock \in 0..MaxClock
      BY <1>1, <1>7 DEF Times
    <3> QED BY <2>3, <3>1, <3>2 DEF FailureWindow
  <2> HIDE DEF again
  <2>7. /\ rest \in Seq(FailureWindow) /\ Within(rest, table) /\ Keys(rest) = Keys(table) \ {account}
        /\ Len(rest) = Len(table) - 1
    BY <1>10, <1>15, WithoutIs
  <2> HIDE DEF rest
  <2>8. Len(rest) <= Len(table) /\ Len(rest) < MaxActiveKeys
    BY <1>10, <2>7, LimiterAssumption DEF LimiterAssumption
  <2>9. Sound(rest, clock)
    BY <1>1, <1>2, <2>7, <2>8, SoundWithin
  <2>10. \A n \in 1..Len(r) : r[n] <= clock
    <3> TAKE n \in 1..Len(r)
    <3>1. CASE n \in 1..Len(u)
      <4>1. r[n] = u[n]
        BY <1>1, <1>6, <3>1, AppendProperties DEF r
      <4> QED BY <2>1, <2>1a, <3>1, <4>1
    <3>2. CASE n = Len(u) + 1
      <4>1. r[n] = clock
        BY <1>1, <1>6, <3>2, AppendProperties DEF r
      <4> QED BY <1>1, <4>1
    <3> QED BY <1>7, <3>1, <3>2
  <2>11. Sound(failures', clock)
    BY <1>1, <2>5, <2>6, <2>7, <2>8, <2>9, <2>10, RowAdded
  <2>12. Matches(failures', reported', clock)
    <3>1. \A i \in 1..Len(rest) :
            Unexpired(reported[rest[i].key], clock) = Unexpired(rest[i].failed, clock)
      <4> TAKE i \in 1..Len(rest)
      <4>1. i <= i
        BY <2>7, LenProperties
      <4>2. PICK k \in 1..Len(table) : rest[i] = table[k]
        BY <2>7, <4>1 DEF Within
      <4> QED BY <1>2, <4>2 DEF Matches
    <3>2. \A a \in Account \ Keys(rest) : a # again.key => Unexpired(reported[a], clock) = <<>>
      BY <1>2, <2>6, <2>7 DEF Matches
    <3>3. /\ \A a \in Account \ {again.key} : reported'[a] = reported[a]
          /\ reported' \in [Account -> Seq(Times)]
      BY <1>13, <1>15, <2>6
    <3>4. Unexpired(reported'[again.key], clock) = Unexpired(again.failed, clock)
      BY <1>13, <1>15, <2>6
    <3>5. again.key \notin Keys(rest)
      BY <2>6, <2>7
    <3> QED BY <1>1, <2>5, <2>6, <2>9, <3>1, <3>2, <3>3, <3>4, <3>5, RowAddedMatches
  <2> QED BY <1>12, <1>15, <2>11, <2>12
<1> QED BY <1>11, <1>14, <1>15

LEMMA ClearStep ==
  ASSUME LimiterIInv, NEW p \in Login, Clear(p)
  PROVE  LimiterIInv'
<1> DEFINE account == verifying[p]
<1>1. /\ clock \in Times /\ Sound(failures, clock) /\ Matches(failures, reported, clock)
      /\ reported \in [Account -> Seq(Times)] /\ account \in Account /\ account # Nobody
      /\ failures \in Seq(FailureWindow) /\ OneRowEach(failures)
  BY DEF LimiterIInv, LimiterTypeOK, Times, Clear
<1>2. /\ failures' = Without(failures, account) /\ Done(p, "welcome")
      /\ reported' = [reported EXCEPT ![account] = <<>>]
  BY DEF Clear
<1>3. /\ failures' \in Seq(FailureWindow) /\ Within(failures', failures)
      /\ Keys(failures') = Keys(failures) \ {account} /\ Len(failures') <= Len(failures)
  <2>1. Len(failures) \in Nat
    BY <1>1, LenProperties
  <2>2. /\ failures' \in Seq(FailureWindow) /\ Within(failures', failures)
        /\ Keys(failures') = Keys(failures) \ {account}
        /\ Len(failures') = IF account \in Keys(failures) THEN Len(failures) - 1 ELSE Len(failures)
    BY <1>1, <1>2, WithoutIs
  <2> QED BY <2>1, <2>2
<1>4. Sound(failures', clock)
  BY <1>1, <1>3, SoundWithin
<1>5. /\ reported' \in [Account -> Seq(Times)] /\ reported'[account] = <<>>
      /\ \A a \in Account : a # account => reported'[a] = reported[a]
  <2>1. <<>> \in Seq(Times)
    BY EmptySeq
  <2> QED BY <1>1, <1>2, <2>1
<1>6. Unexpired(<<>>, clock) = <<>> /\ Len(<<>>) = 0
  BY <1>1, NoneUnexpired, EmptySeq
<1>7. Matches(failures', reported', clock)
  <2>1. ASSUME NEW i \in 1..Len(failures')
        PROVE  Unexpired(reported'[failures'[i].key], clock) = Unexpired(failures'[i].failed, clock)
    <3>1. i <= i /\ DOMAIN failures' = 1..Len(failures')
      BY <1>3, LenProperties
    <3>2. PICK k \in 1..Len(failures) : failures'[i] = failures[k]
      BY <1>3, <3>1 DEF Within
    <3>3. failures'[i].key # account
      BY <1>3, <3>1 DEF Keys
    <3>4. failures'[i].key \in Account
      BY <1>3, RowsAreTyped
    <3>5. reported'[failures'[i].key] = reported[failures[k].key]
      BY <1>5, <3>2, <3>3, <3>4
    <3> QED BY <1>1, <3>2, <3>5 DEF Matches
  <2>2. ASSUME NEW a \in Account \ Keys(failures')
        PROVE  Unexpired(reported'[a], clock) = <<>>
    <3>1. CASE a = account
      BY <1>5, <1>6, <3>1
    <3>2. CASE a # account
      BY <1>1, <1>3, <1>5, <3>2 DEF Matches
    <3> QED BY <3>1, <3>2
  <2> QED BY <2>1, <2>2 DEF Matches
<1>8. Len(Unexpired(reported'[account], clock)) <= Attempts
  BY <1>5, <1>6, LimiterAssumption DEF LimiterAssumption
<1> QED BY <1>1, <1>2, <1>4, <1>5, <1>7, <1>8, AttemptEnds

LEMMA LoginBreaksStep ==
  ASSUME LimiterIInv, NEW p \in Login, LoginBreaks(p)
  PROVE  LimiterIInv'
<1>1. /\ Done(p, "error") /\ failures' = failures /\ reported' = reported /\ verifying[p] # Nobody
  BY DEF LoginBreaks
<1>2. /\ Sound(failures', clock) /\ Matches(failures', reported', clock)
      /\ reported' \in [Account -> Seq(Times)] /\ verifying[p] \in Account
  BY <1>1 DEF LimiterIInv, LimiterTypeOK, Times
<1>3. Len(Unexpired(reported'[verifying[p]], clock)) <= Attempts
  BY <1>1, <1>2 DEF LimiterIInv, ReportsAreBounded
<1> QED BY <1>1, <1>2, <1>3, AttemptEnds

LEMMA LimiterStepHolds == LimiterIInv /\ [LimiterNext]_limiterVars => LimiterIInv'
<1> SUFFICES ASSUME LimiterIInv, [LimiterNext]_limiterVars PROVE LimiterIInv'
  OBVIOUS
<1>1. ASSUME NEW p \in Login, NEW a \in Account, EnsureAllowed(p, a) PROVE LimiterIInv'
  BY <1>1, EnsureAllowedStep
<1>2. ASSUME NEW p \in Login, RecordFailure(p) PROVE LimiterIInv'
  BY <1>2, RecordFailureStep
<1>3. ASSUME NEW p \in Login, Clear(p) PROVE LimiterIInv'
  BY <1>3, ClearStep
<1>4. ASSUME NEW p \in Login, LoginBreaks(p) PROVE LimiterIInv'
  BY <1>4, LoginBreaksStep
<1>5. CASE ClockTicks
  BY <1>5, ClockStep
<1>6. CASE UNCHANGED limiterVars
  BY <1>6 DEF limiterVars, LimiterIInv, LimiterTypeOK, Sound, Matches, OneVerifier, RoomForOneMore,
              ReportsAreBounded
<1> QED BY <1>1, <1>2, <1>3, <1>4, <1>5, <1>6 DEF LimiterNext, Attempt

\* The inductive invariant of LoginLimiter.
LEMMA LimiterInvariance == LimiterSpec => []LimiterIInv
BY LimiterStarts, LimiterStepHolds, PTL DEF LimiterSpec

(* No account is told of more than Attempts wrong passwords in a window,   *)
(* with any number of threads, accounts and shared locks.                  *)
THEOREM GuessesBounded == LimiterSpec => []GuessesAreBounded
<1>1. LimiterIInv => GuessesAreBounded
  <2> SUFFICES ASSUME LimiterIInv, NEW a \in Account
               PROVE  Cardinality(RecentOf(reported[a], clock)) <= Attempts
    BY DEF GuessesAreBounded
  <2>1. reported[a] \in Seq(Times) /\ clock \in Times /\ Len(Unexpired(reported[a], clock)) <= Attempts
    BY DEF LimiterIInv, LimiterTypeOK, ReportsAreBounded, Times
  <2>2. reported[a] \in Seq(Nat) /\ clock \in Nat
    <3>1. Times \subseteq Nat
      BY TimesAreNumbers
    <3>2. reported[a] \in Seq(Nat)
      BY <2>1, <3>1, SeqMonotonic
    <3> QED BY <2>1, <3>2, TimesAreNumbers
  <2>3. Cardinality(RecentOf(reported[a], clock)) <= Len(Unexpired(reported[a], clock))
    BY <2>2, RecentAreUnexpired
  <2>4. Len(Unexpired(reported[a], clock)) \in Nat
    BY <2>1, <2>2, UnexpiredIs, LenProperties
  <2>5. Cardinality(RecentOf(reported[a], clock)) \in Nat
    <3>1. DOMAIN reported[a] = 1..Len(reported[a]) /\ Len(reported[a]) \in Nat
      BY <2>1, LenProperties
    <3>2. IsFiniteSet(1..Len(reported[a]))
      BY <3>1, FS_Interval
    <3>3. RecentOf(reported[a], clock) \subseteq 1..Len(reported[a])
      BY <3>1 DEF RecentOf
    <3> QED BY <3>2, <3>3, FS_Subset, FS_CardinalityType
  <2> QED BY <2>1, <2>3, <2>4, <2>5, LimiterAssumption DEF LimiterAssumption
<1> QED BY <1>1, LimiterInvariance, PTL

\* The type invariant; a key never has two rows and the table never outgrows its bound.
THEOREM LimiterTypesHold == LimiterSpec => []LimiterTypeOK
<1>1. LimiterIInv => LimiterTypeOK
  BY DEF LimiterIInv
<1> QED BY <1>1, LimiterInvariance, PTL

(* Whoever is refused for lack of room finds MaxActiveKeys rows that are   *)
(* all recent: no expired row is ever in the way.                          *)
THEOREM RoomHolds == LimiterSpec => RoomIsNotWasted
<1>1. ASSUME LimiterIInv, [LimiterNext]_limiterVars, NEW p \in Login,
             answers'[p] = "full", answers[p] # "full"
      PROVE  Cardinality({i \in DOMAIN failures' : Recent(failures'[i].last, clock)}) = MaxActiveKeys
  <2> DEFINE table == Pruned(failures, clock)
  <2>1. answers \in [Login -> {"none", "full", "limited", "invalid", "welcome", "error"}]
    BY <1>1 DEF LimiterIInv, LimiterTypeOK
  <2>2. failures' = table /\ Full(table)
    <3>1. ASSUME NEW q \in Login, NEW a \in Account, EnsureAllowed(q, a)
          PROVE  failures' = table /\ Full(table)
      BY <1>1, <2>1, <3>1 DEF EnsureAllowed, Refuse, Verify
    <3>2. ASSUME NEW q \in Login, RecordFailure(q)
          PROVE  failures' = table /\ Full(table)
      BY <1>1, <2>1, <3>2 DEF RecordFailure, Done
    <3>3. ASSUME NEW q \in Login, Clear(q) \/ LoginBreaks(q)
          PROVE  FALSE
      BY <1>1, <2>1, <3>3 DEF Clear, LoginBreaks, Done
    <3>4. ~ClockTicks /\ ~UNCHANGED limiterVars
      BY <1>1 DEF ClockTicks, limiterVars
    <3> QED BY <1>1, <3>1, <3>2, <3>3, <3>4 DEF LimiterNext, Attempt
  <2>3. /\ clock \in Times /\ Sound(failures, clock) /\ Matches(failures, reported, clock)
        /\ reported \in [Account -> Seq(Times)]
    BY <1>1 DEF LimiterIInv, LimiterTypeOK, Times
  <2>4. Sound(table, clock) /\ \A i \in 1..Len(table) : Recent(table[i].last, clock)
    BY <2>3, PrunedIs
  <2> HIDE DEF table
  <2>5. DOMAIN table = 1..Len(table) /\ Len(table) \in Nat
    BY <2>4, LenProperties DEF Sound
  <2>6. Len(table) = MaxActiveKeys
    <3>1. Len(table) <= MaxActiveKeys /\ Len(table) >= MaxActiveKeys
      BY <2>2, <2>4 DEF Full, Sound
    <3>2. MaxActiveKeys \in Nat
      BY LimiterAssumption DEF LimiterAssumption
    <3>3. \A x, y \in Nat : x <= y /\ x >= y => x = y
      OBVIOUS
    <3> QED BY <2>5, <3>1, <3>2, <3>3
  <2>7. {i \in DOMAIN table : Recent(table[i].last, clock)} = 1..MaxActiveKeys
    BY <2>4, <2>5, <2>6
  <2>8. Cardinality(1..MaxActiveKeys) = MaxActiveKeys
    BY FS_Interval, LimiterAssumption DEF LimiterAssumption
  <2> QED BY <2>2, <2>7, <2>8
<1>2. LimiterIInv /\ [LimiterNext]_limiterVars =>
        [\A p \in Login : answers'[p] = "full" /\ answers[p] # "full" =>
           Cardinality({i \in DOMAIN failures' : Recent(failures'[i].last, clock)}) = MaxActiveKeys
        ]_limiterVars
  BY <1>1
<1> QED BY <1>2, LimiterInvariance, PTL DEF LimiterSpec, RoomIsNotWasted
-----------------------------------------------------------------------------
(* CallLimiter.                                                            *)

CallRow == [key : Caller, minute : Nat, count : Nat]

ThisMinute == MinuteOf(ticks)

\* Least recently used first, so that the minutes of the rows do not fall.
OldestUseFirst ==
    /\ \A i, j \in 1..Len(windows) : i <= j => windows[i].minute <= windows[j].minute
    /\ \A i \in 1..Len(windows) : windows[i].minute <= ThisMinute

RowsAreOfCalling ==
    \A i \in 1..Len(windows) : windows[i].minute = ThisMinute => windows[i].key \in Calling

CountedInFull(k) ==
    \E i \in 1..Len(windows) : /\ windows[i].key = k /\ windows[i].minute = ThisMinute
                               /\ windows[i].count = made[k].calls

\* As long as all who call in a minute fit the table, none is forgotten.
CallingAreCounted ==
    Cardinality(Calling) <= Capacity =>
        /\ \A k \in Calling : CountedInFull(k)
        /\ \A k \in Caller : made[k].admitted <= Maximum

CallIInv ==
    /\ CallTypeOK
    /\ OldestUseFirst
    /\ RowsAreOfCalling
    /\ IsFiniteSet(Calling)
    /\ \A k \in Caller : made[k].admitted <= made[k].calls
    /\ CallingAreCounted

LEMMA MinutesGoOn ==
  ASSUME NEW t \in Nat
  PROVE  MinuteOf(t) \in Nat /\ MinuteOf(t) <= MinuteOf(t + 1)
<1>1. Minute \in Nat /\ Minute > 0
  BY CallsAssumption DEF CallsAssumption
<1>2. MinuteOf(t) \in Nat /\ MinuteOf(t + 1) \in Nat
  BY <1>1 DEF MinuteOf
<1>3. /\ Minute * MinuteOf(t) <= t
      /\ t + 1 < Minute * (MinuteOf(t + 1) + 1)
  BY <1>1 DEF MinuteOf
<1>4. ~(MinuteOf(t + 1) < MinuteOf(t))
  BY <1>1, <1>2, <1>3
<1> QED BY <1>2, <1>4
LEMMA CallsStart == CallInit => CallIInv
<1> SUFFICES ASSUME CallInit PROVE CallIInv
  OBVIOUS
<1> USE DEF CallInit
<1>1. Capacity \in Nat /\ Maximum \in Nat /\ MaxCalls \in Nat /\ MaxTicks \in Nat
  BY CallsAssumption DEF CallsAssumption
<1>2. windows \in Seq(CallRow) /\ Len(windows) = 0 /\ DOMAIN windows = {}
  BY EmptySeq
<1>3. \A i \in 1..Len(windows) : FALSE
  BY <1>2
<1>4. CallTypeOK
  BY <1>1, <1>2 DEF CallTypeOK, OneRowEach, NoCalls, CallRow
<1>5. \A k \in Caller : made[k].calls = 0 /\ made[k].admitted = 0
  BY DEF NoCalls
<1>6. Calling = {}
  BY <1>5 DEF Calling
<1>7. IsFiniteSet(Calling)
  BY <1>6, FS_EmptySet
<1> QED BY <1>1, <1>3, <1>4, <1>5, <1>6, <1>7
        DEF CallIInv, OldestUseFirst, RowsAreOfCalling, CallingAreCounted

LEMMA TicksStep ==
  ASSUME CallIInv, TicksPass
  PROVE  CallIInv'
<1> USE DEF TicksPass
<1>1. /\ ticks \in Nat /\ ticks' = ticks + 1 /\ windows' = windows
      /\ Capacity \in Nat /\ Maximum \in Nat /\ MaxCalls \in Nat /\ MaxTicks \in Nat
  BY CallsAssumption DEF CallsAssumption, CallIInv, CallTypeOK
<1>2. ThisMinute \in Nat /\ ThisMinute' \in Nat /\ ThisMinute <= ThisMinute'
  BY <1>1, MinutesGoOn DEF ThisMinute, MinuteOf
<1>3. \A i \in 1..Len(windows) : windows[i].minute \in Nat
  <2> TAKE i \in 1..Len(windows)
  <2>1. windows[i] \in CallRow
    BY ElementOfSeq DEF CallIInv, CallTypeOK, CallRow
  <2> QED BY <2>1 DEF CallRow
<1>4. OldestUseFirst'
  BY <1>1, <1>2, <1>3 DEF CallIInv, OldestUseFirst
<1>5. CASE ThisMinute' = ThisMinute
  <2>1. made' = made
    BY <1>5 DEF ThisMinute, MinuteOf
  <2>2. Calling' = Calling
    BY <2>1 DEF Calling
  <2>3. CallTypeOK'
    BY <1>1, <2>1 DEF CallIInv, CallTypeOK
  <2>4. RowsAreOfCalling' /\ CallingAreCounted'
    BY <1>1, <1>5, <2>1, <2>2 DEF CallIInv, RowsAreOfCalling, CallingAreCounted, CountedInFull
  <2> QED BY <1>4, <2>1, <2>2, <2>3, <2>4 DEF CallIInv
<1>6. CASE ThisMinute' # ThisMinute
  <2>1. made' = NoCalls
    BY <1>6 DEF ThisMinute, MinuteOf
  <2>2. \A k \in Caller : made'[k].calls = 0 /\ made'[k].admitted = 0
    BY <2>1 DEF NoCalls
  <2>3. Calling' = {}
    BY <2>2 DEF Calling
  <2>4. CallTypeOK'
    BY <1>1, <2>1 DEF CallIInv, CallTypeOK, NoCalls
  <2>5. \A i \in 1..Len(windows) : windows[i].minute # ThisMinute'
    BY <1>2, <1>3, <1>6 DEF CallIInv, OldestUseFirst
  <2>6. RowsAreOfCalling'
    BY <1>1, <2>5 DEF RowsAreOfCalling
  <2>7. CallingAreCounted'
    BY <1>1, <2>2, <2>3 DEF CallingAreCounted
  <2>8. IsFiniteSet(Calling')
    BY <2>3, FS_EmptySet
  <2> QED BY <1>4, <2>2, <2>4, <2>6, <2>7, <2>8 DEF CallIInv
<1> QED BY <1>5, <1>6

LEMMA LimitStep ==
  ASSUME CallIInv, NEW key \in Caller, Limit(key)
  PROVE  CallIInv'
<1> DEFINE rest == Without(windows, key)
           row == Counted(key)
           used == Append(rest, row)
           over == IF Len(used) > Capacity THEN Len(used) - Capacity ELSE 0
           kept == SubSeq(used, over + 1, Len(used))
<1>1. /\ Capacity \in Nat /\ Capacity > 0 /\ Maximum \in Nat /\ Maximum > 0
      /\ MaxCalls \in Nat /\ MaxTicks \in Nat
  BY CallsAssumption DEF CallsAssumption
<1>2. /\ windows \in Seq(CallRow) /\ Len(windows) \in Nat /\ Len(windows) <= Capacity
      /\ DOMAIN windows = 1..Len(windows) /\ OneRowEach(windows)
      /\ ticks \in Nat /\ made \in [Caller -> [calls : 0..MaxCalls, admitted : 0..MaxCalls]]
  BY LenProperties, <1>1 DEF CallIInv, CallTypeOK, CallRow
<1>3. ThisMinute \in Nat /\ ticks' = ticks /\ ThisMinute' = ThisMinute
  BY <1>2, MinutesGoOn DEF ThisMinute, MinuteOf, Limit
<1>4. \A i \in 1..Len(windows) : /\ windows[i].key \in Caller /\ windows[i].minute \in Nat
                                 /\ windows[i].count \in Nat
  <2> TAKE i \in 1..Len(windows)
  <2>1. windows[i] \in CallRow
    BY <1>2, ElementOfSeq
  <2> QED BY <2>1 DEF CallRow
<1>5. /\ row.key = key /\ row.minute = ThisMinute /\ row.count \in Nat /\ row \in CallRow
      /\ row.count = IF key \in Keys(windows) /\ RowOf(windows, key).minute = ThisMinute
                     THEN RowOf(windows, key).count + 1 ELSE 1
  <2>1. key \in Keys(windows) => RowOf(windows, key).count \in Nat
    BY <1>2, <1>4, Placed
  <2>2. row = [key |-> key, minute |-> ThisMinute,
               count |-> IF key \in Keys(windows) /\ RowOf(windows, key).minute = ThisMinute
                         THEN RowOf(windows, key).count + 1 ELSE 1]
    BY DEF Counted, ThisMinute
  <2>3. (IF key \in Keys(windows) /\ RowOf(windows, key).minute = ThisMinute
         THEN RowOf(windows, key).count + 1 ELSE 1) \in Nat
    BY <2>1
  <2> HIDE DEF row
  <2>4. row.key = key /\ row.minute = ThisMinute
        /\ row.count = IF key \in Keys(windows) /\ RowOf(windows, key).minute = ThisMinute
                       THEN RowOf(windows, key).count + 1 ELSE 1
    BY <2>2
  <2>5. row \in CallRow
    BY <1>3, <2>2, <2>3 DEF CallRow
  <2> QED BY <2>3, <2>4, <2>5
<1>6. /\ rest \in Seq(CallRow) /\ Within(rest, windows) /\ Keys(rest) = Keys(windows) \ {key}
      /\ Len(rest) = IF key \in Keys(windows) THEN Len(windows) - 1 ELSE Len(windows)
  BY <1>2, WithoutIs
<1>7. Len(rest) \in Nat /\ Len(rest) <= Len(windows) /\ DOMAIN rest = 1..Len(rest) /\ OneRowEach(rest)
  <2>1. OneRowEach(rest)
    BY <1>2, <1>6, WithinKeepsRows
  <2>2. Len(rest) \in Nat /\ DOMAIN rest = 1..Len(rest)
    BY <1>6, LenProperties
  <2>3. Len(rest) = Len(windows) - 1 \/ Len(rest) = Len(windows)
    BY <1>6
  <2>4. Len(rest) <= Len(windows)
    <3>1. \A x, y \in Nat : x = y - 1 \/ x = y => x <= y
      OBVIOUS
    <3> QED BY <1>2, <2>2, <2>3, <3>1
  <2> QED BY <2>1, <2>2, <2>4
<1>8. /\ made'[key].calls = made[key].calls + 1
      /\ made'[key].admitted = made[key].admitted + (IF row.count <= Maximum THEN 1 ELSE 0)
      /\ \A k \in Caller \ {key} : made'[k] = made[k]
      /\ made[key].calls < MaxCalls /\ windows' = kept
  <2>1. windows' = WithinCapacity(used) /\ made[key].calls < MaxCalls
    BY DEF Limit, Used
  <2>2. over \in Int
    BY <1>1, <1>7, <1>5, <1>6, AppendProperties
  <2>3. 1 + over = over + 1
    BY <2>2
  <2>4. windows' = kept
    BY <2>1, <2>3 DEF WithinCapacity
  <2>5. made' = [made EXCEPT
          ![key].calls = made[key].calls + 1,
          ![key].admitted = made[key].admitted + (IF row.count <= Maximum THEN 1 ELSE 0)]
    BY DEF Limit
  <2> HIDE DEF row
  <2> QED BY <1>2, <2>1, <2>4, <2>5
<1>9. row.key \notin Keys(rest)
  BY <1>5, <1>6
<1> HIDE DEF row, rest
<1>10. /\ used \in Seq(CallRow) /\ Len(used) = Len(rest) + 1 /\ OneRowEach(used)
       /\ used[Len(rest) + 1] = row /\ \A i \in 1..Len(rest) : used[i] = rest[i]
  BY <1>5, <1>6, <1>7, <1>9, AppendedRow
<1>11. over \in {0, 1} /\ over <= Len(rest) /\ over \in 0..Len(used)
       /\ (over = 1 => Len(rest) = Capacity) /\ Len(used) - over <= Capacity
  <2>1. Len(used) \in Nat /\ Len(rest) \in Nat /\ Len(rest) <= Capacity
    BY <1>1, <1>2, <1>7, <1>10
  <2> HIDE DEF used
  <2>2. CASE Len(used) > Capacity
    <3>1. over = Len(used) - Capacity
      BY <2>2
    <3> HIDE DEF over
    <3>2. Len(used) = Capacity + 1 /\ Len(rest) = Capacity
      BY <1>1, <1>10, <2>1, <2>2
    <3> QED BY <1>1, <1>10, <3>1, <3>2
  <2>3. CASE ~(Len(used) > Capacity)
    <3>1. over = 0
      BY <2>3
    <3> HIDE DEF over
    <3> QED BY <1>1, <1>10, <2>1, <2>3, <3>1
  <2> QED BY <2>2, <2>3
<1> HIDE DEF used, over
<1>12. /\ kept \in Seq(CallRow) /\ Len(kept) = Len(used) - over
       /\ \A i \in 1..(Len(used) - over) : kept[i] = used[i + over]
       /\ Within(kept, used)
  BY <1>10, <1>11, SuffixIs
<1>13. OneRowEach(kept)
  BY <1>10, <1>12, WithinKeepsRows
<1> HIDE DEF kept
<1>14. \A k \in Caller : made[k].calls \in Nat /\ made[k].admitted \in Nat /\ made[k].admitted <= made[k].calls
  BY <1>1, <1>2 DEF CallIInv
<1>15. \A k \in Caller : made'[k].admitted <= made'[k].calls
  <2>1. made'[key].admitted <= made'[key].calls
    BY <1>8, <1>14
  <2> QED BY <1>8, <1>14, <2>1
<1>16. CallTypeOK'
  <2>1. made' \in [Caller -> [calls : 0..MaxCalls, admitted : 0..MaxCalls]]
    <3>1. made[key].calls + 1 \in 0..MaxCalls
          /\ made[key].admitted + (IF row.count <= Maximum THEN 1 ELSE 0) \in 0..MaxCalls
      <4>1. made[key].calls \in Nat /\ made[key].admitted \in Nat /\ made[key].admitted <= made[key].calls
        BY <1>14
      <4>2. made[key].calls < MaxCalls
        BY <1>8
      <4>3. (IF row.count <= Maximum THEN 1 ELSE 0) \in 0..1
        OBVIOUS
      <4> QED BY <1>1, <4>1, <4>2, <4>3
    <3>2. made' = [made EXCEPT
             ![key].calls = made[key].calls + 1,
             ![key].admitted = made[key].admitted + (IF row.count <= Maximum THEN 1 ELSE 0)]
      BY DEF Limit, row
    <3> QED BY <1>2, <3>1, <3>2
  <2>2. windows' \in Seq(CallRow) /\ Len(windows') <= Capacity /\ OneRowEach(windows')
    BY <1>8, <1>11, <1>12, <1>13
  <2>3. ticks' \in 0..MaxTicks
    BY <1>3 DEF CallIInv, CallTypeOK
  <2> QED BY <2>1, <2>2, <2>3 DEF CallTypeOK, CallRow
<1>17. \A i \in 1..Len(used) : i \in 1..Len(rest) \/ i = Len(rest) + 1
  BY <1>7, <1>10
<1>18. ASSUME NEW i \in 1..Len(rest)
       PROVE  \E k \in 1..Len(windows) : rest[i] = windows[k]
  <2>1. i <= i
    BY <1>7
  <2> QED BY <1>6, <2>1 DEF Within
<1>19. \A i \in 1..Len(used) : used[i].minute <= ThisMinute
  <2> TAKE i \in 1..Len(used)
  <2>1. CASE i \in 1..Len(rest)
    BY <1>10, <1>18, <2>1 DEF CallIInv, OldestUseFirst
  <2>2. CASE i = Len(rest) + 1
    BY <1>3, <1>5, <1>10, <2>2
  <2> QED BY <1>17, <2>1, <2>2
<1>20. ASSUME NEW i \in 1..Len(used), NEW j \in 1..Len(used), i <= j
       PROVE  used[i].minute <= used[j].minute
  <2>1. CASE j \in 1..Len(rest)
    <3>1. i \in 1..Len(rest)
      BY <1>7, <1>10, <1>20, <2>1
    <3>2. PICK k \in 1..Len(windows), l \in 1..Len(windows) :
            k <= l /\ rest[i] = windows[k] /\ rest[j] = windows[l]
      BY <1>6, <1>20, <2>1, <3>1 DEF Within
    <3> QED BY <1>10, <2>1, <3>1, <3>2 DEF CallIInv, OldestUseFirst
  <2>2. CASE j = Len(rest) + 1
    BY <1>5, <1>10, <1>19, <2>2
  <2> QED BY <1>17, <2>1, <2>2
<1>21. ASSUME NEW i \in 1..Len(kept)
       PROVE  i + over \in 1..Len(used) /\ kept[i] = used[i + over]
  BY <1>7, <1>10, <1>11, <1>12
<1>22. OldestUseFirst'
  <2>1. ASSUME NEW i \in 1..Len(kept), NEW j \in 1..Len(kept), i <= j
        PROVE  kept[i].minute <= kept[j].minute
    <3>1. PICK k \in 1..Len(used), l \in 1..Len(used) :
            k <= l /\ kept[i] = used[k] /\ kept[j] = used[l]
      BY <1>12, <2>1 DEF Within
    <3> QED BY <1>20, <3>1
  <2>2. \A i \in 1..Len(kept) : kept[i].minute <= ThisMinute
    BY <1>19, <1>21
  <2> QED BY <1>3, <1>8, <2>1, <2>2 DEF OldestUseFirst
<1>23. Calling' = Calling \cup {key}
  <2>1. made'[key].calls > 0
    BY <1>8, <1>14
  <2> QED BY <1>8, <2>1 DEF Calling
<1>24. IsFiniteSet(Calling')
  BY <1>23, FS_AddElement DEF CallIInv
<1>25. RowsAreOfCalling'
  <2> SUFFICES ASSUME NEW i \in 1..Len(kept), kept[i].minute = ThisMinute
               PROVE  kept[i].key \in Calling'
    BY <1>3, <1>8 DEF RowsAreOfCalling
  <2> DEFINE j == i + over
  <2>1. j \in 1..Len(used) /\ kept[i] = used[j]
    BY <1>21
  <2> HIDE DEF j
  <2>2. CASE j \in 1..Len(rest)
    <3>1. PICK k \in 1..Len(windows) : rest[j] = windows[k]
      BY <1>18, <2>2
    <3>2. windows[k].minute = ThisMinute /\ windows[k].key = kept[i].key
      BY <1>10, <2>1, <2>2, <3>1
    <3> QED BY <1>23, <3>2 DEF CallIInv, RowsAreOfCalling
  <2>3. CASE j = Len(rest) + 1
    BY <1>5, <1>10, <1>23, <2>1, <2>3
  <2> QED BY <1>17, <2>1, <2>2, <2>3
<1>26. CallingAreCounted'
  <2> SUFFICES ASSUME Cardinality(Calling') <= Capacity
               PROVE  /\ \A k \in Calling' : CountedInFull(k)'
                      /\ \A k \in Caller : made'[k].admitted <= Maximum
    BY DEF CallingAreCounted
  <2>1. IsFiniteSet(Calling) /\ Cardinality(Calling) \in Nat /\ Cardinality(Calling') \in Nat
        /\ Cardinality(Calling) <= Cardinality(Calling')
        /\ (key \notin Calling => Cardinality(Calling') = Cardinality(Calling) + 1)
    <3>1. IsFiniteSet(Calling)
      BY DEF CallIInv
    <3>2. Cardinality(Calling) \in Nat /\ Cardinality(Calling') \in Nat
      BY <1>24, <3>1, FS_CardinalityType
    <3>3. Cardinality(Calling) <= Cardinality(Calling')
      BY <1>23, <1>24, FS_Subset
    <3>4. key \notin Calling => Cardinality(Calling') = Cardinality(Calling) + 1
      BY <1>23, <3>1, FS_AddElement
    <3> QED BY <3>1, <3>2, <3>3, <3>4
  <2>2. /\ \A k \in Calling : CountedInFull(k)
        /\ \A k \in Caller : made[k].admitted <= Maximum
    <3>1. Cardinality(Calling) <= Capacity
      BY <1>1, <2>1
    <3> QED BY <3>1 DEF CallIInv, CallingAreCounted
  <2>3. row.count = made'[key].calls
    <3>1. CASE key \in Calling
      <4>1. PICK i \in 1..Len(windows) : /\ windows[i].key = key /\ windows[i].minute = ThisMinute
                                         /\ windows[i].count = made[key].calls
        BY <2>2, <3>1 DEF CountedInFull
      <4>2. key \in Keys(windows)
        BY <1>2, <4>1 DEF Keys
      <4>3. RowOf(windows, key) = windows[i]
        <5>1. Place(windows, key) \in 1..Len(windows) /\ RowOf(windows, key) = windows[Place(windows, key)]
              /\ RowOf(windows, key).key = key
          BY <1>2, <4>2, Placed
        <5> QED BY <1>2, <4>1, <5>1 DEF OneRowEach
      <4> QED BY <1>5, <1>8, <4>1, <4>2, <4>3
    <3>2. CASE key \notin Calling
      <4>1. made[key].calls = 0
        BY <1>14, <3>2 DEF Calling
      <4>2. ~(key \in Keys(windows) /\ RowOf(windows, key).minute = ThisMinute)
        <5> SUFFICES ASSUME key \in Keys(windows), RowOf(windows, key).minute = ThisMinute
                     PROVE  FALSE
          OBVIOUS
        <5>1. Place(windows, key) \in 1..Len(windows) /\ RowOf(windows, key) = windows[Place(windows, key)]
              /\ RowOf(windows, key).key = key
          BY <1>2, Placed
        <5> QED BY <3>2, <5>1 DEF CallIInv, RowsAreOfCalling
      <4> QED BY <1>5, <1>8, <4>1, <4>2
    <3> QED BY <3>1, <3>2
  <2>4. \A k \in Caller : made'[k].admitted <= Maximum
    <3>1. made'[key].admitted <= Maximum
      <4>1. CASE row.count <= Maximum
        BY <1>1, <1>8, <1>14, <2>3, <4>1
      <4>2. CASE ~(row.count <= Maximum)
        BY <1>8, <1>14, <2>2, <4>2
      <4> QED BY <4>1, <4>2
    <3> QED BY <1>8, <2>2, <3>1
  <2>5. over = 1 => used[1].minute # ThisMinute
    <3> SUFFICES ASSUME over = 1, used[1].minute = ThisMinute PROVE FALSE
      OBVIOUS
    <3>1. Len(rest) = Capacity /\ Len(windows) = Capacity /\ key \notin Keys(windows)
      <4>1. Len(rest) = Capacity
        BY <1>11
      <4>2. key \notin Keys(windows)
        <5> SUFFICES ASSUME key \in Keys(windows) PROVE FALSE
          OBVIOUS
        <5>1. Len(rest) = Len(windows) - 1
          BY <1>6
        <5> QED BY <1>1, <1>2, <4>1, <5>1
      <4> QED BY <1>6, <4>1, <4>2
    <3>2. rest = windows
      BY <3>1 DEF Without, rest
    <3>3. ASSUME NEW i \in 1..Capacity
          PROVE  windows[i].minute = ThisMinute /\ windows[i].key \in Calling
      <4>1. i \in 1..Len(used) /\ 1 \in 1..Len(used) /\ 1 <= i /\ i \in 1..Len(rest)
        BY <1>1, <1>10, <3>1
      <4>2. used[1].minute <= used[i].minute /\ used[i] = windows[i]
        BY <1>10, <1>20, <3>2, <4>1
      <4>3. windows[i].minute <= ThisMinute /\ windows[i].minute \in Nat
        BY <1>4, <3>1 DEF CallIInv, OldestUseFirst
      <4>4. windows[i].minute = ThisMinute
        BY <1>3, <4>2, <4>3
      <4> QED BY <3>1, <4>4 DEF CallIInv, RowsAreOfCalling
    <3> DEFINE f == [i \in 1..Capacity |-> windows[i].key]
    <3>4. f \in Injection(1..Capacity, Calling)
      <4>1. \A i, j \in 1..Capacity : f[i] = f[j] => i = j
        BY <1>2, <3>1 DEF OneRowEach
      <4>2. f \in [1..Capacity -> Calling]
        BY <3>3
      <4> HIDE DEF f
      <4> QED BY <4>1, <4>2 DEF Injection, IsInjective
    <3> HIDE DEF f
    <3>5. Cardinality(1..Capacity) = Capacity
      BY <1>1, FS_Interval
    <3>6. Capacity <= Cardinality(Calling)
      BY <2>1, <3>4, <3>5, FS_Injection
    <3>7. key \notin Calling
      <4> SUFFICES ASSUME key \in Calling PROVE FALSE
        OBVIOUS
      <4> QED BY <1>2, <2>2, <3>1 DEF CountedInFull, Keys
    <3> QED BY <1>1, <2>1, <3>6, <3>7
  <2>6. ASSUME NEW k \in Calling'
        PROVE  \E i \in 1..Len(kept) : /\ kept[i].key = k /\ kept[i].minute = ThisMinute
                                       /\ kept[i].count = made'[k].calls
    <3>1. CASE k = key
      <4> DEFINE i == Len(kept)
      <4>1. i \in 1..Len(kept) /\ i + over = Len(rest) + 1
        BY <1>7, <1>10, <1>11, <1>12
      <4>2. kept[i] = row
        BY <1>10, <1>21, <4>1
      <4> HIDE DEF i
      <4> QED BY <1>5, <2>3, <3>1, <4>1, <4>2
    <3>2. CASE k # key
      <4>1. PICK i \in 1..Len(windows) : /\ windows[i].key = k /\ windows[i].minute = ThisMinute
                                         /\ windows[i].count = made[k].calls
        BY <1>23, <2>2, <3>2 DEF CountedInFull
      <4>2. PICK j \in 1..Len(rest) : rest[j].key = k
        <5>1. k \in Keys(windows)
          BY <1>2, <4>1 DEF Keys
        <5>2. k \in Keys(rest)
          BY <1>6, <3>2, <5>1
        <5> QED BY <1>7, <5>2 DEF Keys
      <4>3. rest[j] = windows[i]
        <5>1. PICK l \in 1..Len(windows) : rest[j] = windows[l]
          BY <1>18
        <5> QED BY <1>2, <4>1, <4>2, <5>1 DEF OneRowEach
      <4>4. used[j] = windows[i]
        BY <1>10, <4>3
      <4>5. over = 1 => j # 1
        BY <2>5, <4>1, <4>4
      <4> DEFINE n == j - over
      <4>6. n \in 1..Len(kept) /\ n + over = j
        BY <1>7, <1>10, <1>11, <1>12, <4>5
      <4>7. kept[n] = windows[i]
        BY <1>21, <4>4, <4>6
      <4>8. made'[k] = made[k]
        BY <1>8, <3>2 DEF Calling
      <4> HIDE DEF n
      <4> QED BY <4>1, <4>6, <4>7, <4>8
    <3> QED BY <3>1, <3>2
  <2>7. \A k \in Calling' : CountedInFull(k)'
    BY <1>3, <1>8, <2>6 DEF CountedInFull
  <2> QED BY <2>4, <2>7
<1> QED BY <1>15, <1>16, <1>22, <1>24, <1>25, <1>26 DEF CallIInv

LEMMA CallsStepHolds == CallIInv /\ [CallNext]_callVars => CallIInv'
<1> SUFFICES ASSUME CallIInv, [CallNext]_callVars PROVE CallIInv'
  OBVIOUS
<1>1. ASSUME NEW key \in Caller, Limit(key) PROVE CallIInv'
  BY <1>1, LimitStep
<1>2. CASE TicksPass
  BY <1>2, TicksStep
<1>3. CASE UNCHANGED callVars
  <2>1. Calling' = Calling
    BY <1>3 DEF Calling, callVars
  <2>2. ThisMinute' = ThisMinute
    BY <1>3 DEF ThisMinute, MinuteOf, callVars
  <2>3. CallTypeOK' /\ OldestUseFirst'
    BY <1>3, <2>2 DEF callVars, CallIInv, CallTypeOK, OldestUseFirst
  <2>4. RowsAreOfCalling' /\ CallingAreCounted'
    BY <1>3, <2>1, <2>2 DEF callVars, CallIInv, RowsAreOfCalling, CallingAreCounted, CountedInFull
  <2> QED BY <1>3, <2>1, <2>3, <2>4 DEF callVars, CallIInv
<1> QED BY <1>1, <1>2, <1>3 DEF CallNext

\* The inductive invariant of CallLimiter.
LEMMA CallsInvariance == CallSpec => []CallIInv
BY CallsStart, CallsStepHolds, PTL DEF CallSpec

\* The type invariant; a key never has two rows and the table never outgrows its bound.
THEOREM CallTypesHold == CallSpec => []CallTypeOK
<1>1. CallIInv => CallTypeOK
  BY DEF CallIInv
<1> QED BY <1>1, CallsInvariance, PTL

(* Nobody is admitted more than Maximum times in a minute in which no more *)
(* than Capacity keys call.                                                *)
THEOREM CallsAreLimited == CallSpec => []LimitHolds
<1>1. CallIInv => LimitHolds
  BY DEF CallIInv, CallingAreCounted, LimitHolds
<1> QED BY <1>1, CallsInvariance, PTL
=============================================================================
