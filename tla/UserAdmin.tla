------------------------------ MODULE UserAdmin ------------------------------
(***************************************************************************)
(* Accounts in two places: the password file, which is authoritative, and  *)
(* the users table (auth/service.py). UserSyncService copies the file into *)
(* the table whenever the file has changed since it last looked;           *)
(* UserAdministrationService changes both, the file inside the database    *)
(* transaction, and compensates when one of the two fails. Operators edit  *)
(* the file by hand; the process may die anywhere; a login checks the      *)
(* password in one step and stores its session in a later one.             *)
(*                                                                         *)
(* A hash is the password it was made from. Permissions for pages are left *)
(* out. The administrator's operations are one at a time: they hold        *)
(* PasswordFileLock from end to end, as every synchronisation does.        *)
(***************************************************************************)
EXTENDS Naturals, FiniteSets

CONSTANTS
    User, Pw,  \* user names and passwords
    None,      \* no entry in the file, no row, nothing
    MaxUpdates, \* bound: updates by the administrator
    MaxLogins,  \* bound: logins
    MaxEdits,  \* bound: edits of the file by hand
    MaxKills,  \* bound: deaths of the process
    MaxFaults  \* bound: failures of the file system and of the database

ASSUME AdminAssumption ==
    /\ None \notin User
    /\ MaxUpdates \in Nat /\ MaxLogins \in Nat /\ MaxEdits \in Nat /\ MaxKills \in Nat /\ MaxFaults \in Nat

Role == {"admin", "user"}

Entry == [pw: Pw, role: Role]

Row == [pw: Pw, role: Role, active: BOOLEAN]

Entries == [User -> Entry \cup {None}]

\* Nothing is no entry, no row, no file, no login and no set of names.
ASSUME NoneAssumption ==
    /\ None \notin Entry /\ None \notin Row /\ None \notin Entries
    /\ None \notin [user: User, pw: Pw] /\ \A S \in SUBSET User : S # None

VARIABLES
    file, durable, backup, before, goal, at, state, raised, faults, \* PasswordFile
    rows,     \* the table users
    sessions, \* the passwords the stored sessions of each user were opened with
    seen,     \* _last_fingerprint is that of the file as it is
    names,    \* _last_usernames, or None after a start
    step,     \* where UserAdministrationService._update is
    draft,    \* the rows its transaction is about to commit
    revoke,   \* the users whose sessions it deletes
    original, \* the entries it has read
    login,    \* a login between its two steps: [user, pw], or None
    updates, logins, edits, kills, \* counters of the bounds
    owed,     \* history: there was an active administrator since the last edit by hand
    late,     \* history: sessions stored by a login that was overtaken
    excused   \* history: users inactive by decision, or when the process died

PasswordFile == INSTANCE PasswordFile WITH
    Contents <- Entries, NoCopy <- None

fileVars == <<file, durable, backup, before, goal, at, state, raised, faults>>
update == <<step, draft, revoke, original>>
counters == <<updates, logins, edits, kills>>
history == <<owed, late, excused>>
memory == <<seen, names>>
vars == <<fileVars, rows, sessions, memory, update, login, counters, history>>

Step == {"idle", "write", "commit", "record", "recover", "restore", "note", "final"}

TypeOK ==
    /\ PasswordFile!FileTypeOK
    /\ rows \in [User -> Row \cup {None}] /\ draft \in [User -> Row \cup {None}]
    /\ sessions \in [User -> SUBSET Pw] /\ late \in [User -> SUBSET Pw]
    /\ seen \in BOOLEAN /\ names \in (SUBSET User) \cup {None}
    /\ step \in Step /\ revoke \subseteq User /\ original \in Entries
    /\ login \in [user: User, pw: Pw] \cup {None}
    /\ updates \in 0..MaxUpdates /\ logins \in 0..MaxLogins
    /\ edits \in 0..MaxEdits /\ kills \in 0..MaxKills
    /\ owed \in BOOLEAN /\ excused \subseteq User

Named(entries) == {u \in User : entries[u] # None}

Active(table, u) == table[u] # None /\ table[u].active

Admins(table) == {u \in User : Active(table, u) /\ table[u].role = "admin"}

(* The first start: the file names one administrator, nothing is stored.   *)
Init ==
    /\ \E u \in User, p \in Pw :
          file = [v \in User |-> IF v = u THEN [pw |-> p, role |-> "admin"] ELSE None]
    /\ before = file /\ goal = file /\ durable = TRUE /\ backup = None
    /\ at = "idle" /\ state = "not_replaced" /\ raised = FALSE /\ faults = 0
    /\ rows = [u \in User |-> None] /\ draft = rows
    /\ sessions = [u \in User |-> {}] /\ late = sessions
    /\ seen = FALSE /\ names = None
    /\ step = "idle" /\ revoke = {} /\ original = file
    /\ login = None /\ updates = 0 /\ logins = 0 /\ edits = 0 /\ kills = 0
    /\ owed = FALSE /\ excused = {}

LockFree == step = "idle"

-----------------------------------------------------------------------------
(* UserSyncService.                                                        *)

(* Broken variant: an inactive user stays inactive.                        *)
ReactivatedNever(u) == FALSE

(* _synchronize for one user. A user is activated again only if the file   *)
(* is known not to have named him before.                                  *)
Reactivated(u) == ~rows[u].active /\ names # None /\ u \notin names

SyncedRow(u) ==
    IF file[u] = None
    THEN IF rows[u] = None THEN None ELSE [rows[u] EXCEPT !.active = FALSE]
    ELSE [pw |-> file[u].pw, role |-> file[u].role,
          active |-> rows[u] = None \/ rows[u].active \/ Reactivated(u)]

(* Broken variant: only users who have left the file are logged out.       *)
SyncRevokesGone(u) == rows[u] # None /\ file[u] = None

SyncRevokes(u) ==
    /\ rows[u] # None
    /\ file[u] = None \/ file[u].pw # rows[u].pw

(* What every change of the table does to the histories.                   *)
Histories(table, revoked, byHand) ==
    /\ late' = [u \in User |->
                  IF u \in revoked THEN {}
                  ELSE late[u]]
    /\ excused' = {u \in excused \cup byHand : ~Active(table, u)}

Synchronise ==
    /\ rows' = [u \in User |-> SyncedRow(u)]
    /\ LET revoked == {u \in User : SyncRevokes(u)}
       IN /\ sessions' = [u \in User |-> IF u \in revoked THEN {} ELSE sessions[u]]
          /\ Histories(rows', revoked, {})
    /\ seen' = TRUE
    /\ names' = Named(file)
    /\ owed' = (owed \/ Admins(rows') # {})

(* Before every login and every request with a session or a credential.    *)
SyncIfChanged ==
    /\ LockFree
    /\ \/ ~seen /\ Synchronise
       \/ seen /\ UNCHANGED <<rows, sessions, memory, history>>
    /\ UNCHANGED <<fileVars, update, login, counters>>

-----------------------------------------------------------------------------
(* UserAdministrationService.                                              *)

(* Broken variant: deactivated administrators count.                       *)
AdminRemainsInTable(u, role, active) ==
    /\ u \in Admins(rows) =>
           \/ role = "admin" /\ active
           \/ \E v \in User \ {u} : rows[v] # None /\ rows[v].role = "admin"

(* _ensure_admin_remains: the last active administrator stays one.         *)
AdminRemains(u, role, active) ==
    /\ u \in Admins(rows) => (role = "admin" /\ active) \/ Cardinality(Admins(rows)) # 1

(* _update up to replace_password_file: the table is changed in an open    *)
(* transaction, the file is about to be.                                   *)
StartUpdate(u, entry, row, revoked) ==
    /\ LockFree /\ seen /\ updates < MaxUpdates
    /\ updates' = updates + 1
    /\ step' = "write"
    /\ original' = file
    /\ draft' = [rows EXCEPT ![u] = row]
    /\ revoke' = revoked
    /\ PasswordFile!Begin([file EXCEPT ![u] = entry])
    /\ UNCHANGED <<rows, sessions, memory, login, logins, edits, kills, history>>

CreateUser(u, pw, role) ==
    /\ file[u] = None
    /\ StartUpdate(u, [pw |-> pw, role |-> role],
                   [pw |-> pw, role |-> role, active |-> TRUE], {u})

ChangePassword(u, pw) ==
    /\ file[u] # None
    /\ StartUpdate(u, [file[u] EXCEPT !.pw = pw], [rows[u] EXCEPT !.pw = pw], {u})

ChangeRole(u, role) ==
    /\ file[u] # None
    /\ AdminRemains(u, role, rows[u].active)
    /\ StartUpdate(u, [file[u] EXCEPT !.role = role], [rows[u] EXCEPT !.role = role], {})

(* set_active changes the table only.                                      *)
SetActive(u, active) ==
    /\ LockFree /\ seen
    /\ rows[u] # None
    /\ active => file[u] # None
    /\ AdminRemains(u, rows[u].role, active)
    /\ rows' = [rows EXCEPT ![u].active = active]
    /\ sessions' = IF active THEN sessions ELSE [sessions EXCEPT ![u] = {}]
    /\ Histories(rows', {v \in {u} : ~active}, {u})
    /\ UNCHANGED <<fileVars, memory, update, login, counters, owed>>

(* Replacing the file, for the update or for its compensation.             *)
ReplaceFile ==
    /\ step \in {"write", "restore"}
    /\ PasswordFile!FileStep
    /\ seen' = (seen /\ file' = file)
    /\ UNCHANGED <<rows, sessions, names, update, login, counters, history>>

EndUpdate ==
    /\ step' = "idle"
    /\ draft' = [u \in User |-> None] /\ revoke' = {}
    /\ original' = [u \in User |-> None]

(* When the call raised the transaction is rolled back; the file is put    *)
(* back only if it may hold the update.                                    *)
Written ==
    /\ step = "write"
    /\ PasswordFile!Return
    /\ \/ /\ ~raised
          /\ step' = "commit"
          /\ UNCHANGED <<draft, revoke, original>>
       \/ /\ raised /\ PasswordFile!Attempted
          /\ step' = "recover"
          /\ UNCHANGED <<draft, revoke, original>>
       \/ /\ raised /\ ~PasswordFile!Attempted
          /\ EndUpdate
    /\ UNCHANGED <<faults, rows, sessions, memory, login, counters, history>>

Commit ==
    /\ step = "commit"
    /\ \/ /\ step' = "record"
          /\ rows' = draft
          /\ sessions' = [u \in User |-> IF u \in revoke THEN {} ELSE sessions[u]]
          /\ Histories(rows', revoke, {})
          /\ UNCHANGED fileVars
       \/ /\ PasswordFile!Fault
          /\ step' = "recover"
          /\ UNCHANGED <<file, durable, backup, before, goal, at, state, raised,
                         rows, sessions, late, excused>>
    /\ UNCHANGED <<memory, draft, revoke, original, login, counters, owed>>

(* record_managed_snapshot looks at the file again.                        *)
Record ==
    /\ step = "record"
    /\ \/ /\ seen' = TRUE
          /\ names' = Named(file)
          /\ owed' = (owed \/ Admins(rows) # {})
          /\ EndUpdate
          /\ UNCHANGED fileVars
       \/ /\ PasswordFile!Fault
          /\ step' = "recover"
          /\ UNCHANGED <<file, durable, backup, before, goal, at, state, raised,
                         memory, draft, revoke, original, owed>>
    /\ UNCHANGED <<rows, sessions, login, counters, late, excused>>

Compensate ==
    /\ step = "recover"
    /\ step' = "restore"
    /\ PasswordFile!Begin(original)
    /\ UNCHANGED <<rows, sessions, memory, draft, revoke, original, login,
                   counters, history>>

Restored ==
    /\ step = "restore"
    /\ PasswordFile!Return
    /\ step' = IF raised THEN "final" ELSE "note"
    /\ UNCHANGED <<faults, rows, sessions, memory, draft, revoke, original, login,
                   counters, history>>

NoteOriginal ==
    /\ step = "note"
    /\ step' = "final"
    /\ \/ seen' = TRUE /\ names' = Named(original) /\ UNCHANGED fileVars
       \/ /\ PasswordFile!Fault
          /\ UNCHANGED <<file, durable, backup, before, goal, at, state, raised, memory>>
    /\ UNCHANGED <<rows, sessions, draft, revoke, original, login, counters, history>>

(* Broken variant: the fingerprint just recorded is trusted.               *)
FinalSyncIfChanged ==
    /\ step = "final"
    /\ EndUpdate
    /\ \/ ~seen /\ Synchronise
       \/ seen /\ UNCHANGED <<rows, sessions, memory, history>>
    /\ UNCHANGED <<fileVars, login, counters>>

(* _synchronize_final_file forgets the fingerprint first.                  *)
FinalSync ==
    /\ step = "final"
    /\ EndUpdate
    /\ \/ Synchronise /\ UNCHANGED fileVars
       \/ /\ PasswordFile!Fault
          /\ seen' = FALSE
          /\ UNCHANGED <<file, durable, backup, before, goal, at, state, raised,
                         rows, sessions, names, history>>
    /\ UNCHANGED <<login, counters>>

-----------------------------------------------------------------------------
(* Logins, the operator and the end of the process.                        *)

(* login: the row is read and the password verified, outside the lock.     *)
LoginVerifies(u) ==
    /\ login = None /\ names # None
    /\ Active(rows, u)
    /\ logins < MaxLogins
    /\ logins' = logins + 1
    /\ login' = [user |-> u, pw |-> rows[u].pw]
    /\ UNCHANGED <<fileVars, rows, sessions, memory, update, updates, edits, kills,
                   history>>

(* The session is stored once no other transaction holds the database.     *)
LoginStores ==
    /\ login # None
    /\ step \notin {"write", "commit"}
    /\ LET u == login.user
           overtaken == ~Active(rows, u) \/ rows[u].pw # login.pw
       IN /\ sessions' = [sessions EXCEPT ![u] = @ \cup {login.pw}]
          /\ late' = IF overtaken THEN [late EXCEPT ![u] = @ \cup {login.pw}] ELSE late
    /\ login' = None
    /\ UNCHANGED <<fileVars, rows, memory, update, counters, owed, excused>>

Logout(u) ==
    /\ \E pw \in sessions[u] :
          /\ sessions' = [sessions EXCEPT ![u] = @ \ {pw}]
          /\ late' = [late EXCEPT ![u] = @ \ {pw}]
    /\ step \notin {"write", "commit"}
    /\ UNCHANGED <<fileVars, rows, memory, update, login, counters, owed, excused>>

(* An operator edits one line of the file while nobody administers users.  *)
EditByHand(u, entry) ==
    /\ LockFree /\ edits < MaxEdits
    /\ entry # file[u]
    /\ file' = [file EXCEPT ![u] = entry]
    /\ goal' = file'
    /\ seen' = FALSE
    /\ owed' = FALSE
    /\ edits' = edits + 1
    /\ UNCHANGED <<durable, backup, before, at, state, raised, faults, rows, sessions,
                   names, update, login, updates, logins, kills, late, excused>>

(* What the process remembers of the file is lost, and with it which of    *)
(* the inactive users the file had named.                                  *)
Die ==
    /\ kills < MaxKills
    /\ kills' = kills + 1
    /\ PasswordFile!FileDies
    /\ EndUpdate
    /\ seen' = FALSE /\ names' = None
    /\ login' = None
    /\ excused' = {u \in User : rows[u] # None /\ ~rows[u].active}
    /\ UNCHANGED <<rows, sessions, updates, logins, edits, owed, late>>

Administer ==
    \E u \in User :
        \/ \E pw \in Pw, role \in Role : CreateUser(u, pw, role)
        \/ \E pw \in Pw : ChangePassword(u, pw)
        \/ \E role \in Role : ChangeRole(u, role)
        \/ \E active \in BOOLEAN : SetActive(u, active)

Next ==
    \/ SyncIfChanged \/ Administer
    \/ ReplaceFile \/ Written \/ Commit \/ Record
    \/ Compensate \/ Restored \/ NoteOriginal \/ FinalSync
    \/ \E u \in User :
          \/ LoginVerifies(u) \/ Logout(u)
          \/ \E entry \in Entry \cup {None} : EditByHand(u, entry)
    \/ LoginStores \/ Die

Spec == Init /\ [][Next]_vars

-----------------------------------------------------------------------------
(* Properties.                                                             *)

(* What UserAdministrationService is told of the file, when it decides     *)
(* whether to commit, to compensate or to note the file, is so.            *)
ReportIsHonest == PasswordFile!ReportIsHonest

(* The former contents are kept until the new ones are durable, whatever   *)
(* the update, its compensation or the death of the process leave behind.  *)
OldCopyIsKept == PasswordFile!OldCopyIsKept

(* Whenever nobody holds the lock and the process believes to have seen    *)
(* the file, the table says what the file says: password and role of every *)
(* user it names, and no other user is active. Neither a failed commit nor *)
(* a failed compensation nor a death in between leaves a difference that   *)
(* the next request would not remove.                                      *)
RowsFollowFile ==
    LockFree /\ seen =>
        \A u \in User :
            IF file[u] = None THEN ~Active(rows, u)
            ELSE /\ rows[u] # None
                 /\ rows[u].pw = file[u].pw /\ rows[u].role = file[u].role

(* A user whom the file names is active, unless an administrator has       *)
(* deactivated him or the process died while he was out of the file.       *)
NamedIsActive ==
    LockFree /\ seen =>
        \A u \in User : file[u] # None /\ u \notin excused => Active(rows, u)

(* Sessions belong to active users and their current password; the only    *)
(* exceptions are those of a login that had verified the password before   *)
(* it was changed, or the user before he was deactivated.                  *)
SessionsAreCurrent ==
    \A u \in User :
        sessions[u] \ late[u] \subseteq IF Active(rows, u) THEN {rows[u].pw} ELSE {}

(* Once there is an active administrator there is one whenever the file    *)
(* and the table agree again, until somebody edits the file by hand.       *)
AdminIsKept == LockFree /\ seen /\ owed => Admins(rows) # {}
=============================================================================
