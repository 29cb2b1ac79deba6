---------------------------- MODULE PasswordFile ----------------------------
(***************************************************************************)
(* Replacing the password file: replace_password_file_contents with its    *)
(* recovery (auth/password_file.py). One step is one action on the file    *)
(* system that may fail on its own; the caller holds PasswordFileLock.     *)
(*                                                                         *)
(* The file is its contents. Of the directory the model keeps whether the  *)
(* entry of the file is known to have reached the disk, and the copy of    *)
(* the former contents that is kept until then.                            *)
(***************************************************************************)
EXTENDS Naturals

CONSTANTS
    Contents,  \* what the file may contain
    NoCopy,    \* there is no backup; not in Contents
    MaxFaults  \* bound: failures of the file system and of the database

VARIABLES
    file,    \* what a reader of the path sees
    durable, \* the entry of the file is synchronised since it last changed
    backup,  \* the recovery copy, or NoCopy
    before,  \* history: what the file contained when the last replacement began
    goal,    \* the contents to be written
    at,      \* where replace_password_file_contents is
    state,   \* its _UpdateState
    raised,  \* it ends with an exception
    faults   \* failures so far

fileVars == <<file, durable, backup, before, goal, at, state, raised, faults>>

UpdateState == {"not_replaced", "replaced_pending_durability",
                "restored_pending_durability", "restored", "persisted"}

At == {"idle", "backup", "temp", "replace", "sync", "restore", "restoring",
       "resync", "clean", "done"}

FileTypeOK ==
    /\ file \in Contents /\ before \in Contents /\ goal \in Contents
    /\ backup \in Contents \cup {NoCopy}
    /\ durable \in BOOLEAN /\ raised \in BOOLEAN
    /\ at \in At /\ state \in UpdateState /\ faults \in 0..MaxFaults

Begin(contents) ==
    /\ at = "idle"
    /\ at' = "backup"
    /\ goal' = contents
    /\ state' = "not_replaced"
    /\ raised' = FALSE
    /\ UNCHANGED <<file, durable, backup, before, faults>>

(* The caller has looked at state and raised.                              *)
Return ==
    /\ at = "done"
    /\ at' = "idle"
    /\ goal' = file
    /\ state' = "not_replaced"
    /\ raised' = FALSE
    /\ before' = IF backup = NoCopy THEN file ELSE before
    /\ UNCHANGED <<file, durable, backup>>

(* _file_contains_attempted_update: what the caller takes for the file     *)
(* holding the new contents although the call raised.                      *)
Attempted == state \in {"persisted", "replaced_pending_durability"}

Fault ==
    /\ faults < MaxFaults
    /\ faults' = faults + 1

-----------------------------------------------------------------------------
(* _write_private_copy of the current contents, and the directory.         *)
WriteBackup ==
    /\ at = "backup"
    /\ at' = "temp"
    /\ backup' = file
    /\ before' = file
    /\ durable' = TRUE
    /\ UNCHANGED <<file, goal, state, raised, faults>>

WriteTemporary ==
    /\ at = "temp"
    /\ at' = "replace"
    /\ UNCHANGED <<file, durable, backup, before, goal, state, raised, faults>>

Replace ==
    /\ at = "replace"
    /\ at' = "sync"
    /\ file' = goal
    /\ durable' = FALSE
    /\ state' = "replaced_pending_durability"
    /\ UNCHANGED <<backup, before, goal, raised, faults>>

(* A failure before os.replace: both copies are removed. Nothing has       *)
(* happened to the file, whether or not the removal succeeds.              *)
FailsBeforeReplace ==
    /\ at \in {"backup", "temp", "replace"}
    /\ Fault
    /\ at' = "done"
    /\ raised' = TRUE
    /\ backup' \in IF at = "backup" THEN {backup} ELSE {backup, NoCopy}
    /\ UNCHANGED <<file, durable, before, goal, state>>

SyncDirectory ==
    /\ at = "sync"
    /\ \/ /\ at' = "clean"
          /\ state' = "persisted"
          /\ durable' = TRUE
          /\ UNCHANGED <<raised, faults>>
       \/ /\ Fault
          /\ at' = "restore"
          /\ raised' = TRUE
          /\ UNCHANGED <<state, durable>>
    /\ UNCHANGED <<file, backup, before, goal>>

-----------------------------------------------------------------------------
(* _restore_previous: copy the backup, put the copy in place, synchronise. *)
CopyBackup ==
    /\ at = "restore"
    /\ at' = "restoring"
    /\ UNCHANGED <<file, durable, backup, before, goal, state, raised, faults>>

PutBack ==
    /\ at = "restoring"
    /\ at' = "resync"
    /\ file' = backup
    /\ durable' = FALSE
    /\ UNCHANGED <<backup, before, goal, state, raised, faults>>

(* Broken variant: the backup is removed as after any other failure.       *)
FailsToRestoreTidily ==
    /\ at \in {"restore", "restoring"}
    /\ Fault
    /\ at' = "done"
    /\ backup' = NoCopy
    /\ UNCHANGED <<file, durable, before, goal, state, raised>>

(* The backup is the only old version left: it is kept.                    *)
FailsToRestore ==
    /\ at \in {"restore", "restoring"}
    /\ Fault
    /\ at' = "done"
    /\ UNCHANGED <<file, durable, backup, before, goal, state, raised>>

(* Broken variant: the old contents are back, so all is well.              *)
ResyncDirectoryHopefully ==
    /\ at = "resync"
    /\ state' = "restored"
    /\ at' = "clean"
    /\ UNCHANGED <<file, durable, backup, before, goal, raised, faults>>

ResyncDirectory ==
    /\ at = "resync"
    /\ \/ /\ at' = "clean"
          /\ state' = "restored"
          /\ durable' = TRUE
          /\ UNCHANGED faults
       \/ /\ Fault
          /\ at' = "done"
          /\ state' = "restored_pending_durability"
          /\ UNCHANGED durable
    /\ UNCHANGED <<file, backup, before, goal, raised>>

(* _cleanup_errors: unlink the backup and synchronise; either may fail.    *)
RemoveBackup ==
    /\ at = "clean"
    /\ at' = "done"
    /\ \/ backup' = NoCopy /\ UNCHANGED <<raised, faults>>
       \/ Fault /\ raised' = TRUE /\ backup' \in {backup, NoCopy}
    /\ UNCHANGED <<file, durable, before, goal, state>>

FileStep ==
    \/ WriteBackup \/ WriteTemporary \/ Replace \/ FailsBeforeReplace
    \/ SyncDirectory \/ CopyBackup \/ PutBack \/ FailsToRestore
    \/ ResyncDirectory \/ RemoveBackup

(* The process dies: nothing of the call is left but what it wrote.        *)
FileDies ==
    /\ at' = "idle"
    /\ goal' = file
    /\ state' = "not_replaced"
    /\ raised' = FALSE
    /\ UNCHANGED <<file, durable, backup, before, faults>>

-----------------------------------------------------------------------------
(* What the caller is told is so: after the call the file holds the new    *)
(* contents exactly in the two states the caller takes for it, it is on    *)
(* disk in the states not called pending, and a call that does not raise   *)
(* has persisted the new contents.                                         *)
ReportIsHonest ==
    at = "done" =>
        /\ Attempted => file = goal
        /\ state \in {"restored", "restored_pending_durability"} => file = before
        /\ state \in {"persisted", "restored"} => durable
        /\ raised \/ state = "persisted"

(* As long as the directory entry may still be lost, the former contents   *)
(* are kept in a copy, whatever failed and wherever the process died.      *)
OldCopyIsKept == ~durable => backup = before
=============================================================================
