---------------------------- MODULE TaskRunProofs ----------------------------
(***************************************************************************)
(* Proofs about TaskRun, for any number of seeds, addresses and candidates *)
(* and every interruption: what the row of a finished task says is true of *)
(* its run, a cancel request stops the work, items and policies agree, and *)
(* the run implements TaskLifecycle.                                       *)
(***************************************************************************)
EXTENDS TaskRun, FiniteSetTheorems, SequenceTheorems, TLAPS

(* The columns of the row and the locals of run_claimed, by type. The two  *)
(* counters of addresses share the bound.                                  *)
CountsRow ==
    [success : 0..MaxCandidates, duplicate : 0..MaxCandidates,
     filtered : 0..MaxCandidates, failed : 0..MaxCandidates]

RowOK ==
    /\ status \in Lifecycle!Status /\ cancel \in BOOLEAN /\ doomed \in BOOLEAN
    /\ discovered \in 0..MaxCandidates
    /\ counts \in CountsRow

RunOK ==
    /\ pc \in PC /\ verdict \in Terminal \cup {"none"}
    /\ entries \in Nat /\ attempted \in Nat /\ entries + attempted <= MaxEntries
    /\ pc \in {"new", "load"} => attempted = 0
    /\ failedEntries \in 0..attempted /\ (pc = "fetch" => failedEntries < attempted)
    /\ verifiedFailed \in BOOLEAN /\ ordinaryFailed \in BOOLEAN /\ productive \in BOOLEAN
    /\ handling \in BOOLEAN /\ asking \in BOOLEAN
    /\ lastItem \in BOOLEAN /\ atCancel \in 0..MaxCandidates

(* Each candidate has at most one item, each item one committed outcome.   *)
ListsOK ==
    /\ items \in Seq(ItemStatus) /\ committed \in Seq(PolicyOutcome \cup {"none"})
    /\ candidates \in Seq(BOOLEAN)
    /\ Len(candidates) <= MaxCandidates
    /\ Len(items) <= Len(candidates) /\ Len(committed) = Len(items)
    /\ pc = "create" => Len(items) < Len(candidates)
    /\ pc = "decide" => Len(items) = Len(candidates)

(* Until the discovery is counted there are no items; afterwards as many   *)
(* candidates as were counted.                                             *)
Discovering == {"new", "load", "discover", "fetch", "fetched", "count"}

Looping == {"next", "create", "process", "after", "decide"}

ItemsAreDiscovered ==
    /\ pc \in Discovering => items = <<>>
    /\ pc \in Looping \cup {"counted"} => discovered = Len(candidates)
    /\ Len(items) <= discovered

(* The row is running while run_claimed runs, and leaves that status by    *)
(* finish, or at the next start.                                           *)
RowFollowsRun ==
    /\ pc = "new" <=> status \in {"absent", "pending"}
    /\ pc \notin {"new", "returned", "dead"} => status = "running"
    /\ pc = "returned" => status = verdict \/ (status = "running" /\ handling)
    /\ status = "absent" => ~cancel /\ ~asking /\ ~doomed
    /\ pc \in {"finish", "returned"} => verdict \in Terminal
    /\ handling /\ pc # "dead" => pc \in {"finish", "returned"} /\ verdict = "failed"

(* A task that was cancelled before its claim never reaches the candidates.*)
DoomedDoesNoWork ==
    /\ doomed => cancel /\ pc \notin Looping
    /\ doomed /\ pc \in {"finish", "returned"} => verdict \in {"cancelled", "failed"}
    /\ doomed => status \notin {"succeeded", "partially_succeeded"}

(* The candidate in progress has an item that is marked failed already.    *)
InProgress(i) == pc = "process" /\ i = Len(items)

ItemIsProvisional ==
    pc = "process" =>
        Len(items) > 0 /\ items[Len(items)] = "failed" /\ committed[Len(items)] = "none"

(* The flags of run_claimed tell what its finished items are.              *)
FlagsTellTheWork ==
    pc \notin {"finish", "returned", "dead"} =>
        /\ \A i \in DOMAIN items : items[i] = "failed" /\ ~InProgress(i) =>
              IF candidates[i] THEN verifiedFailed ELSE ordinaryFailed
        /\ ordinaryFailed =>
              \E i \in DOMAIN items : items[i] = "failed" /\ ~candidates[i] /\ ~InProgress(i)
        /\ productive => \E i \in DOMAIN items : items[i] # "failed"

(* StatusIsHonest, of the verdict, from the moment it is reached.          *)
VerdictIsHonest ==
    pc \in {"finish", "returned"} =>
        LET Failed(v) == \E i \in DOMAIN items : items[i] = "failed" /\ candidates[i] = v
            AllDone == Len(items) = Len(candidates)
            Results == \E i \in DOMAIN items : items[i] # "failed"
        IN /\ verdict = "succeeded" =>
                AllDone /\ failedEntries = 0 /\ ~Failed(TRUE) /\ ~Failed(FALSE)
           /\ verdict = "partially_succeeded" =>
                /\ AllDone /\ Results /\ ~Failed(TRUE)
                /\ failedEntries > 0 \/ Failed(FALSE)
           /\ verdict = "cancelled" => cancel

(* CancelStopsWork; the item after the request is the one whose check had  *)
(* passed.                                                                 *)
CancelIsSeen ==
    cancel => Len(items) <= atCancel + IF pc = "create" THEN 0 ELSE 1

(* The inductive invariant. The four properties lean on it: what a status  *)
(* says on the flags, the flags on the item in progress; the counters on   *)
(* the items being one for each candidate.                                 *)
IInv ==
    /\ RowOK
    /\ RunOK
    /\ ListsOK
    /\ ItemsAreDiscovered
    /\ RowFollowsRun
    /\ DoomedDoesNoWork
    /\ ItemIsProvisional
    /\ FlagsTellTheWork
    /\ VerdictIsHonest
    /\ CancelIsSeen
    /\ ItemsMatchPolicies
    /\ CountsMatchItems

-----------------------------------------------------------------------------
(* The steps.                                                              *)

LEMMA InitHolds == Init => IInv
<1> SUFFICES ASSUME Init PROVE IInv
  OBVIOUS
<1>1. RowOK
  <2>1. MaxCandidates \in Nat
    BY RunAssumption DEF RunAssumption
  <2>2. counts \in CountsRow
    BY <2>1 DEF Init, CountsRow, NoCounts
  <2>3. status \in Lifecycle!Status /\ cancel \in BOOLEAN /\ doomed \in BOOLEAN
    BY DEF Init, Lifecycle!Status
  <2>4. discovered \in 0..MaxCandidates
    BY <2>1 DEF Init
  <2> QED
    BY <2>2, <2>3, <2>4 DEF RowOK
<1>2. RunOK
  <2>1. MaxCandidates \in Nat /\ MaxEntries \in Nat
    BY RunAssumption DEF RunAssumption
  <2>2. /\ verifiedFailed \in BOOLEAN /\ ordinaryFailed \in BOOLEAN /\ productive \in BOOLEAN
        /\ handling \in BOOLEAN /\ asking \in BOOLEAN /\ lastItem \in BOOLEAN
    BY DEF Init
  <2>3. /\ pc \in PC /\ pc # "fetch" /\ verdict = "none"
        /\ entries = 0 /\ attempted = 0 /\ failedEntries = 0 /\ atCancel = 0
    BY DEF Init, PC
  <2> QED
    BY <2>1, <2>2, <2>3 DEF RunOK
<1>3. ListsOK
  BY RunAssumption, EmptySeq DEF RunAssumption, Init, ListsOK
<1>4. ItemsAreDiscovered /\ RowFollowsRun /\ DoomedDoesNoWork /\ ItemIsProvisional /\ CancelIsSeen
  BY DEF Init, ItemsAreDiscovered, Discovering, Looping, RowFollowsRun, DoomedDoesNoWork,
         ItemIsProvisional, CancelIsSeen
<1>5. FlagsTellTheWork /\ VerdictIsHonest /\ ItemsMatchPolicies /\ CountsMatchItems
  BY DEF Init, FlagsTellTheWork, VerdictIsHonest, ItemsMatchPolicies, CountsMatchItems
<1> QED
  BY <1>1, <1>2, <1>3, <1>4, <1>5 DEF IInv

(* What SeqOf is: the sequences of bounded length.                         *)
LEMMA BoundedSequences ==
    ASSUME NEW S, NEW n \in Nat
    PROVE  \A s : s \in SeqOf(S, n) <=> s \in Seq(S) /\ Len(s) <= n
<1>1. ASSUME NEW s \in SeqOf(S, n)
      PROVE  s \in Seq(S) /\ Len(s) <= n
  <2>1. PICK m \in 0..n : s \in [1..m -> S]
    BY <1>1 DEF SeqOf
  <2>2. s \in Seq(S)
    BY <2>1, SeqDef
  <2> QED
    BY <2>1, <2>2, LenProperties
<1>2. ASSUME NEW s \in Seq(S), Len(s) <= n
      PROVE  s \in SeqOf(S, n)
  <2>1. Len(s) \in 0..n /\ s \in [1..Len(s) -> S]
    BY <1>2, LenProperties
  <2> QED
    BY <2>1 DEF SeqOf
<1> QED
  BY <1>1, <1>2

(* The lists, as functions of their positions.                             *)
LEMMA Positions ==
    ASSUME IInv
    PROVE  /\ Len(items) \in Nat /\ Len(candidates) \in Nat
           /\ DOMAIN items = 1..Len(items) /\ DOMAIN committed = 1..Len(items)
           /\ \A i \in 1..Len(items) :
                 items[i] \in ItemStatus /\ committed[i] \in PolicyOutcome \cup {"none"}
           /\ \A i \in 1..Len(candidates) : candidates[i] \in BOOLEAN
BY LenProperties, ElementOfSeq DEF IInv, ListsOK

LEMMA CreateStep == IInv /\ Create => IInv'
<1> SUFFICES ASSUME IInv, Create PROVE IInv'
  OBVIOUS
<1> USE DEF Create, row, locals, flags, history
<1>1. RowOK' /\ RunOK'
  BY RunAssumption, LenProperties DEF RunAssumption, IInv, RowOK, RunOK, ListsOK, RowFollowsRun,
     PC, Terminal, Lifecycle!Terminal, Lifecycle!Status
<1>2. ListsOK' /\ ItemsAreDiscovered' /\ CancelIsSeen'
  BY DEF IInv, RowOK, RunOK, ListsOK, ItemsAreDiscovered, RowFollowsRun, CancelIsSeen,
     Discovering, Looping
<1>3. RowFollowsRun' /\ DoomedDoesNoWork'
  BY DEF IInv, RowOK, RunOK, RowFollowsRun, DoomedDoesNoWork, Looping, PC, Terminal,
     Lifecycle!Terminal, Lifecycle!Status
<1>4. ItemIsProvisional' /\ ItemsMatchPolicies'
  BY DEF IInv, ItemIsProvisional, ItemsMatchPolicies
<1>5. FlagsTellTheWork'
  BY DEF IInv, RowFollowsRun, FlagsTellTheWork, InProgress
<1>6. VerdictIsHonest'
  BY DEF IInv, VerdictIsHonest
<1>7. CountsMatchItems'
  BY DEF IInv, CountsMatchItems, RowFollowsRun
<1> QED
  BY <1>1, <1>2, <1>3, <1>4, <1>5, <1>6, <1>7 DEF IInv

LEMMA ClaimStep == IInv /\ Claim => IInv'
<1> SUFFICES ASSUME IInv, Claim PROVE IInv'
  OBVIOUS
<1> USE DEF Claim, row, locals, flags, history
<1>1. RowOK' /\ RunOK'
  BY RunAssumption, LenProperties DEF RunAssumption, IInv, RowOK, RunOK, ListsOK, RowFollowsRun,
     PC, Terminal, Lifecycle!Terminal, Lifecycle!Status
<1>2. ListsOK' /\ ItemsAreDiscovered' /\ CancelIsSeen'
  BY DEF IInv, RowOK, RunOK, ListsOK, ItemsAreDiscovered, RowFollowsRun, CancelIsSeen,
     Discovering, Looping
<1>3. RowFollowsRun' /\ DoomedDoesNoWork'
  BY DEF IInv, RowOK, RunOK, RowFollowsRun, DoomedDoesNoWork, Looping, PC, Terminal,
     Lifecycle!Terminal, Lifecycle!Status
<1>4. ItemIsProvisional' /\ ItemsMatchPolicies'
  BY DEF IInv, ItemIsProvisional, ItemsMatchPolicies
<1>5. FlagsTellTheWork'
  BY DEF IInv, RowFollowsRun, FlagsTellTheWork, InProgress
<1>6. VerdictIsHonest'
  BY DEF IInv, VerdictIsHonest
<1>7. CountsMatchItems'
  BY DEF IInv, CountsMatchItems, RowFollowsRun
<1> QED
  BY <1>1, <1>2, <1>3, <1>4, <1>5, <1>6, <1>7 DEF IInv

LEMMA RequestCancelStep == IInv /\ RequestCancel => IInv'
<1> SUFFICES ASSUME IInv, RequestCancel PROVE IInv'
  OBVIOUS
<1> USE DEF RequestCancel, row, locals, flags, history
<1>1. RowOK' /\ RunOK'
  BY RunAssumption, LenProperties DEF RunAssumption, IInv, RowOK, RunOK, ListsOK, RowFollowsRun,
     PC, Terminal, Lifecycle!Terminal, Lifecycle!Status
<1>2. ListsOK' /\ ItemsAreDiscovered' /\ CancelIsSeen'
  BY DEF IInv, RowOK, RunOK, ListsOK, ItemsAreDiscovered, RowFollowsRun, CancelIsSeen,
     Discovering, Looping
<1>3. RowFollowsRun' /\ DoomedDoesNoWork'
  BY DEF IInv, RowOK, RunOK, RowFollowsRun, DoomedDoesNoWork, Looping, PC, Terminal,
     Lifecycle!Terminal, Lifecycle!Status
<1>4. ItemIsProvisional' /\ ItemsMatchPolicies'
  BY DEF IInv, ItemIsProvisional, ItemsMatchPolicies
<1>5. FlagsTellTheWork'
  BY DEF IInv, RowFollowsRun, FlagsTellTheWork, InProgress
<1>6. VerdictIsHonest'
  BY DEF IInv, VerdictIsHonest
<1>7. CountsMatchItems'
  BY DEF IInv, CountsMatchItems, RowFollowsRun
<1> QED
  BY <1>1, <1>2, <1>3, <1>4, <1>5, <1>6, <1>7 DEF IInv

LEMMA MarkCancelStep == IInv /\ MarkCancel => IInv'
<1> SUFFICES ASSUME IInv, MarkCancel PROVE IInv'
  OBVIOUS
<1> USE DEF MarkCancel, row, locals, flags, history
<1>1. RowOK' /\ RunOK'
  <2>1. Len(items) \in 0..MaxCandidates /\ cancel' = TRUE /\ asking' = FALSE
    BY Positions, RunAssumption DEF RunAssumption, IInv, ListsOK
  <2>2. cancel' \in BOOLEAN /\ asking' \in BOOLEAN /\ atCancel' \in 0..MaxCandidates
    BY <2>1
  <2> QED
    BY <2>2 DEF IInv, RowOK, RunOK
<1>2. ListsOK' /\ ItemsAreDiscovered' /\ CancelIsSeen'
  BY DEF IInv, RowOK, RunOK, ListsOK, ItemsAreDiscovered, RowFollowsRun, CancelIsSeen,
     Discovering, Looping
<1>3. RowFollowsRun' /\ DoomedDoesNoWork'
  BY DEF IInv, RowOK, RunOK, RowFollowsRun, DoomedDoesNoWork, Looping, PC, Terminal,
     Lifecycle!Terminal, Lifecycle!Status
<1>4. ItemIsProvisional' /\ ItemsMatchPolicies'
  BY DEF IInv, ItemIsProvisional, ItemsMatchPolicies
<1>5. FlagsTellTheWork'
  BY DEF IInv, RowFollowsRun, FlagsTellTheWork, InProgress
<1>6. VerdictIsHonest'
  BY DEF IInv, VerdictIsHonest
<1>7. CountsMatchItems'
  BY DEF IInv, CountsMatchItems, RowFollowsRun
<1> QED
  BY <1>1, <1>2, <1>3, <1>4, <1>5, <1>6, <1>7 DEF IInv

LEMMA CrashStep == IInv /\ Crash => IInv'
<1> SUFFICES ASSUME IInv, Crash PROVE IInv'
  OBVIOUS
<1> USE DEF Crash, row, locals, flags, history
<1>1. RowOK' /\ RunOK'
  BY RunAssumption, LenProperties DEF RunAssumption, IInv, RowOK, RunOK, ListsOK, RowFollowsRun,
     PC, Terminal, Lifecycle!Terminal, Lifecycle!Status
<1>2. ListsOK' /\ ItemsAreDiscovered' /\ CancelIsSeen'
  BY DEF IInv, RowOK, RunOK, ListsOK, ItemsAreDiscovered, RowFollowsRun, CancelIsSeen,
     Discovering, Looping
<1>3. RowFollowsRun' /\ DoomedDoesNoWork'
  BY DEF IInv, RowOK, RunOK, RowFollowsRun, DoomedDoesNoWork, Looping, PC, Terminal,
     Lifecycle!Terminal, Lifecycle!Status
<1>4. ItemIsProvisional' /\ ItemsMatchPolicies'
  BY DEF IInv, ItemIsProvisional, ItemsMatchPolicies
<1>5. FlagsTellTheWork'
  BY DEF IInv, RowFollowsRun, FlagsTellTheWork, InProgress
<1>6. VerdictIsHonest'
  BY DEF IInv, VerdictIsHonest
<1>7. CountsMatchItems'
  BY DEF IInv, CountsMatchItems, RowFollowsRun
<1> QED
  BY <1>1, <1>2, <1>3, <1>4, <1>5, <1>6, <1>7 DEF IInv

LEMMA RecoverStep == IInv /\ Recover => IInv'
<1> SUFFICES ASSUME IInv, Recover PROVE IInv'
  OBVIOUS
<1> USE DEF Recover, row, locals, flags, history
<1>1. RowOK' /\ RunOK'
  BY RunAssumption, LenProperties DEF RunAssumption, IInv, RowOK, RunOK, ListsOK, RowFollowsRun,
     PC, Terminal, Lifecycle!Terminal, Lifecycle!Status
<1>2. ListsOK' /\ ItemsAreDiscovered' /\ CancelIsSeen'
  BY DEF IInv, RowOK, RunOK, ListsOK, ItemsAreDiscovered, RowFollowsRun, CancelIsSeen,
     Discovering, Looping
<1>3. RowFollowsRun' /\ DoomedDoesNoWork'
  BY DEF IInv, RowOK, RunOK, RowFollowsRun, DoomedDoesNoWork, Looping, PC, Terminal,
     Lifecycle!Terminal, Lifecycle!Status
<1>4. ItemIsProvisional' /\ ItemsMatchPolicies'
  BY DEF IInv, ItemIsProvisional, ItemsMatchPolicies
<1>5. FlagsTellTheWork'
  BY DEF IInv, RowFollowsRun, FlagsTellTheWork, InProgress
<1>6. VerdictIsHonest'
  BY DEF IInv, VerdictIsHonest
<1>7. CountsMatchItems'
  BY DEF IInv, CountsMatchItems, RowFollowsRun
<1> QED
  BY <1>1, <1>2, <1>3, <1>4, <1>5, <1>6, <1>7 DEF IInv

LEMMA ExceptStep == IInv /\ Except => IInv'
<1> SUFFICES ASSUME IInv, Except PROVE IInv'
  OBVIOUS
<1> USE DEF Except, InRun, row, locals, flags, history
<1>1. RowOK' /\ RunOK'
  BY RunAssumption, LenProperties DEF RunAssumption, IInv, RowOK, RunOK, ListsOK, RowFollowsRun,
     PC, Terminal, Lifecycle!Terminal, Lifecycle!Status
<1>2. ListsOK' /\ ItemsAreDiscovered' /\ CancelIsSeen'
  BY DEF IInv, RowOK, RunOK, ListsOK, ItemsAreDiscovered, RowFollowsRun, CancelIsSeen,
     Discovering, Looping
<1>3. RowFollowsRun' /\ DoomedDoesNoWork'
  BY DEF IInv, RowOK, RunOK, RowFollowsRun, DoomedDoesNoWork, Looping, PC, Terminal,
     Lifecycle!Terminal, Lifecycle!Status
<1>4. ItemIsProvisional' /\ ItemsMatchPolicies'
  BY DEF IInv, ItemIsProvisional, ItemsMatchPolicies
<1>5. FlagsTellTheWork'
  BY DEF IInv, RowFollowsRun, FlagsTellTheWork, InProgress
<1>6. VerdictIsHonest'
  BY DEF IInv, VerdictIsHonest
<1>7. CountsMatchItems'
  BY DEF IInv, CountsMatchItems, RowFollowsRun
<1> QED
  BY <1>1, <1>2, <1>3, <1>4, <1>5, <1>6, <1>7 DEF IInv

LEMMA FinishFailsStep == IInv /\ FinishFails => IInv'
<1> SUFFICES ASSUME IInv, FinishFails PROVE IInv'
  OBVIOUS
<1> USE DEF FinishFails, row, locals, flags, history
<1>1. RowOK' /\ RunOK'
  BY RunAssumption, LenProperties DEF RunAssumption, IInv, RowOK, RunOK, ListsOK, RowFollowsRun,
     PC, Terminal, Lifecycle!Terminal, Lifecycle!Status
<1>2. ListsOK' /\ ItemsAreDiscovered' /\ CancelIsSeen'
  BY DEF IInv, RowOK, RunOK, ListsOK, ItemsAreDiscovered, RowFollowsRun, CancelIsSeen,
     Discovering, Looping
<1>3. RowFollowsRun' /\ DoomedDoesNoWork'
  BY DEF IInv, RowOK, RunOK, RowFollowsRun, DoomedDoesNoWork, Looping, PC, Terminal,
     Lifecycle!Terminal, Lifecycle!Status
<1>4. ItemIsProvisional' /\ ItemsMatchPolicies'
  BY DEF IInv, ItemIsProvisional, ItemsMatchPolicies
<1>5. FlagsTellTheWork'
  BY DEF IInv, RowFollowsRun, FlagsTellTheWork, InProgress
<1>6. VerdictIsHonest'
  BY DEF IInv, VerdictIsHonest
<1>7. CountsMatchItems'
  BY DEF IInv, CountsMatchItems, RowFollowsRun
<1> QED
  BY <1>1, <1>2, <1>3, <1>4, <1>5, <1>6, <1>7 DEF IInv

LEMMA DiscoverStep == IInv /\ Discover => IInv'
<1> SUFFICES ASSUME IInv, Discover PROVE IInv'
  OBVIOUS
<1> USE DEF Discover, GoTo, row, locals, flags, history
<1>1. RowOK' /\ RunOK'
  BY RunAssumption, LenProperties DEF RunAssumption, IInv, RowOK, RunOK, ListsOK, RowFollowsRun,
     PC, Terminal, Lifecycle!Terminal, Lifecycle!Status
<1>2. ListsOK' /\ ItemsAreDiscovered' /\ CancelIsSeen'
  BY DEF IInv, RowOK, RunOK, ListsOK, ItemsAreDiscovered, RowFollowsRun, CancelIsSeen,
     Discovering, Looping
<1>3. RowFollowsRun' /\ DoomedDoesNoWork'
  BY DEF IInv, RowOK, RunOK, RowFollowsRun, DoomedDoesNoWork, Looping, PC, Terminal,
     Lifecycle!Terminal, Lifecycle!Status
<1>4. ItemIsProvisional' /\ ItemsMatchPolicies'
  BY DEF IInv, ItemIsProvisional, ItemsMatchPolicies
<1>5. FlagsTellTheWork'
  BY DEF IInv, RowFollowsRun, FlagsTellTheWork, InProgress
<1>6. VerdictIsHonest'
  BY DEF IInv, VerdictIsHonest
<1>7. CountsMatchItems'
  BY DEF IInv, CountsMatchItems, RowFollowsRun
<1> QED
  BY <1>1, <1>2, <1>3, <1>4, <1>5, <1>6, <1>7 DEF IInv

LEMMA FetchEntryFailsStep == IInv /\ FetchEntryFails => IInv'
<1> SUFFICES ASSUME IInv, FetchEntryFails PROVE IInv'
  OBVIOUS
<1> USE DEF FetchEntryFails, row, locals, flags, history
<1>1. RowOK' /\ RunOK'
  BY RunAssumption, LenProperties DEF RunAssumption, IInv, RowOK, RunOK, ListsOK, RowFollowsRun,
     PC, Terminal, Lifecycle!Terminal, Lifecycle!Status
<1>2. ListsOK' /\ ItemsAreDiscovered' /\ CancelIsSeen'
  BY DEF IInv, RowOK, RunOK, ListsOK, ItemsAreDiscovered, RowFollowsRun, CancelIsSeen,
     Discovering, Looping
<1>3. RowFollowsRun' /\ DoomedDoesNoWork'
  BY DEF IInv, RowOK, RunOK, RowFollowsRun, DoomedDoesNoWork, Looping, PC, Terminal,
     Lifecycle!Terminal, Lifecycle!Status
<1>4. ItemIsProvisional' /\ ItemsMatchPolicies'
  BY DEF IInv, ItemIsProvisional, ItemsMatchPolicies
<1>5. FlagsTellTheWork'
  BY DEF IInv, RowFollowsRun, FlagsTellTheWork, InProgress
<1>6. VerdictIsHonest'
  BY DEF IInv, VerdictIsHonest
<1>7. CountsMatchItems'
  BY DEF IInv, CountsMatchItems, RowFollowsRun
<1> QED
  BY <1>1, <1>2, <1>3, <1>4, <1>5, <1>6, <1>7 DEF IInv

LEMMA AfterEntryStep == IInv /\ AfterEntry => IInv'
<1> SUFFICES ASSUME IInv, AfterEntry PROVE IInv'
  OBVIOUS
<1> USE DEF AfterEntry, GoTo, row, locals, flags, history
<1>1. RowOK' /\ RunOK'
  BY RunAssumption, LenProperties DEF RunAssumption, IInv, RowOK, RunOK, ListsOK, RowFollowsRun,
     PC, Terminal, Lifecycle!Terminal, Lifecycle!Status
<1>2. ListsOK' /\ ItemsAreDiscovered' /\ CancelIsSeen'
  BY DEF IInv, RowOK, RunOK, ListsOK, ItemsAreDiscovered, RowFollowsRun, CancelIsSeen,
     Discovering, Looping
<1>3. RowFollowsRun' /\ DoomedDoesNoWork'
  BY DEF IInv, RowOK, RunOK, RowFollowsRun, DoomedDoesNoWork, Looping, PC, Terminal,
     Lifecycle!Terminal, Lifecycle!Status
<1>4. ItemIsProvisional' /\ ItemsMatchPolicies'
  BY DEF IInv, ItemIsProvisional, ItemsMatchPolicies
<1>5. FlagsTellTheWork'
  BY DEF IInv, RowFollowsRun, FlagsTellTheWork, InProgress
<1>6. VerdictIsHonest'
  BY DEF IInv, VerdictIsHonest
<1>7. CountsMatchItems'
  BY DEF IInv, CountsMatchItems, RowFollowsRun
<1> QED
  BY <1>1, <1>2, <1>3, <1>4, <1>5, <1>6, <1>7 DEF IInv

LEMMA SetDiscoveredCountStep == IInv /\ SetDiscoveredCount => IInv'
<1> SUFFICES ASSUME IInv, SetDiscoveredCount PROVE IInv'
  OBVIOUS
<1> USE DEF SetDiscoveredCount, row, locals, flags, history
<1>1. RowOK' /\ RunOK'
  BY RunAssumption, LenProperties DEF RunAssumption, IInv, RowOK, RunOK, ListsOK, RowFollowsRun,
     PC, Terminal, Lifecycle!Terminal, Lifecycle!Status
<1>2. ListsOK' /\ ItemsAreDiscovered' /\ CancelIsSeen'
  BY DEF IInv, RowOK, RunOK, ListsOK, ItemsAreDiscovered, RowFollowsRun, CancelIsSeen,
     Discovering, Looping
<1>3. RowFollowsRun' /\ DoomedDoesNoWork'
  BY DEF IInv, RowOK, RunOK, RowFollowsRun, DoomedDoesNoWork, Looping, PC, Terminal,
     Lifecycle!Terminal, Lifecycle!Status
<1>4. ItemIsProvisional' /\ ItemsMatchPolicies'
  BY DEF IInv, ItemIsProvisional, ItemsMatchPolicies
<1>5. FlagsTellTheWork'
  BY DEF IInv, RowFollowsRun, FlagsTellTheWork, InProgress
<1>6. VerdictIsHonest'
  BY DEF IInv, VerdictIsHonest
<1>7. CountsMatchItems'
  BY DEF IInv, CountsMatchItems, RowFollowsRun
<1> QED
  BY <1>1, <1>2, <1>3, <1>4, <1>5, <1>6, <1>7 DEF IInv

LEMMA AfterDiscoveryStep == IInv /\ AfterDiscovery => IInv'
<1> SUFFICES ASSUME IInv, AfterDiscovery PROVE IInv'
  OBVIOUS
<1> USE DEF AfterDiscovery, CancelCheck, GoTo, FinishWith, row, locals, flags, history
<1>1. RowOK' /\ RunOK'
  BY RunAssumption, LenProperties DEF RunAssumption, IInv, RowOK, RunOK, ListsOK, RowFollowsRun,
     PC, Terminal, Lifecycle!Terminal, Lifecycle!Status
<1>2. ListsOK' /\ ItemsAreDiscovered' /\ CancelIsSeen'
  BY DEF IInv, RowOK, RunOK, ListsOK, ItemsAreDiscovered, RowFollowsRun, CancelIsSeen,
     Discovering, Looping
<1>3. RowFollowsRun' /\ DoomedDoesNoWork'
  BY DEF IInv, RowOK, RunOK, RowFollowsRun, DoomedDoesNoWork, Looping, PC, Terminal,
     Lifecycle!Terminal, Lifecycle!Status
<1>4. ItemIsProvisional' /\ ItemsMatchPolicies'
  BY DEF IInv, ItemIsProvisional, ItemsMatchPolicies
<1>5. FlagsTellTheWork'
  BY DEF IInv, RowFollowsRun, FlagsTellTheWork, InProgress
<1>6. VerdictIsHonest'
  BY DEF IInv, VerdictIsHonest
<1>7. CountsMatchItems'
  BY DEF IInv, CountsMatchItems, RowFollowsRun
<1> QED
  BY <1>1, <1>2, <1>3, <1>4, <1>5, <1>6, <1>7 DEF IInv

LEMMA AfterItemStep == IInv /\ AfterItem => IInv'
<1> SUFFICES ASSUME IInv, AfterItem PROVE IInv'
  OBVIOUS
<1> USE DEF AfterItem, CancelCheck, GoTo, FinishWith, row, locals, flags, history
<1>1. RowOK' /\ RunOK'
  BY RunAssumption, LenProperties DEF RunAssumption, IInv, RowOK, RunOK, ListsOK, RowFollowsRun,
     PC, Terminal, Lifecycle!Terminal, Lifecycle!Status
<1>2. ListsOK' /\ ItemsAreDiscovered' /\ CancelIsSeen'
  BY DEF IInv, RowOK, RunOK, ListsOK, ItemsAreDiscovered, RowFollowsRun, CancelIsSeen,
     Discovering, Looping
<1>3. RowFollowsRun' /\ DoomedDoesNoWork'
  BY DEF IInv, RowOK, RunOK, RowFollowsRun, DoomedDoesNoWork, Looping, PC, Terminal,
     Lifecycle!Terminal, Lifecycle!Status
<1>4. ItemIsProvisional' /\ ItemsMatchPolicies'
  BY DEF IInv, ItemIsProvisional, ItemsMatchPolicies
<1>5. FlagsTellTheWork'
  BY DEF IInv, RowFollowsRun, FlagsTellTheWork, InProgress
<1>6. VerdictIsHonest'
  BY DEF IInv, VerdictIsHonest
<1>7. CountsMatchItems'
  BY DEF IInv, CountsMatchItems, RowFollowsRun
<1> QED
  BY <1>1, <1>2, <1>3, <1>4, <1>5, <1>6, <1>7 DEF IInv

LEMMA BeforeItemStep == IInv /\ BeforeItem => IInv'
<1> SUFFICES ASSUME IInv, BeforeItem PROVE IInv'
  OBVIOUS
<1> USE DEF BeforeItem, CancelCheck, GoTo, FinishWith, row, locals, flags, history
<1>1. RowOK' /\ RunOK'
  BY RunAssumption, LenProperties DEF RunAssumption, IInv, RowOK, RunOK, ListsOK, RowFollowsRun,
     PC, Terminal, Lifecycle!Terminal, Lifecycle!Status
<1>2. ListsOK' /\ ItemsAreDiscovered' /\ CancelIsSeen'
  BY DEF IInv, RowOK, RunOK, ListsOK, ItemsAreDiscovered, RowFollowsRun, CancelIsSeen,
     Discovering, Looping
<1>3. RowFollowsRun' /\ DoomedDoesNoWork'
  BY DEF IInv, RowOK, RunOK, RowFollowsRun, DoomedDoesNoWork, Looping, PC, Terminal,
     Lifecycle!Terminal, Lifecycle!Status
<1>4. ItemIsProvisional' /\ ItemsMatchPolicies'
  BY DEF IInv, ItemIsProvisional, ItemsMatchPolicies
<1>5. FlagsTellTheWork'
  BY DEF IInv, RowFollowsRun, FlagsTellTheWork, InProgress
<1>6. VerdictIsHonest'
  BY DEF IInv, VerdictIsHonest
<1>7. CountsMatchItems'
  BY DEF IInv, CountsMatchItems, RowFollowsRun
<1> QED
  BY <1>1, <1>2, <1>3, <1>4, <1>5, <1>6, <1>7 DEF IInv

LEMMA EndOfCandidatesStep == IInv /\ EndOfCandidates => IInv'
<1> SUFFICES ASSUME IInv, EndOfCandidates PROVE IInv'
  OBVIOUS
<1> USE DEF EndOfCandidates, GoTo, row, locals, flags, history
<1>1. RowOK' /\ RunOK'
  BY RunAssumption, LenProperties DEF RunAssumption, IInv, RowOK, RunOK, ListsOK, RowFollowsRun,
     PC, Terminal, Lifecycle!Terminal, Lifecycle!Status
<1>2. ListsOK' /\ ItemsAreDiscovered' /\ CancelIsSeen'
  BY DEF IInv, RowOK, RunOK, ListsOK, ItemsAreDiscovered, RowFollowsRun, CancelIsSeen,
     Discovering, Looping
<1>3. RowFollowsRun' /\ DoomedDoesNoWork'
  BY DEF IInv, RowOK, RunOK, RowFollowsRun, DoomedDoesNoWork, Looping, PC, Terminal,
     Lifecycle!Terminal, Lifecycle!Status
<1>4. ItemIsProvisional' /\ ItemsMatchPolicies'
  BY DEF IInv, ItemIsProvisional, ItemsMatchPolicies
<1>5. FlagsTellTheWork'
  BY DEF IInv, RowFollowsRun, FlagsTellTheWork, InProgress
<1>6. VerdictIsHonest'
  BY DEF IInv, VerdictIsHonest
<1>7. CountsMatchItems'
  BY DEF IInv, CountsMatchItems, RowFollowsRun
<1> QED
  BY <1>1, <1>2, <1>3, <1>4, <1>5, <1>6, <1>7 DEF IInv

(* load_context and the seeds.                                             *)
LEMMA LoadStep == IInv /\ Load => IInv'
<1> SUFFICES ASSUME IInv, Load PROVE IInv'
  OBVIOUS
<1>1. CASE FinishWith("failed")
  <2> USE <1>1 DEF Load, FinishWith, row, locals, flags, history
  <2>1. RowOK' /\ RunOK'
    BY DEF IInv, RowOK, RunOK, PC, Terminal, Lifecycle!Terminal
  <2>2. ListsOK' /\ ItemsAreDiscovered' /\ CancelIsSeen'
    BY DEF IInv, RunOK, ListsOK, ItemsAreDiscovered, CancelIsSeen, Discovering, Looping
  <2>3. RowFollowsRun' /\ DoomedDoesNoWork'
    BY DEF IInv, RowFollowsRun, DoomedDoesNoWork, Looping, Terminal, Lifecycle!Terminal
  <2>4. ItemIsProvisional' /\ ItemsMatchPolicies' /\ FlagsTellTheWork' /\ VerdictIsHonest'
    BY DEF IInv, ItemIsProvisional, ItemsMatchPolicies, FlagsTellTheWork, VerdictIsHonest
  <2>5. CountsMatchItems'
    BY DEF CountsMatchItems
  <2> QED
    BY <2>1, <2>2, <2>3, <2>4, <2>5 DEF IInv
<1>2. ASSUME NEW seeds \in SeqOf(BOOLEAN, MaxSeeds), NEW n \in 0..MaxEntries,
             pc' = "discover", candidates' = seeds, entries' = n,
             UNCHANGED <<row, items, committed, attempted, failedEntries, flags,
                         verdict, handling, asking, history>>
      PROVE  IInv'
  <2> USE <1>2 DEF row, flags, history
  <2>1. pc = "load" /\ items = <<>> /\ attempted = 0
    BY DEF Load, IInv, ItemsAreDiscovered, RunOK, Discovering
  <2>2. seeds \in Seq(BOOLEAN) /\ Len(seeds) <= MaxCandidates /\ Len(seeds) \in Nat
    BY RunAssumption, BoundedSequences, LenProperties DEF RunAssumption
  <2>3. RowOK' /\ RunOK'
    BY <2>1, RunAssumption DEF RunAssumption, IInv, RowOK, RunOK, PC
  <2>4. ListsOK' /\ ItemsAreDiscovered' /\ CancelIsSeen'
    BY <2>1, <2>2 DEF IInv, ListsOK, ItemsAreDiscovered, CancelIsSeen, Discovering, Looping
  <2>5. RowFollowsRun' /\ DoomedDoesNoWork'
    BY <2>1 DEF IInv, RowFollowsRun, DoomedDoesNoWork, Looping
  <2>6. ItemIsProvisional' /\ ItemsMatchPolicies' /\ FlagsTellTheWork' /\ VerdictIsHonest'
    BY <2>1 DEF IInv, ItemIsProvisional, ItemsMatchPolicies, FlagsTellTheWork, VerdictIsHonest
  <2>7. CountsMatchItems'
    BY DEF CountsMatchItems
  <2> QED
    BY <2>3, <2>4, <2>5, <2>6, <2>7 DEF IInv
<1> QED
  BY <1>1, <1>2 DEF Load

(* The links of one address are added.                                     *)
LEMMA FetchEntryStep == IInv /\ FetchEntry => IInv'
<1> SUFFICES ASSUME IInv, FetchEntry PROVE IInv'
  OBVIOUS
<1> USE DEF row, flags, history
<1>1. PICK n \in 0..(MaxCandidates - Len(candidates)) :
        /\ pc' = "fetched"
        /\ candidates' = candidates \o [i \in 1..n |-> FALSE]
        /\ UNCHANGED <<row, items, committed, entries, attempted, failedEntries, flags,
                       verdict, handling, asking, history>>
  BY DEF FetchEntry
<1>2. pc = "fetch" /\ items = <<>>
  BY DEF FetchEntry, IInv, ItemsAreDiscovered, Discovering
<1>3. candidates' \in Seq(BOOLEAN) /\ Len(candidates') <= MaxCandidates /\ Len(candidates') \in Nat
  <2> DEFINE links == [i \in 1..n |-> FALSE]
  <2>1. links \in Seq(BOOLEAN) /\ Len(links) = n
    <3>1. n \in Nat /\ links \in [1..n -> BOOLEAN]
      BY Positions, RunAssumption DEF RunAssumption
    <3>2. links \in Seq(BOOLEAN)
      BY <3>1, SeqDef
    <3> QED
      BY <3>1, <3>2, LenProperties
  <2>2. candidates \in Seq(BOOLEAN) /\ Len(candidates) \in Nat
    BY Positions DEF IInv, ListsOK
  <2>3. candidates \o links \in Seq(BOOLEAN) /\ Len(candidates \o links) = Len(candidates) + n
    BY <2>1, <2>2, ConcatProperties
  <2> QED
    BY <1>1, <2>2, <2>3, RunAssumption DEF RunAssumption
<1>4. RowOK' /\ RunOK'
  BY <1>1, <1>2 DEF IInv, RowOK, RunOK, PC
<1>5. ListsOK' /\ ItemsAreDiscovered' /\ CancelIsSeen'
  BY <1>1, <1>2, <1>3 DEF IInv, ListsOK, ItemsAreDiscovered, CancelIsSeen, Discovering, Looping
<1>6. RowFollowsRun' /\ DoomedDoesNoWork'
  BY <1>1, <1>2 DEF IInv, RowFollowsRun, DoomedDoesNoWork, Looping
<1>7. ItemIsProvisional' /\ ItemsMatchPolicies' /\ FlagsTellTheWork' /\ VerdictIsHonest'
  BY <1>1, <1>2 DEF IInv, ItemIsProvisional, ItemsMatchPolicies, FlagsTellTheWork, VerdictIsHonest
<1>8. CountsMatchItems'
  BY <1>1 DEF CountsMatchItems
<1> QED
  BY <1>4, <1>5, <1>6, <1>7, <1>8 DEF IInv

(* create_item.                                                            *)
LEMMA CreateItemStep == IInv /\ CreateItem => IInv'
<1> SUFFICES ASSUME IInv, CreateItem PROVE IInv'
  OBVIOUS
<1> USE DEF row, locals, flags, history
<1> DEFINE n == Len(items)
<1>1. /\ pc = "create" /\ pc' = "process" /\ n < Len(candidates) /\ n \in Nat
      /\ items' = Append(items, "failed") /\ committed' = Append(committed, "none")
      /\ UNCHANGED <<row, locals, flags, verdict, handling, asking, history>>
  BY Positions DEF CreateItem, IInv, ListsOK
<1>2. /\ items' \in Seq(ItemStatus) /\ Len(items') = n + 1
      /\ items'[n + 1] = "failed" /\ \A i \in 1..n : items'[i] = items[i]
      /\ DOMAIN items' = 1..(n + 1)
  <2>1. items \in Seq(ItemStatus) /\ "failed" \in ItemStatus
    BY DEF IInv, ListsOK, ItemStatus
  <2> QED
    BY <1>1, <2>1, AppendProperties, LenProperties
<1>3. /\ committed' \in Seq(PolicyOutcome \cup {"none"}) /\ Len(committed') = n + 1
      /\ committed'[n + 1] = "none" /\ \A i \in 1..n : committed'[i] = committed[i]
  <2>1. committed \in Seq(PolicyOutcome \cup {"none"}) /\ Len(committed) = n
    BY DEF IInv, ListsOK
  <2> QED
    BY <1>1, <2>1, AppendProperties
<1>4. RowOK' /\ RunOK'
  BY <1>1 DEF IInv, RowOK, RunOK, PC
<1>5. ListsOK' /\ ItemsAreDiscovered' /\ CancelIsSeen'
  <2>1. discovered = Len(candidates) /\ Len(candidates) \in Nat
    BY <1>1, Positions DEF IInv, ItemsAreDiscovered, Looping
  <2> QED
    BY <1>1, <1>2, <1>3, <2>1
       DEF IInv, RunOK, ListsOK, ItemsAreDiscovered, CancelIsSeen, Discovering, Looping
<1>6. RowFollowsRun' /\ DoomedDoesNoWork'
  BY <1>1 DEF IInv, RowFollowsRun, DoomedDoesNoWork, Looping
<1>7. ItemIsProvisional'
  BY <1>1, <1>2, <1>3 DEF ItemIsProvisional
<1>8. ItemsMatchPolicies'
  BY <1>1, <1>2, <1>3, Positions DEF IInv, ItemsMatchPolicies, PolicyOutcome
<1>9. FlagsTellTheWork'
  <2>1. /\ \A i \in 1..n : items[i] = "failed" => IF candidates[i] THEN verifiedFailed ELSE ordinaryFailed
        /\ ordinaryFailed => \E i \in 1..n : items[i] = "failed" /\ ~candidates[i]
        /\ productive => \E i \in 1..n : items[i] # "failed"
    BY <1>1, Positions DEF IInv, FlagsTellTheWork, InProgress
  <2>2. \A i \in 1..n : i \in 1..(n + 1) /\ i # n + 1
    BY <1>1
  <2>3. \A i \in 1..(n + 1) : i # n + 1 => i \in 1..n
    BY <1>1
  <2>4. /\ \A i \in DOMAIN items' : items'[i] = "failed" /\ i # n + 1 =>
              IF candidates'[i] THEN verifiedFailed' ELSE ordinaryFailed'
        /\ ordinaryFailed' =>
              \E i \in DOMAIN items' : items'[i] = "failed" /\ ~candidates'[i] /\ i # n + 1
        /\ productive' => \E i \in DOMAIN items' : items'[i] # "failed"
    BY <1>1, <1>2, <2>1, <2>2, <2>3
  <2> QED
    BY <1>1, <1>2, <2>4 DEF FlagsTellTheWork, InProgress
<1>10. VerdictIsHonest' /\ CountsMatchItems'
  BY <1>1 DEF VerdictIsHonest, CountsMatchItems
<1> QED
  BY <1>4, <1>5, <1>6, <1>7, <1>8, <1>9, <1>10 DEF IInv

(* The end of the processing of an item, whichever it is: `outcome` is     *)
(* what the item says, `policy` what was committed.                        *)
LEMMA ItemEnds ==
    ASSUME IInv, pc = "process", NEW outcome \in ItemStatus, NEW policy \in PolicyOutcome \cup {"none"},
           policy = IF outcome \in PolicyOutcome THEN outcome ELSE "none",
           items' = [items EXCEPT ![Item] = outcome],
           committed' = [committed EXCEPT ![Item] = policy],
           pc' \in {"after", "next"}, lastItem' = cancel,
           outcome = "failed" => IF candidates[Item] THEN verifiedFailed' = TRUE
                                                    ELSE ordinaryFailed' = TRUE,
           verifiedFailed => verifiedFailed', ordinaryFailed => ordinaryFailed',
           verifiedFailed' \in BOOLEAN, ordinaryFailed' \in BOOLEAN, productive' \in BOOLEAN,
           ordinaryFailed' => ordinaryFailed \/ (outcome = "failed" /\ ~candidates[Item]),
           productive' => productive \/ outcome # "failed",
           UNCHANGED <<row, locals, verdict, handling, asking, atCancel>>
    PROVE  IInv'
<1> DEFINE n == Len(items)
<1> USE DEF row, locals, Item
<1>1. /\ n \in Nat /\ 0 < n /\ n <= Len(candidates) /\ Len(candidates) \in Nat
      /\ items[n] = "failed" /\ committed[n] = "none"
      /\ DOMAIN items = 1..n /\ DOMAIN committed = 1..n
      /\ items \in Seq(ItemStatus) /\ committed \in Seq(PolicyOutcome \cup {"none"})
  BY Positions DEF IInv, ItemIsProvisional, ListsOK
<1>2. /\ items' \in Seq(ItemStatus) /\ Len(items') = n /\ DOMAIN items' = 1..n
      /\ \A i \in 1..n : items'[i] = IF i = n THEN outcome ELSE items[i]
  BY <1>1, ExceptSeq, LenProperties
<1>3. /\ committed' \in Seq(PolicyOutcome \cup {"none"}) /\ Len(committed') = n
      /\ \A i \in 1..n : committed'[i] = IF i = n THEN policy ELSE committed[i]
  <2>1. Len(committed) = n
    BY DEF IInv, ListsOK
  <2> QED
    BY <1>1, <2>1, ExceptSeq
<1>4. RowOK' /\ RunOK'
  BY DEF IInv, RowOK, RunOK, PC
<1>5. ListsOK' /\ ItemsAreDiscovered' /\ CancelIsSeen'
  BY <1>1, <1>2, <1>3 DEF IInv, RunOK, ListsOK, ItemsAreDiscovered, CancelIsSeen, Discovering,
     Looping
<1>6. RowFollowsRun' /\ DoomedDoesNoWork'
  BY DEF IInv, RowFollowsRun, DoomedDoesNoWork, Looping
<1>7. ItemsMatchPolicies'
  BY <1>1, <1>2, <1>3 DEF IInv, ItemsMatchPolicies
<1>8. FlagsTellTheWork'
  <2>1. ASSUME NEW i \in 1..n, items'[i] = "failed"
        PROVE  IF candidates[i] THEN verifiedFailed' ELSE ordinaryFailed'
    <3>1. CASE i = n
      BY <2>1, <3>1, <1>1, <1>2
    <3>2. CASE i # n
      BY <2>1, <3>2, <1>1, <1>2 DEF IInv, FlagsTellTheWork, InProgress
    <3> QED
      BY <3>1, <3>2
  <2>2. ASSUME ordinaryFailed'
        PROVE  \E i \in 1..n : items'[i] = "failed" /\ ~candidates[i]
    <3>1. CASE ordinaryFailed
      BY <3>1, <1>1, <1>2 DEF IInv, FlagsTellTheWork, InProgress
    <3>2. CASE ~ordinaryFailed
      <4>1. outcome = "failed" /\ ~candidates[n]
        BY <2>2, <3>2
      <4>2. n \in 1..n /\ items'[n] = outcome
        BY <1>1, <1>2
      <4> QED
        BY <4>1, <4>2
    <3> QED
      BY <3>1, <3>2
  <2>3. ASSUME productive'
        PROVE  \E i \in 1..n : items'[i] # "failed"
    <3>1. CASE productive
      BY <3>1, <1>1, <1>2 DEF IInv, FlagsTellTheWork, InProgress
    <3>2. CASE ~productive
      <4>1. outcome # "failed"
        BY <2>3, <3>2
      <4>2. n \in 1..n /\ items'[n] = outcome
        BY <1>1, <1>2
      <4> QED
        BY <4>1, <4>2
    <3> QED
      BY <3>1, <3>2
  <2> QED
    BY <1>2, <2>1, <2>2, <2>3 DEF FlagsTellTheWork, InProgress
<1>9. ItemIsProvisional' /\ VerdictIsHonest' /\ CountsMatchItems'
  BY DEF ItemIsProvisional, VerdictIsHonest, CountsMatchItems
<1> QED
  BY <1>4, <1>5, <1>6, <1>7, <1>8, <1>9 DEF IInv

LEMMA ItemSteps ==
    ASSUME IInv, (\E o \in PolicyOutcome : StoreItem(o)) \/ FilterItem \/ FailItem
    PROVE  IInv'
<1> USE DEF flags
<1>1. ASSUME NEW o \in PolicyOutcome, StoreItem(o)
      PROVE  IInv'
  <2>1. o \in ItemStatus /\ o # "failed"
    BY DEF PolicyOutcome, ItemStatus
  <2>2. verifiedFailed \in BOOLEAN /\ ordinaryFailed \in BOOLEAN
    BY DEF IInv, RunOK
  <2> QED
    BY <1>1, <2>1, <2>2, ItemEnds DEF StoreItem
<1>2. ASSUME FilterItem \/ FailItem
      PROVE  committed' = [committed EXCEPT ![Item] = "none"]
  <2>1. UNCHANGED committed /\ pc = "process"
    BY <1>2 DEF FilterItem, FailItem
  <2>2. committed \in Seq(PolicyOutcome \cup {"none"}) /\ committed[Item] = "none"
    BY <2>1 DEF IInv, ListsOK, ItemIsProvisional, Item
  <2> QED
    BY <2>1, <2>2
<1>3. ASSUME FilterItem
      PROVE  IInv'
  <2>1. "filtered" \in ItemStatus /\ "filtered" \notin PolicyOutcome
    BY DEF PolicyOutcome, ItemStatus
  <2>2. verifiedFailed \in BOOLEAN /\ ordinaryFailed \in BOOLEAN
    BY DEF IInv, RunOK
  <2> QED
    BY <1>2, <1>3, <2>1, <2>2, ItemEnds DEF FilterItem
<1>4. ASSUME FailItem
      PROVE  IInv'
  <2>1. "failed" \in ItemStatus /\ "failed" \notin PolicyOutcome
    BY DEF PolicyOutcome, ItemStatus
  <2>2. verifiedFailed \in BOOLEAN /\ ordinaryFailed \in BOOLEAN /\ productive \in BOOLEAN
    BY DEF IInv, RunOK
  <2>3. /\ pc = "process" /\ pc' = "after" /\ lastItem' = cancel
        /\ items' = [items EXCEPT ![Item] = "failed"]
        /\ UNCHANGED <<row, locals, productive, verdict, handling, asking, atCancel>>
    BY <1>4 DEF FailItem
  <2>4. /\ IF candidates[Item] THEN verifiedFailed' = TRUE ELSE ordinaryFailed' = TRUE
        /\ verifiedFailed' \in BOOLEAN /\ ordinaryFailed' \in BOOLEAN
        /\ verifiedFailed => verifiedFailed'
        /\ ordinaryFailed => ordinaryFailed'
        /\ ordinaryFailed' => ordinaryFailed \/ ~candidates[Item]
    <3>1. CASE candidates[Item]
      BY <1>4, <2>2, <3>1 DEF FailItem
    <3>2. CASE ~candidates[Item]
      BY <1>4, <2>2, <3>2 DEF FailItem
    <3> QED
      BY <3>1, <3>2
  <2>5. /\ productive' \in BOOLEAN /\ productive' = productive
        /\ committed' = [committed EXCEPT ![Item] = "none"]
    BY <1>2, <1>4, <2>2, <2>3
  <2> DEFINE outcome == "failed"
             policy == "none"
  <2>6. /\ outcome \in ItemStatus /\ policy \in PolicyOutcome \cup {"none"}
        /\ policy = IF outcome \in PolicyOutcome THEN outcome ELSE "none"
        /\ items' = [items EXCEPT ![Item] = outcome]
        /\ committed' = [committed EXCEPT ![Item] = policy]
    BY <2>1, <2>3, <2>5
  <2>7. /\ outcome = "failed" => IF candidates[Item] THEN verifiedFailed' = TRUE
                                                    ELSE ordinaryFailed' = TRUE
        /\ ordinaryFailed' => ordinaryFailed \/ (outcome = "failed" /\ ~candidates[Item])
    BY <2>4
  <2>8. productive' => productive \/ outcome # "failed"
    BY <2>5
  <2> HIDE DEF outcome, policy
  <2> QED
    BY <2>3, <2>4, <2>5, <2>6, <2>7, <2>8, ItemEnds
<1> QED
  BY <1>1, <1>3, <1>4

(* The verdict of a run that went through all its candidates.              *)
LEMMA DecideStep == IInv /\ Decide => IInv'
<1> SUFFICES ASSUME IInv, Decide PROVE IInv'
  OBVIOUS
<1> USE DEF row, locals, flags, history
<1>1. /\ pc = "decide" /\ pc' = "finish" /\ verdict' = Decision
      /\ UNCHANGED <<row, items, committed, locals, flags, handling, asking, history>>
  BY DEF Decide, FinishWith
<1>2. Decision \in {"failed", "partially_succeeded", "cancelled", "succeeded"}
  BY DEF Decision
<1>3. ~doomed /\ ~handling
  BY <1>1 DEF IInv, DoomedDoesNoWork, RowFollowsRun, Looping
<1>4. RowOK' /\ RunOK'
  BY <1>1, <1>2 DEF IInv, RowOK, RunOK, PC, Terminal, Lifecycle!Terminal
<1>5. ListsOK' /\ ItemsAreDiscovered' /\ CancelIsSeen'
  BY <1>1 DEF IInv, RunOK, ListsOK, ItemsAreDiscovered, CancelIsSeen, Discovering, Looping
<1>6. RowFollowsRun' /\ DoomedDoesNoWork'
  BY <1>1, <1>2, <1>3
     DEF IInv, RowFollowsRun, DoomedDoesNoWork, Looping, Terminal, Lifecycle!Terminal
<1>7. ItemIsProvisional' /\ ItemsMatchPolicies' /\ FlagsTellTheWork' /\ CountsMatchItems'
  BY <1>1 DEF IInv, ItemIsProvisional, ItemsMatchPolicies, FlagsTellTheWork, CountsMatchItems
<1>8. VerdictIsHonest'
  <2>1. /\ Len(items) = Len(candidates)
        /\ \A i \in DOMAIN items : items[i] = "failed" =>
              IF candidates[i] THEN verifiedFailed ELSE ordinaryFailed
        /\ ordinaryFailed => \E i \in DOMAIN items : items[i] = "failed" /\ ~candidates[i]
        /\ productive => \E i \in DOMAIN items : items[i] # "failed"
        /\ DOMAIN items = 1..Len(items) /\ Len(candidates) \in Nat
        /\ \A i \in 1..Len(candidates) : candidates[i] \in BOOLEAN
    BY <1>1, Positions DEF IInv, ListsOK, FlagsTellTheWork, InProgress
  <2>2. failedEntries \in Nat
    BY DEF IInv, RunOK
  <2>3. CASE Decision = "succeeded"
    <3>1. ~verifiedFailed /\ ~ordinaryFailed /\ failedEntries = 0
      BY <2>2, <2>3 DEF Decision
    <3> QED
      BY <1>1, <2>1, <2>3, <3>1 DEF VerdictIsHonest
  <2>4. CASE Decision = "partially_succeeded"
    <3>1. ~verifiedFailed /\ productive /\ (failedEntries > 0 \/ ordinaryFailed)
      BY <2>2, <2>4 DEF Decision
    <3> QED
      BY <1>1, <2>1, <2>4, <3>1 DEF VerdictIsHonest
  <2>5. CASE Decision = "cancelled"
    <3>1. cancel
      BY <2>5 DEF Decision
    <3> QED
      BY <1>1, <2>5, <3>1 DEF VerdictIsHonest
  <2>6. CASE Decision = "failed"
    BY <1>1, <2>6 DEF VerdictIsHonest
  <2> QED
    BY <1>2, <2>3, <2>4, <2>5, <2>6
<1> QED
  BY <1>4, <1>5, <1>6, <1>7, <1>8 DEF IInv

(* What the counters of finish count: sets of items, disjoint, that        *)
(* together are all of them.                                               *)
LEMMA CountsAddUp ==
    ASSUME IInv
    PROVE  /\ \A S : Count(S) \in 0..Len(items)
           /\ Count({"stored", "updated"}) + Count({"duplicate"})
                + Count({"filtered"}) + Count({"failed"}) = Len(items)
<1> DEFINE Of(S) == {i \in DOMAIN items : items[i] \in S}
           results == Of({"stored", "updated"})
           duplicates == Of({"duplicate"})
           filtered == Of({"filtered"})
           failures == Of({"failed"})
<1>1. /\ IsFiniteSet(DOMAIN items) /\ Cardinality(DOMAIN items) = Len(items)
      /\ Len(items) \in Nat
  <2>1. DOMAIN items = 1..Len(items) /\ Len(items) \in Nat
    BY Positions
  <2>2. /\ IsFiniteSet(1..Len(items))
        /\ Cardinality(1..Len(items)) = IF 1 > Len(items) THEN 0 ELSE Len(items) - 1 + 1
    BY <2>1, FS_Interval
  <2> QED
    BY <2>1, <2>2
<1>2. ASSUME NEW S
      PROVE  IsFiniteSet(Of(S)) /\ Cardinality(Of(S)) \in 0..Len(items)
  <2>1. Of(S) \subseteq DOMAIN items
    OBVIOUS
  <2> QED
    BY <1>1, <2>1, FS_Subset, FS_CardinalityType
<1>3. /\ results \cap duplicates = {} /\ filtered \cap failures = {}
      /\ (results \cup duplicates) \cap (filtered \cup failures) = {}
      /\ (results \cup duplicates) \cup (filtered \cup failures) = DOMAIN items
  <2>1. \A i \in DOMAIN items : items[i] \in {"stored", "updated", "duplicate", "filtered", "failed"}
    BY Positions DEF ItemStatus, PolicyOutcome
  <2> QED
    BY <2>1
<1>4. /\ IsFiniteSet(results) /\ IsFiniteSet(duplicates)
      /\ IsFiniteSet(filtered) /\ IsFiniteSet(failures)
      /\ Cardinality(results) \in Nat /\ Cardinality(duplicates) \in Nat
      /\ Cardinality(filtered) \in Nat /\ Cardinality(failures) \in Nat
  <2>1. /\ IsFiniteSet(results) /\ Cardinality(results) \in 0..Len(items)
        /\ IsFiniteSet(duplicates) /\ Cardinality(duplicates) \in 0..Len(items)
    BY <1>2
  <2>2. /\ IsFiniteSet(filtered) /\ Cardinality(filtered) \in 0..Len(items)
        /\ IsFiniteSet(failures) /\ Cardinality(failures) \in 0..Len(items)
    BY <1>2
  <2> HIDE DEF results, duplicates, filtered, failures
  <2> QED
    BY <1>1, <2>1, <2>2
<1> HIDE DEF results, duplicates, filtered, failures
<1>5. /\ IsFiniteSet(results \cup duplicates)
      /\ Cardinality(results \cup duplicates) = Cardinality(results) + Cardinality(duplicates)
  <2>1. Cardinality(results \cap duplicates) = 0
    BY <1>3, FS_EmptySet
  <2>2. /\ IsFiniteSet(results \cup duplicates)
        /\ Cardinality(results \cup duplicates)
             = Cardinality(results) + Cardinality(duplicates) - Cardinality(results \cap duplicates)
    BY <1>4, FS_Union
  <2> QED
    BY <1>4, <2>1, <2>2
<1>6. /\ IsFiniteSet(filtered \cup failures)
      /\ Cardinality(filtered \cup failures) = Cardinality(filtered) + Cardinality(failures)
  <2>1. Cardinality(filtered \cap failures) = 0
    BY <1>3, FS_EmptySet
  <2>2. /\ IsFiniteSet(filtered \cup failures)
        /\ Cardinality(filtered \cup failures)
             = Cardinality(filtered) + Cardinality(failures) - Cardinality(filtered \cap failures)
    BY <1>4, FS_Union
  <2> QED
    BY <1>4, <2>1, <2>2
<1>7. Cardinality(DOMAIN items)
        = Cardinality(results) + Cardinality(duplicates) + Cardinality(filtered) + Cardinality(failures)
  <2>1. Cardinality((results \cup duplicates) \cup (filtered \cup failures))
          = Cardinality(results \cup duplicates) + Cardinality(filtered \cup failures)
              - Cardinality({})
    BY <1>3, <1>5, <1>6, FS_Union
  <2> QED
    BY <1>3, <1>4, <1>5, <1>6, <2>1, FS_EmptySet
<1> USE DEF results, duplicates, filtered, failures
<1> QED
  BY <1>1, <1>2, <1>7 DEF Count

(* finish.                                                                 *)
LEMMA FinishStep == IInv /\ Finish => IInv'
<1> SUFFICES ASSUME IInv, Finish PROVE IInv'
  OBVIOUS
<1> USE DEF locals, flags, history
<1> DEFINE results == Count({"stored", "updated"})
           duplicates == Count({"duplicate"})
           filtered == Count({"filtered"})
           failures == Count({"failed"})
<1>1. /\ pc = "finish" /\ pc' = "returned" /\ status' = verdict
      /\ counts' = [success |-> results, duplicate |-> duplicates,
                    filtered |-> filtered, failed |-> failures]
      /\ UNCHANGED <<cancel, doomed, discovered, items, committed, locals, flags, verdict,
                     handling, asking, history>>
  BY DEF Finish
<1>2. /\ results + duplicates + filtered + failures = Len(items)
      /\ results \in 0..Len(items) /\ duplicates \in 0..Len(items)
      /\ filtered \in 0..Len(items) /\ failures \in 0..Len(items)
  BY CountsAddUp
<1>3. /\ results = Cardinality({i \in DOMAIN committed : committed[i] \in {"stored", "updated"}})
      /\ duplicates = Cardinality({i \in DOMAIN committed : committed[i] = "duplicate"})
  <2>1. /\ DOMAIN items = DOMAIN committed
        /\ \A i \in DOMAIN items :
              committed[i] = IF items[i] \in PolicyOutcome THEN items[i] ELSE "none"
    BY Positions DEF IInv, ItemsMatchPolicies
  <2>2. /\ {i \in DOMAIN items : items[i] \in {"stored", "updated"}}
             = {i \in DOMAIN committed : committed[i] \in {"stored", "updated"}}
        /\ {i \in DOMAIN items : items[i] \in {"duplicate"}}
             = {i \in DOMAIN committed : committed[i] = "duplicate"}
    BY <2>1 DEF PolicyOutcome
  <2> QED
    BY <2>2 DEF Count
<1> HIDE DEF results, duplicates, filtered, failures
<1>4. verdict \in Terminal /\ status = "running"
  BY <1>1 DEF IInv, RowFollowsRun
<1>5. RowOK'
  <2>1. Len(items) \in 0..MaxCandidates /\ MaxCandidates \in Nat
    BY Positions, RunAssumption DEF RunAssumption, IInv, ListsOK
  <2>2. counts' \in CountsRow
    BY <1>1, <1>2, <2>1 DEF CountsRow
  <2>3. status' \in Lifecycle!Status
    BY <1>1, <1>4 DEF Terminal, Lifecycle!Status
  <2> QED
    BY <1>1, <2>2, <2>3 DEF IInv, RowOK
<1>6. RunOK'
  BY <1>1 DEF IInv, RunOK, PC
<1>7. ListsOK' /\ ItemsAreDiscovered' /\ CancelIsSeen'
  BY <1>1 DEF IInv, RunOK, ListsOK, ItemsAreDiscovered, CancelIsSeen, Discovering, Looping
<1>8. RowFollowsRun' /\ DoomedDoesNoWork'
  BY <1>1, <1>4 DEF IInv, RowFollowsRun, DoomedDoesNoWork, Looping, Terminal, Lifecycle!Terminal
<1>9. ItemIsProvisional' /\ ItemsMatchPolicies' /\ FlagsTellTheWork'
  BY <1>1 DEF IInv, ItemIsProvisional, ItemsMatchPolicies, FlagsTellTheWork
<1>10. VerdictIsHonest'
  BY <1>1 DEF IInv, VerdictIsHonest
<1>11. CountsMatchItems'
  BY <1>1, <1>2, <1>3 DEF CountsMatchItems
<1> QED
  BY <1>5, <1>6, <1>7, <1>8, <1>9, <1>10, <1>11 DEF IInv

LEMMA StepHolds == IInv /\ [Next]_vars => IInv'
<1> SUFFICES ASSUME IInv, [Next]_vars PROVE IInv'
  OBVIOUS
<1>1. CASE UNCHANGED vars
  <2> USE <1>1 DEF vars, row, locals, flags, history
  <2>1. RowOK' /\ RunOK' /\ ListsOK' /\ ItemsAreDiscovered' /\ CancelIsSeen'
    BY DEF IInv, RowOK, RunOK, ListsOK, ItemsAreDiscovered, CancelIsSeen
  <2>2. RowFollowsRun' /\ DoomedDoesNoWork' /\ ItemIsProvisional' /\ ItemsMatchPolicies'
    BY DEF IInv, RowFollowsRun, DoomedDoesNoWork, ItemIsProvisional, ItemsMatchPolicies
  <2>3. FlagsTellTheWork' /\ VerdictIsHonest' /\ CountsMatchItems'
    BY DEF IInv, FlagsTellTheWork, InProgress, VerdictIsHonest, CountsMatchItems
  <2> QED
    BY <2>1, <2>2, <2>3 DEF IInv
<1>2. CASE Run
  BY <1>2, LoadStep, DiscoverStep, FetchEntryStep, FetchEntryFailsStep, AfterEntryStep,
     SetDiscoveredCountStep, AfterDiscoveryStep, BeforeItemStep, CreateItemStep, ItemSteps,
     AfterItemStep, EndOfCandidatesStep, DecideStep, FinishStep DEF Run
<1> QED
  BY <1>1, <1>2, CreateStep, ClaimStep, RequestCancelStep, MarkCancelStep, ExceptStep,
     FinishFailsStep, CrashStep, RecoverStep DEF Next

LEMMA Invariance == Spec => []IInv
BY InitHolds, StepHolds, PTL DEF Spec

-----------------------------------------------------------------------------
(* What follows from it.                                                   *)

(* Every column, local and list stays in its type: the counters, too,      *)
(* below the number of candidates.                                         *)
THEOREM TypesHold == Spec => []TypeOK
<1>1. ASSUME IInv
      PROVE  TypeOK
  <2>1. MaxCandidates \in Nat /\ MaxEntries \in Nat
    BY RunAssumption DEF RunAssumption
  <2>2. Lifecycle!TypeOK
    BY <1>1 DEF IInv, RowOK, Lifecycle!TypeOK
  <2>3. counts \in [DOMAIN NoCounts -> 0..MaxCandidates]
    <3>1. counts \in [{"success", "duplicate", "filtered", "failed"} -> 0..MaxCandidates]
      BY <1>1 DEF IInv, RowOK, CountsRow
    <3>2. DOMAIN NoCounts = {"success", "duplicate", "filtered", "failed"}
      BY DEF NoCounts
    <3> QED
      BY <3>1, <3>2
  <2>4. /\ items \in SeqOf(ItemStatus, MaxCandidates)
        /\ committed \in SeqOf(PolicyOutcome \cup {"none"}, MaxCandidates)
        /\ candidates \in SeqOf(BOOLEAN, MaxCandidates)
    <3>1. Len(items) <= MaxCandidates /\ Len(committed) <= MaxCandidates
      BY <1>1, <2>1, Positions DEF IInv, ListsOK
    <3> QED
      BY <1>1, <2>1, <3>1, BoundedSequences DEF IInv, ListsOK
  <2>5. /\ entries \in 0..MaxEntries /\ attempted \in 0..MaxEntries /\ failedEntries \in 0..attempted
        /\ pc \in PC /\ verdict \in Terminal \cup {"none"} /\ atCancel \in 0..MaxCandidates
        /\ discovered \in 0..MaxCandidates
    BY <1>1, <2>1 DEF IInv, RunOK, RowOK
  <2>6. /\ verifiedFailed \in BOOLEAN /\ ordinaryFailed \in BOOLEAN /\ productive \in BOOLEAN
        /\ handling \in BOOLEAN /\ asking \in BOOLEAN /\ lastItem \in BOOLEAN
    BY <1>1 DEF IInv, RunOK
  <2> QED
    BY <2>2, <2>3, <2>4, <2>5, <2>6 DEF TypeOK
<1> QED
  BY <1>1, Invariance, PTL

(* A success hides no failure and no candidate left out, a partial success *)
(* has a result, a cancelled task was asked to stop; the counters are those*)
(* of the items and policies; finish has no reason to refuse; and a task   *)
(* cancelled before its claim never ends as a success (run_claimed, finish *)
(* and recover_interrupted).                                               *)
THEOREM RowsTellTheTruth == Spec => []RowTellsTheTruth
<1>1. ASSUME IInv
      PROVE  RowTellsTheTruth
  <2>1. StatusIsHonest
    <3>1. pc = "returned" /\ status # "running" => status = verdict
      BY <1>1 DEF IInv, RowFollowsRun
    <3> QED
      BY <1>1, <3>1 DEF IInv, VerdictIsHonest, StatusIsHonest
  <2>2. FinishNeverRefuses
    BY <1>1 DEF IInv, RowFollowsRun, ItemsAreDiscovered, FinishNeverRefuses
  <2>3. DoomedNeverSucceeds
    BY <1>1 DEF IInv, DoomedDoesNoWork, DoomedNeverSucceeds, Lifecycle!DoomedNeverSucceeds
  <2> QED
    BY <1>1, <2>1, <2>2, <2>3 DEF IInv, RowTellsTheTruth
<1> QED
  BY <1>1, Invariance, PTL

(* However the request falls between the checks of run_claimed, at most    *)
(* one more candidate is begun after it.                                   *)
THEOREM CancelEndsWork == Spec => []CancelStopsWork
<1>1. ASSUME IInv
      PROVE  CancelStopsWork
  <2>1. Len(items) \in Nat /\ atCancel \in Nat
    BY <1>1, Positions DEF IInv, RunOK
  <2> QED
    BY <1>1, <2>1 DEF IInv, CancelIsSeen, CancelStopsWork
<1> QED
  BY <1>1, Invariance, PTL

(* _complete_policy_item: the item and its policy go together, wherever    *)
(* the run is interrupted.                                                 *)
THEOREM ItemsHavePolicies == Spec => []ItemsMatchPolicies
<1>1. IInv => ItemsMatchPolicies
  BY DEF IInv
<1> QED
  BY <1>1, Invariance, PTL

-----------------------------------------------------------------------------
(* The table's promise.                                                    *)

(* Every step of the run is a step of TaskLifecycle, or leaves the row     *)
(* alone.                                                                  *)
LEMMA StepRefines == IInv /\ [Next]_vars => [Lifecycle!Next]_(Lifecycle!vars)
<1> SUFFICES ASSUME IInv, [Next]_vars PROVE Lifecycle!Next \/ UNCHANGED Lifecycle!vars
  OBVIOUS
<1>1. ASSUME Create
      PROVE  Lifecycle!Create(1, 1)
  BY <1>1 DEF Create, IInv, RowOK, Lifecycle!Create, Lifecycle!Status
<1>2. ASSUME Claim
      PROVE  Lifecycle!Claim(1)
  <2>1. /\ status = "pending" /\ status' = "running" /\ doomed' = cancel
        /\ UNCHANGED cancel
    BY <1>2 DEF Claim
  <2>2. Lifecycle!Pending(1) = {1} /\ Lifecycle!Running(1) = {}
    BY <2>1 DEF Lifecycle!Pending, Lifecycle!Running
  <2> DEFINE rule == [t \in {1} |-> IF status = "absent" THEN 0 ELSE 1]
  <2>3. rule[1] = 1 /\ UNCHANGED rule
    BY <2>1
  <2>4. /\ 1 \in Lifecycle!Pending(rule[1]) /\ Lifecycle!Running(rule[1]) = {}
        /\ \A u \in Lifecycle!Pending(rule[1]) : 1 <= u
    BY <2>2, <2>3
  <2>5. /\ [t \in {1} |-> status]' = [[t \in {1} |-> status] EXCEPT ![1] = "running"]
        /\ [t \in {1} |-> doomed]' = [[t \in {1} |-> doomed] EXCEPT ![1] = [t \in {1} |-> cancel][1]]
        /\ UNCHANGED [t \in {1} |-> cancel]
    BY <2>1
  <2> QED
    BY <2>3, <2>4, <2>5 DEF Lifecycle!Claim
<1>3. ASSUME MarkCancel
      PROVE  Lifecycle!RequestCancel(1)
  BY <1>3 DEF MarkCancel, IInv, RowFollowsRun, Lifecycle!RequestCancel
<1>4. ASSUME Finish
      PROVE  \E s \in Lifecycle!Terminal : Lifecycle!Finish(1, s)
  <2>1. /\ status = "running" /\ verdict \in Lifecycle!Terminal
        /\ verdict = "cancelled" => cancel
        /\ doomed => verdict \in {"cancelled", "failed"}
    BY <1>4 DEF Finish, IInv, RowFollowsRun, DoomedDoesNoWork, VerdictIsHonest, Terminal
  <2>2. verdict \in Lifecycle!Outcome(1)
    BY <2>1 DEF Lifecycle!Outcome, Lifecycle!Allowed
  <2>3. Lifecycle!Finish(1, verdict)
    BY <1>4, <2>1, <2>2 DEF Finish, Lifecycle!Finish, Lifecycle!Terminal
  <2> QED
    BY <2>1, <2>3
<1>5. ASSUME Recover
      PROVE  Lifecycle!Recover
  BY <1>5 DEF Recover, Lifecycle!Recover
<1>6. ASSUME UNCHANGED row
      PROVE  UNCHANGED Lifecycle!vars
  BY <1>6 DEF row, Lifecycle!vars
<1>7. ASSUME RequestCancel \/ Except \/ FinishFails \/ Crash
      PROVE  UNCHANGED Lifecycle!vars
  BY <1>6, <1>7 DEF RequestCancel, Except, FinishFails, Crash
<1>8. ASSUME Run, ~Finish
      PROVE  UNCHANGED <<status, cancel, doomed>>
  BY <1>8 DEF Run, Load, Discover, FetchEntry, FetchEntryFails, AfterEntry, SetDiscoveredCount,
              AfterDiscovery, BeforeItem, CreateItem, StoreItem, FilterItem, FailItem, AfterItem,
              EndOfCandidates, Decide, CancelCheck, GoTo, FinishWith, row
<1>9. ASSUME UNCHANGED <<status, cancel, doomed>>
      PROVE  UNCHANGED Lifecycle!vars
  BY <1>9 DEF Lifecycle!vars
<1>10. CASE UNCHANGED vars
  BY <1>6, <1>10 DEF vars
<1> QED
  BY <1>1, <1>2, <1>3, <1>4, <1>5, <1>7, <1>8, <1>9, <1>10 DEF Next, Lifecycle!Next

(* The runner keeps the promise of TaskLifecycle for its task: with the    *)
(* refinement of the task centre, both programs that write the row do.     *)
THEOREM Implementation == Spec => ImplementsLifecycle
<1>1. Init => Lifecycle!Init
  BY DEF Init, Lifecycle!Init
<1>2. IInv /\ [Next]_vars => [Lifecycle!Next]_(Lifecycle!vars)
  BY StepRefines
<1> QED
  BY <1>1, <1>2, Invariance, PTL DEF Spec, ImplementsLifecycle, Lifecycle!Spec
=============================================================================
