---------------------------- MODULE LoginLimiter ----------------------------
(***************************************************************************)
(* LoginRateLimiter (auth/service.py) and the logins it guards: a table in *)
(* memory of the failed logins of each peer and account in a sliding       *)
(* window, with a bound on its size; one of a few locks is held around the *)
(* whole attempt, and a new key is refused while the table is full.        *)
(***************************************************************************)
EXTENDS Tables, Naturals

CONSTANTS
    Login,         \* threads that serve logins
    Account,       \* rate keys: a peer's address and an account's name
    GuardOf,       \* the lock of each key; keys share them (hash modulo 64)
    Attempts,      \* failures allowed in a window
    Window,        \* its length (window_seconds)
    MaxActiveKeys, \* windows in the table
    Nobody,        \* no account
    MaxClock       \* bound: ticks of the clock

ASSUME LimiterAssumption ==
    /\ Attempts \in Nat \ {0} /\ Window \in Nat \ {0} /\ MaxActiveKeys \in Nat \ {0}
    /\ MaxClock \in Nat
    /\ Nobody \notin Account

VARIABLES
    clock,     \* monotonic()
    failures,  \* _failures, oldest activity first: [key, failed, last]
    verifying, \* the account each thread is verifying, or Nobody
    answers,   \* the last answer of each thread
    reported   \* history: when a failed login was last reported for each account

limiterVars == <<clock, failures, verifying, answers, reported>>

FailureWindow == [key : Account, failed : Seq(0..MaxClock), last : 0..MaxClock]

LimiterInit ==
    /\ clock = 0
    /\ failures = <<>>
    /\ verifying = [p \in Login |-> Nobody]
    /\ answers = [p \in Login |-> "none"]
    /\ reported = [a \in Account |-> <<>>]

LimiterTypeOK ==
    /\ clock \in 0..MaxClock
    /\ failures \in Seq(FailureWindow) /\ Len(failures) <= MaxActiveKeys /\ OneRowEach(failures)
    /\ verifying \in [Login -> Account \cup {Nobody}]
    /\ answers \in [Login -> {"none", "full", "limited", "invalid", "welcome", "error"}]
    /\ reported \in [Account -> Seq(0..MaxClock)]

ClockTicks ==
    /\ clock < MaxClock
    /\ clock' = clock + 1
    /\ UNCHANGED <<failures, verifying, answers, reported>>

-----------------------------------------------------------------------------

Recent(time, now) == time + Window > now

\* How many of a sequence go from its front before one is recent.
Expired(times, now) ==
    CHOOSE n \in 0..Len(times) : /\ \A i \in 1..n : ~Recent(times[i], now)
                                 /\ n < Len(times) => Recent(times[n + 1], now)

\* _remove_expired_from_oldest
Pruned(table, now) ==
    SubSeq(table, Expired([i \in DOMAIN table |-> table[i].last], now) + 1, Len(table))

\* _remove_expired_failures
Unexpired(times, now) == SubSeq(times, Expired(times, now) + 1, Len(times))

(* Broken variant: attempts for one account are not serialised.            *)
GuardIsOpen(account) == TRUE

\* guard: nobody is inside an attempt for an account with the same lock.
GuardIsFree(account) ==
    \A p \in Login : verifying[p] # Nobody => GuardOf[verifying[p]] # GuardOf[account]

\* Full for a key that has no row.
Full(table) == Len(table) >= MaxActiveKeys

NewWindow(account, failed) == [key |-> account, failed |-> failed, last |-> clock]

\* The row of an account without the failures that have expired.
Renewed(table, account) ==
    [RowOf(table, account) EXCEPT !.failed = Unexpired(RowOf(table, account).failed, clock)]

Refuse(p, answer) ==
    /\ answers' = [answers EXCEPT ![p] = answer]
    /\ UNCHANGED <<clock, verifying, reported>>

Verify(p, account) ==
    /\ verifying' = [verifying EXCEPT ![p] = account]
    /\ answers' = [answers EXCEPT ![p] = "none"]
    /\ UNCHANGED <<clock, reported>>

\* ensure_allowed, under the guard that login has just taken.
EnsureAllowed(p, account) ==
    LET table == Pruned(failures, clock)
        row == Renewed(table, account)
    IN
    /\ verifying[p] = Nobody /\ GuardIsFree(account)
    /\ \/ /\ account \notin Keys(table) /\ Full(table)
          /\ failures' = table
          /\ Refuse(p, "full")
       \/ /\ account \notin Keys(table) /\ ~Full(table)
          /\ failures' = Append(table, NewWindow(account, <<>>))
          /\ Verify(p, account)
       \/ /\ account \in Keys(table)
          /\ failures' = Put(table, row)
          /\ IF Len(row.failed) >= Attempts THEN Refuse(p, "limited") ELSE Verify(p, account)

Done(p, answer) ==
    /\ verifying' = [verifying EXCEPT ![p] = Nobody]
    /\ answers' = [answers EXCEPT ![p] = answer]
    /\ UNCHANGED clock

FailedAgain(row) == [row EXCEPT !.failed = Append(@, clock), !.last = clock]

(* Broken variant: a row that fails again keeps its place.                 *)
WithFailureInPlace(table, account) ==
    LET row == Renewed(table, account) IN
    IF account \notin Keys(table) THEN Append(table, NewWindow(account, <<clock>>))
    ELSE IF Len(row.failed) >= Attempts THEN Put(table, row)
    ELSE Put(table, FailedAgain(row))

\* A failure counted, and its row moved to the end; a full count stays as it is.
WithFailure(table, account) ==
    LET row == Renewed(table, account) IN
    IF account \notin Keys(table) THEN Append(table, NewWindow(account, <<clock>>))
    ELSE IF Len(row.failed) >= Attempts THEN Put(table, row)
    ELSE Append(Without(table, account), FailedAgain(row))

\* The password is wrong: record_failure; its own row may have expired meanwhile.
RecordFailure(p) ==
    LET account == verifying[p]
        table == Pruned(failures, clock)
    IN
    /\ account # Nobody
    /\ IF account \notin Keys(table) /\ Full(table)
       THEN failures' = table /\ Done(p, "full") /\ UNCHANGED reported
       ELSE /\ failures' = WithFailure(table, account)
            /\ Done(p, "invalid")
            /\ reported' = [reported EXCEPT
                 ![account] = Unexpired(Append(reported[account], clock), clock)]

\* The password is right and the session stored: clear.
Clear(p) ==
    /\ verifying[p] # Nobody
    /\ failures' = Without(failures, verifying[p])
    /\ reported' = [reported EXCEPT ![verifying[p]] = <<>>]
    /\ Done(p, "welcome")

\* The database raises: the row that ensure_allowed made stays until it expires.
LoginBreaks(p) ==
    /\ verifying[p] # Nobody
    /\ Done(p, "error")
    /\ UNCHANGED <<failures, reported>>

-----------------------------------------------------------------------------

Attempt(p) ==
    \/ \E a \in Account : EnsureAllowed(p, a)
    \/ RecordFailure(p) \/ Clear(p) \/ LoginBreaks(p)

LimiterNext ==
    \/ \E p \in Login : Attempt(p)
    \/ ClockTicks

LimiterSpec == LimiterInit /\ [][LimiterNext]_limiterVars

-----------------------------------------------------------------------------

RecentOf(times, now) == {i \in DOMAIN times : Recent(times[i], now)}

(* However many logins for an account run at once, it is told of no more   *)
(* than Attempts wrong passwords in any window, since its last success.    *)
GuessesAreBounded ==
    \A a \in Account : Cardinality(RecentOf(reported[a], clock)) <= Attempts

(* A login is turned away for lack of room only when every place is taken  *)
(* by an account that was active within the window: the table is in the    *)
(* order of activity, so that the oldest go first and all who may go, go.  *)
RoomIsNotWasted ==
    [][\A p \in Login : answers'[p] = "full" /\ answers[p] # "full" =>
         Cardinality({i \in DOMAIN failures' : Recent(failures'[i].last, clock)}) = MaxActiveKeys
      ]_limiterVars
=============================================================================
