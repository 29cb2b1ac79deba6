----------------------------- MODULE CallLimiter -----------------------------
(***************************************************************************)
(* AutomationMiddleware.limit (ai/middleware.py): calls counted by minutes *)
(* in a table in memory that drops the least recently used key when it has *)
(* too many. It runs on the event loop without an await, so that no call   *)
(* comes between its reading of the clock and its count.                   *)
(***************************************************************************)
EXTENDS Tables, Naturals

CONSTANTS
    Caller,        \* keys: a peer, a credential
    Maximum,       \* calls allowed in a minute
    Capacity,      \* keys in the table (4096)
    Minute,        \* ticks to a minute
    MaxTicks,      \* bound: ticks of the clock
    MaxCalls       \* bound: calls of each caller in a minute

ASSUME CallsAssumption ==
    /\ Maximum \in Nat \ {0} /\ Capacity \in Nat \ {0} /\ Minute \in Nat \ {0}
    /\ MaxTicks \in Nat /\ MaxCalls \in Nat

VARIABLES
    ticks,   \* monotonic()
    windows, \* windows, oldest use first: [key, minute, count]
    made     \* history: calls made and admitted in this minute, by caller

callVars == <<ticks, windows, made>>

NoCalls == [k \in Caller |-> [calls |-> 0, admitted |-> 0]]

CallInit ==
    /\ ticks = 0
    /\ windows = <<>>
    /\ made = NoCalls

CallTypeOK ==
    /\ ticks \in 0..MaxTicks
    /\ windows \in Seq([key : Caller, minute : Nat, count : Nat])
    /\ Len(windows) <= Capacity /\ OneRowEach(windows)
    /\ made \in [Caller -> [calls : 0..MaxCalls, admitted : 0..MaxCalls]]

MinuteOf(tick) == tick \div Minute

TicksPass ==
    /\ ticks < MaxTicks
    /\ ticks' = ticks + 1
    /\ made' = IF MinuteOf(ticks') = MinuteOf(ticks) THEN made ELSE NoCalls
    /\ UNCHANGED windows

Counted(key) ==
    LET same == key \in Keys(windows) /\ RowOf(windows, key).minute = MinuteOf(ticks) IN
    [key |-> key, minute |-> MinuteOf(ticks),
     count |-> IF same THEN RowOf(windows, key).count + 1 ELSE 1]

(* Broken variant: a key that is used again keeps its place.               *)
UsedInPlace(key) ==
    IF key \in Keys(windows) THEN Put(windows, Counted(key)) ELSE Append(windows, Counted(key))

\* pop and insert: the key goes to the end.
Used(key) == Append(Without(windows, key), Counted(key))

\* while len(windows) > 4096: popitem(last=False)
WithinCapacity(table) ==
    SubSeq(table, 1 + IF Len(table) > Capacity THEN Len(table) - Capacity ELSE 0, Len(table))

Limit(key) ==
    /\ made[key].calls < MaxCalls
    /\ windows' = WithinCapacity(Used(key))
    /\ made' = [made EXCEPT
         ![key].calls = @ + 1,
         ![key].admitted = @ + IF Counted(key).count <= Maximum THEN 1 ELSE 0]
    /\ UNCHANGED ticks

CallNext ==
    \/ \E key \in Caller : Limit(key)
    \/ TicksPass

CallSpec == CallInit /\ [][CallNext]_callVars

-----------------------------------------------------------------------------

\* Who has called in this minute.
Calling == {k \in Caller : made[k].calls > 0}

(* While no more than Capacity keys call in a minute, none is admitted     *)
(* more than Maximum times in it: a key in use is never forgotten before   *)
(* one from an earlier minute.                                             *)
LimitHolds ==
    Cardinality(Calling) <= Capacity => \A k \in Caller : made[k].admitted <= Maximum
=============================================================================
