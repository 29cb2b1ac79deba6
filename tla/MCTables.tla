------------------------------ MODULE MCTables ------------------------------
(* Instances for TLC of the modules that are one table and its operations: *)
(* PolicyStore, LoginLimiter and CallLimiter. They share no state, so each *)
(* behaviour uses one of them and the others stand still.                  *)
EXTENDS PolicyStore, LoginLimiter, CallLimiter

CONSTANTS lock, a3

VARIABLE used

\* Two accounts share a lock.
TwoLocks == [a \in Account |-> IF a = a3 THEN Nobody ELSE lock]

OneChosen == Init /\ LimiterInit /\ CallInit /\ used \in {"policies", "logins", "calls"}

\* Policies can be stored for ever; the bounds of the limiters end their behaviours.
OneMoves ==
    /\ UNCHANGED used
    /\ \/ used = "policies" /\ Next /\ UNCHANGED <<limiterVars, callVars>>
       \/ used = "logins" /\ LimiterNext /\ UNCHANGED <<vars, callVars>>
       \/ used = "calls" /\ CallNext /\ UNCHANGED <<vars, limiterVars>>
       \/ used # "policies" /\ UNCHANGED <<vars, limiterVars, callVars>>

OneInUse == OneChosen /\ [][OneMoves]_<<vars, limiterVars, callVars, used>>

\* As no behaviour uses two of the modules, the values that stand for addresses and hashes
\* stand for logins and accounts too, and the same permutations serve both.
Symmetry == Permutations(Url) \cup Permutations(Hash)
=============================================================================
