-------------------------- MODULE AnalysisLifecycle ---------------------------
(***************************************************************************)
(* What the analysis of policies promises, without workers, locks or       *)
(* transactions: tasks are claimed oldest first, and a task that succeeds  *)
(* shows the complete and correct result of one reading of its policies,   *)
(* taken at one moment while it ran. What is correct is said here by       *)
(* counting in the texts, independently of how engine.py computes it.      *)
(***************************************************************************)
EXTENDS Naturals, Sequences, FiniteSets

CONSTANTS Task, Policy, Dropped, TopN, None

VARIABLES
    texts,    \* the policies' content_text
    status,   \* the status graph of analysis/state.py
    kind,     \* "word_frequency" or "policy_comparison"
    chosen,   \* the policies of a task, in the order of the request
    reading,  \* the texts a task works on
    output    \* what a task that has succeeded shows

vars == <<texts, status, kind, chosen, reading, output>>

Init ==
    /\ DOMAIN texts = Policy
    /\ status = [t \in Task |-> "absent"]
    /\ kind = [t \in Task |-> None]
    /\ chosen = [t \in Task |-> <<>>]
    /\ reading = [t \in Task |-> None]
    /\ output = [t \in Task |-> None]

-----------------------------------------------------------------------------
(* The correct results of the texts X = <<x1, ..., xn>>.                   *)

Words(x) == {x[i] : i \in DOMAIN x} \ Dropped

Times(x, w) == Cardinality({i \in DOMAIN x : x[i] = w})

AllWords(X) == UNION {Words(X[d]) : d \in DOMAIN X}

Holding(X, w) == {d \in DOMAIN X : w \in Words(X[d])}

(* The places where w occurs in X, and where it occurs first.              *)
Places(X, w) ==
    {di \in UNION {{d} \X DOMAIN X[d] : d \in DOMAIN X} : X[di[1]][di[2]] = w}

Precedes(a, b) == a[1] < b[1] \/ (a[1] = b[1] /\ a[2] < b[2])

AppearsBefore(X, v, w) ==
    \E a \in Places(X, v) : \A b \in Places(X, w) : Precedes(a, b)

(* v is more common than w in X, or as common and seen earlier.            *)
MoreCommon(X, v, w) ==
    LET n == Cardinality(Places(X, v))
        m == Cardinality(Places(X, w))
    IN n > m \/ (n = m /\ v # w /\ AppearsBefore(X, v, w))

Top(X) == {w \in AllWords(X) : Cardinality({v \in AllWords(X) : MoreCommon(X, v, w)}) < TopN}

WordsCorrect(X, o) ==
    /\ o.words = [d \in DOMAIN X |->
                     [w \in Words(X[d]) |->
                         <<Times(X[d], w),
                           Cardinality({i \in DOMAIN X[d] : X[d][i] \notin Dropped}),
                           Cardinality(Holding(X, w))>>]]
    /\ o.relations =
           {<<vw[1], vw[2], Cardinality(Holding(X, vw[1]) \cap Holding(X, vw[2]))>> : vw \in
               {p \in Top(X) \X Top(X) : /\ p[1] < p[2]
                                         /\ Holding(X, p[1]) \cap Holding(X, p[2]) # {}}}

(* s lists the first TopN members of S as Before orders them.              *)
ListsFirst(s, S, Before(_, _)) ==
    /\ Len(s) <= TopN /\ (Len(s) < TopN => Len(s) = Cardinality(S))
    /\ \A i \in DOMAIN s : s[i] \in S /\ Cardinality({v \in S : Before(v, s[i])}) = i - 1

ByScore(X, D, v, w) ==
    LET Score(u) == Cardinality({di \in Places(X, u) : di[1] \in D})
    IN Score(v) > Score(w) \/ (Score(v) = Score(w) /\ v < w)

PairCorrect(X, l, r, p) ==
    LET L == Words(X[l])
        R == Words(X[r])
        Matches(a, b) == Cardinality({ij \in (DOMAIN X[a]) \X (DOMAIN X[b]) :
                             X[a][ij[1]] = X[b][ij[2]] /\ X[a][ij[1]] \notin Dropped})
    IN /\ ListsFirst(p.shared, L \cap R, LAMBDA v, w : ByScore(X, {l, r}, v, w))
       /\ ListsFirst(p.left_only, L \ R, LAMBDA v, w : ByScore(X, {l}, v, w))
       /\ ListsFirst(p.right_only, R \ L, LAMBDA v, w : ByScore(X, {r}, v, w))
       /\ p.similarity = <<Matches(l, r), Matches(l, l), Matches(r, r)>>

ReportCorrect(X, o) ==
    /\ ListsFirst(o.common, {w \in AllWords(X) : Holding(X, w) = DOMAIN X},
                  LAMBDA v, w : ByScore(X, DOMAIN X, v, w))
    /\ DOMAIN o.keywords = DOMAIN X
    /\ \A d \in DOMAIN X :
           ListsFirst(o.keywords[d], Words(X[d]), LAMBDA v, w : MoreCommon(<<X[d]>>, v, w))
    /\ DOMAIN o.pairs = {lr \in (DOMAIN X) \X (DOMAIN X) : lr[1] < lr[2]}
    /\ \A lr \in DOMAIN o.pairs : PairCorrect(X, lr[1], lr[2], o.pairs[lr])

Correct(k, X, o) == IF k = "word_frequency" THEN WordsCorrect(X, o) ELSE ReportCorrect(X, o)

-----------------------------------------------------------------------------
(* Collection may rewrite a policy at any moment.                          *)
Rewrite ==
    /\ DOMAIN texts' = Policy
    /\ UNCHANGED <<status, kind, chosen, reading, output>>

Create(t) ==
    /\ status[t] = "absent"
    /\ status' = [status EXCEPT ![t] = "pending"]
    /\ \A u \in Task \ {t} : kind'[u] = kind[u] /\ chosen'[u] = chosen[u]
    /\ kind'[t] \in {"word_frequency", "policy_comparison"}
    /\ Len(chosen'[t]) >= (IF kind'[t] = "policy_comparison" THEN 2 ELSE 1)
    /\ UNCHANGED <<texts, reading, output>>

Claim(t) ==
    /\ status[t] = "pending"
    /\ \A u \in Task : status[u] = "pending" => t <= u
    /\ status' = [status EXCEPT ![t] = "running"]
    /\ UNCHANGED <<texts, kind, chosen, reading, output>>

Read(t) ==
    /\ status[t] = "running"
    /\ reading[t] = None
    /\ reading' = [reading EXCEPT ![t] = [i \in DOMAIN chosen[t] |-> texts[chosen[t][i]]]]
    /\ UNCHANGED <<texts, status, kind, chosen, output>>

Succeed(t) ==
    /\ status[t] = "running"
    /\ reading[t] # None
    /\ status' = [status EXCEPT ![t] = "succeeded"]
    /\ \A u \in Task \ {t} : output'[u] = output[u]
    /\ Correct(kind[t], reading[t], output'[t])
    /\ UNCHANGED <<texts, kind, chosen, reading>>

(* One task fails by itself, all that run fail at a restart.               *)
Fail(T) ==
    /\ T # {}
    /\ \A t \in T : status[t] = "running"
    /\ status' = [t \in Task |-> IF t \in T THEN "failed" ELSE status[t]]
    /\ UNCHANGED <<texts, kind, chosen, reading, output>>

Next ==
    \/ Rewrite
    \/ \E t \in Task : Create(t) \/ Claim(t) \/ Read(t) \/ Succeed(t)
    \/ \E T \in SUBSET Task : Fail(T)

Spec == Init /\ [][Next]_vars
=============================================================================
