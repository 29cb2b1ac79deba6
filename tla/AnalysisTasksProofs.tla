------------------------- MODULE AnalysisTasksProofs --------------------------
(***************************************************************************)
(* Proofs about AnalysisTasks, for any number of tasks, policies, requests *)
(* and threads of the pool, any texts, failures, rewrites and crashes: it  *)
(* keeps the promise of AnalysisLifecycle, and engine.py computes what the *)
(* promise calls the correct result of any texts.                          *)
(***************************************************************************)
EXTENDS AnalysisTasks, FiniteSetTheorems, WellFoundedInduction, TLAPS

Status == {"absent", "pending", "running", "succeeded", "failed"}

Place == Busy \cup {"idle", "queued", "ended", "down", "serving", "draining"}

(* The policies of a task, each named once.                                *)
Lists == UNION {[1..n -> Policy] : n \in 1..Cardinality(Policy)}

(* What a run stores of its outcome.                                       *)
Shapes ==
    /\ kind \in [Task -> {"word_frequency", "policy_comparison", None}]
    /\ chosen \in [Task -> Lists \cup {<<>>}]
    /\ loaded \in [Task -> Readings \cup {None}]
    /\ words \in [Task -> {o.words : o \in Outcomes} \cup {None}]
    /\ relations \in [Task -> {o.relations : o \in Outcomes} \cup {{}}]
    /\ report \in [Task -> {o.report : o \in Outcomes} \cup {None}]

(* A row's kind and policies are complete from its first commit on; a task *)
(* that was not claimed has no job and has read nothing.                   *)
RowOK(t) ==
    /\ status[t] # "absent" =>
          /\ kind[t] \in {"word_frequency", "policy_comparison"}
          /\ chosen[t] \in Lists
          /\ kind[t] = "policy_comparison" => Len(chosen[t]) >= 2
    /\ status[t] \in {"absent", "pending"} => pc[t] = "idle" /\ loaded[t] = None

(* Where a job is says what its task's row, memory and results hold.       *)
JobOK(t) ==
    /\ pc[t] \in {"queued", "load"} => status[t] = "running" /\ loaded[t] = None
    /\ pc[t] \in {"store", "relate", "finish"} =>
          status[t] = "running" /\ loaded[t] \in Readings /\ DOMAIN loaded[t] = DOMAIN chosen[t]
    /\ pc[t] = "handler" => status[t] = "running"
    /\ pc[t] = "relate" =>
          kind[t] = "word_frequency" /\ words[t] = Outcome(loaded[t]).words
    /\ pc[t] = "finish" /\ kind[t] = "word_frequency" =>
          /\ words[t] = Outcome(loaded[t]).words
          /\ relations[t] = Outcome(loaded[t]).relations
    /\ pc[t] = "finish" /\ kind[t] = "policy_comparison" =>
          report[t] = Outcome(loaded[t]).report

(* No thread outlives the process, or its orderly end.                     *)
DownIsIdle == pc[Main] = "down" => \A th \in Thread \ {Main} : pc[th] = "idle"

IInv ==
    /\ TypeOK
    /\ Shapes
    /\ \A t \in Task : RowOK(t) /\ JobOK(t)
    /\ DownIsIdle

-----------------------------------------------------------------------------
(* Finite sets, strict orders of them, and sums over them.                 *)

(* A set of natural numbers that is not empty has a least member.          *)
LEMMA LeastExists ==
    ASSUME NEW S, S \subseteq Nat, S # {}
    PROVE  \E x \in S : \A y \in S : x <= y
<1> DEFINE R == OpToRel(<, Nat)
<1>1. IsWellFoundedOn(R, Nat)
  BY NatLessThanWellFounded, Zenon
<1> HIDE DEF R
<1>2. PICK x \in S : \A y \in S : ~ (<<y, x>> \in R)
  BY <1>1, WFMin
<1>3. ASSUME NEW y \in S
      PROVE  x <= y
  <2>1. ~ (<<y, x>> \in R)
    BY <1>2
  <2>2. x \in Nat /\ y \in Nat
    OBVIOUS
  <2>3. ~ (y < x)
    BY <2>1, <2>2 DEF R, OpToRel
  <2> QED
    BY <2>2, <2>3
<1> QED
  BY <1>2, <1>3

(* The pairs order the members of S: <<v, w>> says that v comes before w.  *)
StrictOrder(S, pairs) ==
    /\ \A w \in S : <<w, w>> \notin pairs
    /\ \A v, w \in S : v = w \/ <<v, w>> \in pairs \/ <<w, v>> \in pairs
    /\ \A u, v, w \in S : <<u, v>> \in pairs /\ <<v, w>> \in pairs => <<u, w>> \in pairs

(* The members of S that come before w.                                    *)
Before(S, pairs, w) == {v \in S : <<v, w>> \in pairs}

(* In a finite set that is ordered each rank is taken, and only once.      *)
LEMMA RanksAreTaken ==
    ASSUME NEW S, IsFiniteSet(S), NEW pairs, StrictOrder(S, pairs)
    PROVE  /\ Cardinality(S) \in Nat
           /\ \A w \in S : Cardinality(Before(S, pairs, w)) \in 0..(Cardinality(S) - 1)
           /\ \A k \in 0..(Cardinality(S) - 1) : \E w \in S : Cardinality(Before(S, pairs, w)) = k
           /\ \A v, w \in S : Cardinality(Before(S, pairs, v)) = Cardinality(Before(S, pairs, w)) => v = w
<1> DEFINE c == Cardinality(S)
           Below(w) == Before(S, pairs, w)
           rank == [w \in S |-> Cardinality(Below(w)) + 1]
<1>1. c \in Nat
  BY FS_CardinalityType
<1>2. ASSUME NEW w \in S
      PROVE  IsFiniteSet(Below(w)) /\ Cardinality(Below(w)) \in 0..(c - 1)
  <2>1. Below(w) \subseteq S \ {w}
    BY DEF StrictOrder, Before
  <2>2. IsFiniteSet(S \ {w}) /\ Cardinality(S \ {w}) = c - 1
    BY FS_RemoveElement
  <2>3. IsFiniteSet(Below(w)) /\ Cardinality(Below(w)) <= c - 1
    BY <2>1, <2>2, FS_Subset
  <2>4. Cardinality(Below(w)) \in Nat
    BY <2>3, FS_CardinalityType
  <2> HIDE DEF Below
  <2> QED
    BY <2>3, <2>4, <1>1
<1>3. ASSUME NEW v \in S, NEW w \in S, <<v, w>> \in pairs
      PROVE  Cardinality(Below(v)) < Cardinality(Below(w))
  <2>1. Below(v) \subseteq Below(w) /\ v \in Below(w) /\ v \notin Below(v)
    BY <1>3 DEF StrictOrder, Before
  <2>2. Cardinality(Below(v)) <= Cardinality(Below(w))
    BY <2>1, <1>2, FS_Subset
  <2>3. Cardinality(Below(v)) # Cardinality(Below(w))
    BY <2>1, <1>2, FS_Subset
  <2>4. Cardinality(Below(v)) \in Nat /\ Cardinality(Below(w)) \in Nat
    BY <1>2
  <2> HIDE DEF Below
  <2> QED
    BY <2>2, <2>3, <2>4
<1>4. \A v, w \in S : Cardinality(Below(v)) = Cardinality(Below(w)) => v = w
  <2> SUFFICES ASSUME NEW v \in S, NEW w \in S, v # w
               PROVE  Cardinality(Below(v)) # Cardinality(Below(w))
    OBVIOUS
  <2>1. <<v, w>> \in pairs \/ <<w, v>> \in pairs
    BY DEF StrictOrder
  <2>2. Cardinality(Below(v)) \in Nat /\ Cardinality(Below(w)) \in Nat
    BY <1>2
  <2>3. Cardinality(Below(v)) < Cardinality(Below(w)) \/ Cardinality(Below(w)) < Cardinality(Below(v))
    BY <2>1, <1>3
  <2> HIDE DEF Below
  <2> QED
    BY <2>2, <2>3
<1>5. rank \in [S -> 1..c]
  <2>1. \A w \in S : Cardinality(Below(w)) + 1 \in 1..c
    BY <1>1, <1>2
  <2> HIDE DEF Below
  <2> QED
    BY <2>1
<1>6. \A v, w \in S : rank[v] = rank[w] => v = w
  <2> SUFFICES ASSUME NEW v \in S, NEW w \in S, rank[v] = rank[w]
               PROVE  v = w
    OBVIOUS
  <2>1. Cardinality(Below(v)) + 1 = Cardinality(Below(w)) + 1
    OBVIOUS
  <2>2. Cardinality(Below(v)) \in Nat /\ Cardinality(Below(w)) \in Nat
    BY <1>2
  <2>3. Cardinality(Below(v)) = Cardinality(Below(w))
    <3> HIDE DEF Below
    <3> QED
      BY <2>1, <2>2
  <2> QED
    BY <2>3, <1>4
<1>7. rank \in Surjection(S, 1..c)
  <2>1. rank \in Injection(S, 1..c)
    BY <1>5, <1>6, Zenon DEF Injection, IsInjective
  <2>2. IsFiniteSet(1..c) /\ Cardinality(1..c) = c
    BY <1>1, FS_Interval
  <2> QED
    BY <2>1, <2>2, FS_Injection
<1>8. ASSUME NEW k \in 0..(c - 1)
      PROVE  \E w \in S : Cardinality(Below(w)) = k
  <2>1. k + 1 \in 1..c
    BY <1>1
  <2>2. PICK w \in S : rank[w] = k + 1
    <3> HIDE DEF rank
    <3> QED
      BY <1>7, <2>1 DEF Surjection
  <2>3. Cardinality(Below(w)) + 1 = k + 1 /\ Cardinality(Below(w)) \in Nat
    BY <2>2, <1>2
  <2>4. Cardinality(Below(w)) = k
    <3> HIDE DEF Below
    <3> QED
      BY <2>3
  <2> QED
    BY <2>4
<1> QED
  BY <1>1, <1>2, <1>4, <1>8

(* Leading lists the first of an ordered set, or all if it has no more.    *)
LEMMA LeadingIs ==
    ASSUME NEW S, IsFiniteSet(S), NEW pairs, StrictOrder(S, pairs), NEW n \in Nat
    PROVE  /\ Leading(S, pairs, n) \in Seq(S)
           /\ Len(Leading(S, pairs, n)) = IF Cardinality(S) < n THEN Cardinality(S) ELSE n
           /\ \A i \in DOMAIN Leading(S, pairs, n) :
                Cardinality(Before(S, pairs, Leading(S, pairs, n)[i])) = i - 1
           /\ Range(Leading(S, pairs, n)) = {w \in S : Cardinality(Before(S, pairs, w)) < n}
<1> DEFINE c == Cardinality(S)
           m == IF c < n THEN c ELSE n
           Rank(w) == Cardinality(Before(S, pairs, w))
           s == Leading(S, pairs, n)
<1>1. /\ c \in Nat /\ \A w \in S : Rank(w) \in 0..(c - 1)
      /\ \A k \in 0..(c - 1) : \E w \in S : Rank(w) = k
      /\ \A v, w \in S : Rank(v) = Rank(w) => v = w
  BY RanksAreTaken
<1>2. s = [i \in 1..m |-> CHOOSE w \in S : Rank(w) = i - 1]
  BY DEF Leading, Before
<1>3. m \in Nat /\ \A i \in 1..m : i - 1 \in 0..(c - 1)
  BY <1>1
<1> HIDE DEF Rank, m, c
<1>4. \A i \in 1..m : s[i] \in S /\ Rank(s[i]) = i - 1
  BY <1>1, <1>2, <1>3
<1>5. s \in [1..m -> S]
  BY <1>2, <1>4
<1> HIDE DEF s
<1>6. s \in Seq(S) /\ Len(s) = m /\ DOMAIN s = 1..m
  BY <1>3, <1>5
<1>7. ASSUME NEW w \in S, Rank(w) < n
      PROVE  w \in Range(s)
  <2>1. Rank(w) \in 0..(c - 1)
    BY <1>1
  <2>2. PICK i \in 1..m : i = Rank(w) + 1
    BY <2>1, <1>1, <1>7 DEF m
  <2>3. s[i] \in S /\ Rank(s[i]) = i - 1
    BY <1>4
  <2>4. Rank(s[i]) = Rank(w)
    BY <2>1, <2>2, <2>3
  <2>5. s[i] = w
    BY <1>1, <2>3, <2>4
  <2> QED
    BY <2>5, <1>6 DEF Range
<1>8. ASSUME NEW i \in 1..m
      PROVE  s[i] \in S /\ Rank(s[i]) < n
  <2>1. i - 1 < n
    BY <1>1, <1>3 DEF m
  <2> QED
    BY <2>1, <1>4
<1>9. Range(s) = {w \in S : Rank(w) < n}
  BY <1>6, <1>7, <1>8 DEF Range
<1>10. /\ s \in Seq(S) /\ Len(s) = m
       /\ \A i \in DOMAIN s : Rank(s[i]) = i - 1
       /\ Range(s) = {w \in S : Rank(w) < n}
  BY <1>4, <1>6, <1>9
<1> QED
  BY <1>10 DEF s, m, c, Rank

\* The terms of f are the sizes of disjoint finite sets.
AreSizes(f, A, D) ==
    /\ IsFiniteSet(D) /\ \A x \in D : IsFiniteSet(A[x])
    /\ \A x, y \in D : x # y => A[x] \cap A[y] = {}
    /\ f = [x \in D |-> Cardinality(A[x])]

(* The sum of the sizes of disjoint sets is the size of their union.       *)
LEMMA SumIs ==
    ASSUME NEW D, NEW A, NEW f, AreSizes(f, A, D)
    PROVE  /\ IsFiniteSet(UNION {A[x] : x \in D})
           /\ SumFunction(f) = Cardinality(UNION {A[x] : x \in D})
<1> USE DEF AreSizes
<1> DEFINE U(T) == UNION {A[x] : x \in T}
           g == [T \in SUBSET D |-> Cardinality(U(T))]
           One(T) == CHOOSE x \in T : TRUE
           Sums(h) == h = [T \in SUBSET D |-> IF T = {} THEN 0 ELSE f[One(T)] + h[T \ {One(T)}]]
           h == CHOOSE k : Sums(k)
<1>1. DOMAIN f = D /\ \A x \in D : f[x] = Cardinality(A[x]) /\ f[x] \in Nat
  BY FS_CardinalityType
<1>2. ASSUME NEW T \in SUBSET D
      PROVE  IsFiniteSet(T) /\ IsFiniteSet(U(T)) /\ Cardinality(U(T)) \in Nat
  <2>1. IsFiniteSet(T)
    BY FS_Subset
  <2>2. IsFiniteSet({A[x] : x \in T})
    <3>1. [x \in T |-> A[x]] \in Surjection(T, {A[x] : x \in T})
      BY DEF Surjection
    <3> QED
      BY <2>1, <3>1, FS_Surjection
  <2>3. IsFiniteSet(U(T))
    BY <2>2, FS_UNION
  <2> QED
    BY <2>1, <2>3, FS_CardinalityType
<1>3. ASSUME NEW T \in SUBSET D, NEW x \in T
      PROVE  g[T] = f[x] + g[T \ {x}]
  <2>1. U(T) = A[x] \cup U(T \ {x}) /\ A[x] \cap U(T \ {x}) = {}
    OBVIOUS
  <2>2. IsFiniteSet(A[x]) /\ T \ {x} \in SUBSET D /\ IsFiniteSet(U(T \ {x})) /\ Cardinality(U(T \ {x})) \in Nat
    BY <1>2
  <2>3. Cardinality(A[x]) \in Nat /\ Cardinality({}) = 0
    BY <2>2, FS_CardinalityType, FS_EmptySet
  <2>4. g[T] = Cardinality(U(T)) /\ g[T \ {x}] = Cardinality(U(T \ {x}))
    BY <2>2
  <2> DEFINE P == A[x]
             Q == U(T \ {x})
  <2>5. IsFiniteSet(P) /\ IsFiniteSet(Q)
    BY <2>2
  <2> HIDE DEF U, P, Q, g
  <2>6. Cardinality(P \cup Q) = Cardinality(P) + Cardinality(Q) - Cardinality(P \cap Q)
    BY <2>5, FS_Union, Zenon
  <2>7. U(T) = P \cup Q /\ P \cap Q = {}
    BY <2>1 DEF P, Q
  <2>8. Cardinality(P) = f[x] /\ Cardinality(Q) = g[T \ {x}]
    BY <2>4, <1>1 DEF P, Q
  <2>9. f[x] \in Nat /\ g[T \ {x}] \in Nat
    BY <2>2, <2>4, <1>1
  <2>10. g[T] = Cardinality(P \cup Q) /\ Cardinality(P \cap Q) = 0
    BY <2>3, <2>4, <2>7
  <2> QED
    BY <2>6, <2>8, <2>9, <2>10
<1>4. Sums(g)
  <2>1. g[{}] = 0
    <3>1. U({}) = {}
      OBVIOUS
    <3> QED
      BY <3>1, FS_EmptySet
  <2>2. ASSUME NEW T \in SUBSET D, T # {}
        PROVE  g[T] = f[One(T)] + g[T \ {One(T)}]
    <3>1. One(T) \in T
      BY <2>2
    <3> HIDE DEF One, g
    <3> QED
      BY <3>1, <1>3
  <2>3. g = [T \in SUBSET D |-> g[T]]
    OBVIOUS
  <2> HIDE DEF g, One
  <2> QED
    BY <2>1, <2>2, <2>3
<1>5. Sums(h)
  <2> HIDE DEF g, Sums
  <2> QED
    BY <1>4
<1>6. \A T \in SUBSET D : h[T] = g[T]
  <2> SUFFICES ASSUME NEW T0 \in SUBSET D, h[T0] # g[T0]
               PROVE  FALSE
    OBVIOUS
  <2> HIDE DEF h, g
  <2> DEFINE Bad == {T \in SUBSET D : h[T] # g[T]}
             sizes == {Cardinality(T) : T \in Bad}
  <2>1. sizes \subseteq Nat /\ sizes # {}
    BY <1>2, FS_CardinalityType
  <2>2. PICK n \in sizes : \A k \in sizes : n <= k
    BY <2>1, LeastExists
  <2>3. PICK T \in Bad : Cardinality(T) = n
    BY <2>2
  <2>4. T # {}
    <3>1. h[{}] = 0 /\ g[{}] = 0
      <4> HIDE DEF One
      <4> QED
        BY <1>5, <1>4
    <3> QED
      BY <3>1, <2>3
  <2>5. One(T) \in T
    BY <2>4
  <2>6. h[T] = f[One(T)] + h[T \ {One(T)}] /\ g[T] = f[One(T)] + g[T \ {One(T)}]
    <3> HIDE DEF One
    <3> QED
      BY <1>4, <1>5, <2>3, <2>4
  <2> HIDE DEF One
  <2>7. T \ {One(T)} \in Bad
    BY <2>3, <2>5, <2>6
  <2>8. Cardinality(T \ {One(T)}) = n - 1 /\ n \in Nat
    BY <2>1, <2>2, <2>3, <2>5, <1>2, FS_RemoveElement
  <2>9. n <= Cardinality(T \ {One(T)})
    BY <2>2, <2>7
  <2> QED
    BY <2>8, <2>9
<1>7. SumFunction(f) = h[D]
  BY <1>1 DEF SumFunction, SumFunctionOnSet, FoldFunctionOnSet, MapThenFoldSet
<1>8. h[D] = Cardinality(U(D)) /\ IsFiniteSet(U(D))
  <2>1. h[D] = g[D]
    BY <1>6
  <2>2. g[D] = Cardinality(U(D))
    OBVIOUS
  <2> HIDE DEF h, g, U
  <2> QED
    BY <2>1, <2>2, <1>2
<1> HIDE DEF h
<1> QED
  BY <1>7, <1>8

-----------------------------------------------------------------------------
(* The operators of the model.                                             *)

(* In a finite set of numbers every rank is taken.                         *)
LEMMA Ranks ==
    ASSUME NEW S, S \subseteq Nat, IsFiniteSet(S), NEW n \in 1..Cardinality(S)
    PROVE  \E i \in S : Cardinality({j \in S : j <= i}) = n
<1> DEFINE pairs == {vw \in S \X S : vw[1] < vw[2]}
<1>1. \A i, j \in S : <<i, j>> \in pairs <=> i < j
  OBVIOUS
<1> HIDE DEF pairs
<1>2. StrictOrder(S, pairs)
  BY <1>1 DEF StrictOrder
<1>3. PICK i \in S : Cardinality(Before(S, pairs, i)) = n - 1
  <2>1. Cardinality(S) \in Nat
    BY FS_CardinalityType
  <2>2. n - 1 \in 0..(Cardinality(S) - 1)
    BY <2>1
  <2>3. IsFiniteSet(S)
    OBVIOUS
  <2>4. /\ Cardinality(S) \in Nat
        /\ \A w \in S : Cardinality(Before(S, pairs, w)) \in 0..(Cardinality(S) - 1)
        /\ \A k \in 0..(Cardinality(S) - 1) : \E w \in S : Cardinality(Before(S, pairs, w)) = k
        /\ \A v, w \in S : Cardinality(Before(S, pairs, v)) = Cardinality(Before(S, pairs, w)) => v = w
    BY <1>2, RanksAreTaken
  <2> QED
    BY <2>2, <2>4
<1>4. {j \in S : j <= i} = Before(S, pairs, i) \cup {i} /\ i \notin Before(S, pairs, i)
  <2>1. \A j \in S : j <= i <=> j < i \/ j = i
    OBVIOUS
  <2>2. ~ (i < i)
    OBVIOUS
  <2> QED
    BY <1>1, <2>1, <2>2 DEF Before
<1>5. IsFiniteSet(Before(S, pairs, i))
  <2>1. Before(S, pairs, i) \subseteq S
    BY DEF Before
  <2> QED
    BY <2>1, FS_Subset
<1>6. Cardinality(Before(S, pairs, i) \cup {i}) = Cardinality(Before(S, pairs, i)) + 1
  BY <1>4, <1>5, FS_AddElement
<1> QED
  BY <1>3, <1>4, <1>6

(* dict.fromkeys leaves a list of policies, each once.                     *)
LEMMA UniqueIsList ==
    ASSUME NEW ids \in Selection
    PROVE  Unique(ids) \in Lists
<1> DEFINE firsts == {i \in DOMAIN ids : \A j \in 1..i-1 : ids[j] # ids[i]}
           nth(n) == CHOOSE i \in firsts : Cardinality({j \in firsts : j <= i}) = n
           C == Cardinality(firsts)
<1>1. IsFiniteSet(Policy) /\ ids \in Seq(Policy) /\ ids # <<>>
  BY AnalysisAssumption DEF AnalysisAssumption
<1>2. Len(ids) \in Nat /\ DOMAIN ids = 1..Len(ids) /\ Len(ids) > 0
  BY <1>1
<1>3. firsts \in SUBSET Nat /\ firsts \subseteq 1..Len(ids) /\ 1 \in firsts
  BY <1>2
<1>4. IsFiniteSet(firsts)
  <2>1. IsFiniteSet(1..Len(ids))
    BY <1>2, FS_Interval
  <2> QED
    BY <1>3, <2>1, FS_Subset
<1>5. C \in Nat \ {0}
  <2>1. C \in Nat
    BY <1>4, FS_CardinalityType
  <2>2. C # 0
    BY <1>3, <1>4, FS_EmptySet
  <2> QED
    BY <2>1, <2>2
<1>6. C <= Cardinality(Policy)
  <2> DEFINE f == [i \in firsts |-> ids[i]]
  <2>1. f \in [firsts -> Policy]
    BY <1>1, <1>2
  <2>2. \A i, k \in firsts : f[i] = f[k] => i = k
    <3> SUFFICES ASSUME NEW i \in firsts, NEW k \in firsts, i < k
                 PROVE  ids[i] # ids[k]
      BY <1>3
    <3> QED
      BY <1>2
  <2>3. f \in Injection(firsts, Policy)
    <3> HIDE DEF f
    <3> QED
      BY <2>1, <2>2 DEF Injection, IsInjective
  <2> HIDE DEF f
  <2> QED
    BY <1>1, <2>3, FS_Injection
<1>7. \A n \in 1..C : nth(n) \in firsts
  <2> HIDE DEF firsts
  <2> SUFFICES ASSUME NEW n \in 1..C PROVE nth(n) \in firsts
    OBVIOUS
  <2>1. \E i \in firsts : Cardinality({j \in firsts : j <= i}) = n
    BY <1>3, <1>4, Ranks
  <2> QED
    BY <2>1
<1>8. \A n \in 1..C : ids[nth(n)] \in Policy
  <2> HIDE DEF nth
  <2> QED
    BY <1>1, <1>2, <1>7
<1>9. Unique(ids) = [n \in 1..C |-> ids[nth(n)]]
  BY DEF Unique
<1>10. Unique(ids) \in [1..C -> Policy]
  <2> HIDE DEF nth, C
  <2> QED
    BY <1>8, <1>9
<1>11. C \in 1..Cardinality(Policy)
  <2>1. Cardinality(Policy) \in Nat
    BY <1>1, FS_CardinalityType
  <2> HIDE DEF C
  <2> QED
    BY <1>5, <1>6, <2>1
<1> HIDE DEF C
<1> QED
  BY <1>10, <1>11 DEF Lists

(* Lists and readings have as many elements as their domain says.          *)
LEMMA Lengths ==
    /\ \A x \in Lists : Len(x) \in Nat /\ Len(x) >= 1 /\ DOMAIN x = 1..Len(x)
    /\ \A X \in Readings : Len(X) \in Nat /\ Len(X) >= 1 /\ DOMAIN X = 1..Len(X)
<1>1. Cardinality(Policy) \in Nat
  BY AnalysisAssumption, FS_CardinalityType DEF AnalysisAssumption
<1>2. \A n \in 1..Cardinality(Policy) : n \in Nat /\ n >= 1
  BY <1>1
<1>3. ASSUME NEW T, NEW n \in Nat, NEW x \in [1..n -> T]
      PROVE  Len(x) = n /\ DOMAIN x = 1..n
  OBVIOUS
<1>4. \A x \in Lists : Len(x) \in Nat /\ Len(x) >= 1 /\ DOMAIN x = 1..Len(x)
  BY <1>2, <1>3 DEF Lists
<1>5. \A X \in Readings : Len(X) \in Nat /\ Len(X) >= 1 /\ DOMAIN X = 1..Len(X)
  BY <1>2, <1>3 DEF Readings
<1> QED
  BY <1>4, <1>5

(* The table of outcomes has what the engine computes.                     *)
LEMMA OutcomeIsComputed ==
    ASSUME NEW X \in Readings
    PROVE  /\ Outcome(X) \in Outcomes
           /\ Outcome(X).words = TfIdf(Docs(X))
           /\ Outcome(X).relations =
                 Cooccurrence(Docs(X), TopWords(AggregateWordTotals(TfIdf(Docs(X)))))
           /\ Outcome(X).report = ComparisonReport(Docs(X))
<1> DEFINE Entry(Y) ==
              [reading |-> Y,
               words |-> TfIdf(Docs(Y)),
               relations |-> Cooccurrence(Docs(Y), TopWords(AggregateWordTotals(TfIdf(Docs(Y))))),
               report |-> ComparisonReport(Docs(Y))]
<1>1. Outcomes = {Entry(Y) : Y \in Readings}
  BY DEF Outcomes
<1>2. /\ Entry(X).reading = X
      /\ Entry(X).words = TfIdf(Docs(X))
      /\ Entry(X).relations =
            Cooccurrence(Docs(X), TopWords(AggregateWordTotals(TfIdf(Docs(X)))))
      /\ Entry(X).report = ComparisonReport(Docs(X))
  OBVIOUS
<1>3. \A Y \in Readings : Entry(Y).reading = Y
  OBVIOUS
<1> HIDE DEF Entry
<1>4. \E o \in Outcomes : o.reading = X
  BY <1>1, <1>2
<1>5. Outcome(X) \in Outcomes /\ Outcome(X).reading = X
  BY <1>4 DEF Outcome
<1>6. Outcome(X) = Entry(X)
  BY <1>1, <1>3, <1>5
<1> QED
  BY <1>2, <1>5, <1>6

LEMMA Threads ==
    /\ Main \in Thread /\ Main \notin Task /\ Main \notin Request
    /\ Task \subseteq Thread /\ Request \subseteq Thread /\ Request \cap Task = {}
    /\ \A th \in Thread : th \in Task \/ th \in Request \/ th = Main
BY AnalysisAssumption DEF AnalysisAssumption, Thread

-----------------------------------------------------------------------------
(* The inductive invariant.                                                *)

LEMMA InitHolds == Init => IInv
<1> SUFFICES ASSUME Init PROVE IInv
  OBVIOUS
<1>1. /\ status \in [Task -> Status] /\ executor \in BOOLEAN /\ lock \in Thread \cup {Free}
      /\ pc \in [Thread -> Place] /\ adding \in [Thread -> Task \cup {None}]
      /\ texts \in [Policy -> Text]
  BY DEF Init, Status, Place
<1>2. TypeOK
  BY <1>1 DEF Init, TypeOK, Status, Place
<1>3. Shapes
  BY DEF Init, Shapes
<1>4. \A t \in Task : RowOK(t) /\ JobOK(t)
  BY Threads DEF Init, RowOK, JobOK
<1>5. DownIsIdle
  BY DEF Init, DownIsIdle
<1> QED
  BY <1>2, <1>3, <1>4, <1>5 DEF IInv

(* A step that leaves a task and its job alone leaves them sound.          *)
LEMMA OthersKept ==
    ASSUME NEW u \in Task, RowOK(u), JobOK(u),
           pc'[u] = pc[u], status'[u] = status[u], kind'[u] = kind[u], chosen'[u] = chosen[u],
           loaded'[u] = loaded[u], words'[u] = words[u], relations'[u] = relations[u],
           report'[u] = report[u]
    PROVE  RowOK(u)' /\ JobOK(u)'
<1>1. RowOK(u)'
  BY DEF RowOK
<1>2. JobOK(u)'
  BY DEF JobOK
<1> QED
  BY <1>1, <1>2

LEMMA Typed ==
    ASSUME IInv
    PROVE  /\ texts \in [Policy -> Text] /\ status \in [Task -> Status]
           /\ executor \in BOOLEAN /\ lock \in Thread \cup {Free}
           /\ pc \in [Thread -> Place] /\ adding \in [Thread -> Task \cup {None}]
BY DEF IInv, TypeOK, Status, Place

(* What a row keeps while its task is running or has ended.                *)
LEMMA RowKept ==
    ASSUME IInv, NEW t \in Task, status[t] # "absent"
    PROVE  /\ kind[t] \in {"word_frequency", "policy_comparison"}
           /\ chosen[t] \in Lists
           /\ kind[t] = "policy_comparison" => Len(chosen[t]) >= 2
BY DEF IInv, RowOK

LEMMA Assembled ==
    ASSUME texts' \in [Policy -> Text], status' \in [Task -> Status], executor' \in BOOLEAN,
           lock' \in Thread \cup {Free}, pc' \in [Thread -> Place],
           adding' \in [Thread -> Task \cup {None}],
           Shapes', \A t \in Task : RowOK(t)' /\ JobOK(t)', DownIsIdle'
    PROVE  IInv'
<1>1. \A t \in Task : status'[t] # "absent" =>
          kind'[t] \in {"word_frequency", "policy_comparison"}
  BY DEF RowOK
<1>2. TypeOK'
  BY <1>1 DEF TypeOK, Status, Place
<1> QED
  BY <1>2 DEF IInv

(* A step of the job of task t, and of no other thread.                    *)
LEMMA JobMoves ==
    ASSUME IInv, NEW t \in Task, NEW to \in Place, pc[t] # "idle",
           pc' = [pc EXCEPT ![t] = to], UNCHANGED <<texts, kind, chosen, worker>>,
           status' \in [Task -> Status], Shapes',
           \A u \in Task \ {t} :
               /\ status'[u] = status[u] /\ loaded'[u] = loaded[u] /\ words'[u] = words[u]
               /\ relations'[u] = relations[u] /\ report'[u] = report[u],
           status'[t] \notin {"absent", "pending"},
           JobOK(t)'
    PROVE  IInv'
<1>1. UNCHANGED <<executor, lock, adding>>
  BY DEF worker
<1>2. /\ pc' \in [Thread -> Place] /\ pc'[t] = to
      /\ \A th \in Thread \ {t} : pc'[th] = pc[th]
  BY Typed, Threads
<1>3. ASSUME NEW u \in Task \ {t}
      PROVE  RowOK(u)' /\ JobOK(u)'
  <2>1. RowOK(u) /\ JobOK(u)
    BY DEF IInv
  <2>2. pc'[u] = pc[u]
    BY <1>2, Threads
  <2> QED
    BY <2>1, <2>2, OthersKept
<1>4. RowOK(t)'
  <2>1. status[t] # "absent"
    BY DEF IInv, RowOK
  <2> QED
    BY <2>1, RowKept DEF RowOK
<1>5. DownIsIdle'
  <2>1. pc'[Main] = pc[Main]
    BY <1>2, Threads
  <2>2. pc[Main] # "down"
    BY Threads DEF IInv, DownIsIdle
  <2> QED
    BY <2>1, <2>2 DEF DownIsIdle
<1>6. \A u \in Task : RowOK(u)' /\ JobOK(u)'
  BY <1>3, <1>4
<1> QED
  BY <1>1, <1>2, <1>5, <1>6, Typed, Assembled

(* The job of task t goes on, and nothing else.                            *)
LEMMA OnlyMoves ==
    ASSUME IInv, NEW t \in Task, NEW to \in Place, pc[t] # "idle",
           pc' = [pc EXCEPT ![t] = to],
           UNCHANGED <<texts, rows, results, loaded, worker>>,
           \/ to = "load" /\ pc[t] = "queued"
           \/ to = "handler" /\ pc[t] \in {"load", "store", "relate", "finish"}
           \/ to \in {"wake", "discard", "ended"}
    PROVE  IInv'
<1>1. /\ UNCHANGED <<status, kind, chosen, words, relations, report>>
      /\ pc'[t] = to
  BY Typed, Threads DEF rows, results
<1>2. status' \in [Task -> Status] /\ Shapes'
  BY <1>1, Typed DEF IInv, Shapes
<1>3. status'[t] \notin {"absent", "pending"}
  BY <1>1 DEF IInv, RowOK
<1>4. JobOK(t)
  BY DEF IInv
<1>5. JobOK(t)'
  BY <1>1, <1>4 DEF JobOK
<1> QED
  BY <1>1, <1>2, <1>3, <1>5, JobMoves

(* A job starts, fails, waits for the lock in the end.                     *)
LEMMA MoveSteps ==
    ASSUME IInv, NEW t \in Task,
           StartJob(t) \/ StartFails(t) \/ RunFails(t) \/ HandlerFails(t) \/ Discard(t)
    PROVE  IInv'
<1>1. AfterJob(t) \in {"discard", "ended"}
  BY DEF AfterJob
<1>2. CASE StartJob(t)
  BY <1>2, OnlyMoves DEF StartJob, Taken, Place, Busy
<1>3. CASE StartFails(t)
  <2>1. /\ pc[t] = "queued" /\ pc' = [pc EXCEPT ![t] = AfterJob(t)]
        /\ UNCHANGED <<texts, rows, results, loaded, worker>>
    BY <1>3 DEF StartFails, Taken
  <2>2. AfterJob(t) \in Place
    BY <1>1 DEF Place, Busy
  <2> QED
    BY <1>1, <2>1, <2>2, OnlyMoves
<1>4. CASE RunFails(t)
  BY <1>4, OnlyMoves DEF RunFails, Place, Busy
<1>5. CASE HandlerFails(t)
  BY <1>5, OnlyMoves DEF HandlerFails, Place, Busy
<1>6. CASE Discard(t)
  BY <1>6, OnlyMoves DEF Discard, Place, Busy
<1> QED
  BY <1>2, <1>3, <1>4, <1>5, <1>6

LEMMA LoadStep ==
    ASSUME IInv, NEW t \in Task, Load(t)
    PROVE  IInv'
<1> DEFINE X == [i \in DOMAIN chosen[t] |-> texts[chosen[t][i]]]
<1>1. /\ pc[t] = "load" /\ loaded' = [loaded EXCEPT ![t] = X]
      /\ pc' = [pc EXCEPT ![t] = "store"]
      /\ UNCHANGED <<texts, status, kind, chosen, words, relations, report, worker>>
  BY DEF Load, rows, results
<1>2. status[t] = "running" /\ chosen[t] \in Lists
  <2>1. status[t] = "running"
    BY <1>1 DEF IInv, JobOK
  <2> QED
    BY <2>1, RowKept
<1>3. X \in Readings /\ DOMAIN X = DOMAIN chosen[t]
  <2>1. PICK n \in 1..Cardinality(Policy) : chosen[t] \in [1..n -> Policy]
    BY <1>2 DEF Lists
  <2>2. X \in [1..n -> Text]
    BY <2>1, Typed
  <2> QED
    BY <2>2 DEF Readings
<1> HIDE DEF X
<1>4. /\ pc'[t] = "store" /\ loaded'[t] = X
      /\ loaded' \in [Task -> Readings \cup {None}]
      /\ \A u \in Task \ {t} : loaded'[u] = loaded[u]
  BY <1>1, <1>3, Typed, Threads DEF IInv, Shapes
<1>5. Shapes'
  BY <1>1, <1>4 DEF IInv, Shapes
<1>6. JobOK(t)'
  BY <1>1, <1>2, <1>3, <1>4 DEF JobOK
<1>7. status' \in [Task -> Status] /\ status'[t] \notin {"absent", "pending"}
  BY <1>1, <1>2, Typed
<1>8. "store" \in Place
  BY DEF Place, Busy
<1> QED
  BY <1>1, <1>4, <1>5, <1>6, <1>7, <1>8, JobMoves

LEMMA StoreResultsStep ==
    ASSUME IInv, NEW t \in Task, StoreResults(t)
    PROVE  IInv'
<1> DEFINE w == Outcome(loaded[t]).words
<1>1. /\ pc[t] = "store" /\ kind[t] = "word_frequency" /\ words' = [words EXCEPT ![t] = w]
      /\ pc' = [pc EXCEPT ![t] = "relate"]
      /\ UNCHANGED <<texts, status, kind, chosen, relations, report, loaded, worker>>
  BY DEF StoreResults, rows
<1>2. status[t] = "running" /\ loaded[t] \in Readings /\ DOMAIN loaded[t] = DOMAIN chosen[t]
  BY <1>1 DEF IInv, JobOK
<1>3. w \in {o.words : o \in Outcomes}
  BY <1>2, OutcomeIsComputed
<1>4. /\ pc'[t] = "relate" /\ words'[t] = w
      /\ words' \in [Task -> {o.words : o \in Outcomes} \cup {None}]
      /\ \A u \in Task \ {t} : words'[u] = words[u]
  <2> HIDE DEF w
  <2> QED
    BY <1>1, <1>3, Typed, Threads DEF IInv, Shapes
<1>5. Shapes'
  BY <1>1, <1>4 DEF IInv, Shapes
<1>6. JobOK(t)'
  BY <1>1, <1>2, <1>4 DEF JobOK
<1>7. status' \in [Task -> Status] /\ status'[t] \notin {"absent", "pending"}
  BY <1>1, <1>2, Typed
<1>8. "relate" \in Place
  BY DEF Place, Busy
<1> HIDE DEF w
<1> QED
  BY <1>1, <1>4, <1>5, <1>6, <1>7, <1>8, JobMoves

LEMMA StoreRelationsStep ==
    ASSUME IInv, NEW t \in Task, StoreRelations(t)
    PROVE  IInv'
<1> DEFINE w == Outcome(loaded[t]).relations
<1>1. /\ pc[t] = "relate" /\ relations' = [relations EXCEPT ![t] = w]
      /\ pc' = [pc EXCEPT ![t] = "finish"]
      /\ UNCHANGED <<texts, status, kind, chosen, words, report, loaded, worker>>
  BY DEF StoreRelations, rows
<1>2. /\ status[t] = "running" /\ loaded[t] \in Readings /\ DOMAIN loaded[t] = DOMAIN chosen[t]
      /\ kind[t] = "word_frequency" /\ words[t] = Outcome(loaded[t]).words
  BY <1>1 DEF IInv, JobOK
<1>3. w \in {o.relations : o \in Outcomes}
  BY <1>2, OutcomeIsComputed
<1>4. /\ pc'[t] = "finish" /\ relations'[t] = w
      /\ relations' \in [Task -> {o.relations : o \in Outcomes} \cup {{}}]
      /\ \A u \in Task \ {t} : relations'[u] = relations[u]
  <2> HIDE DEF w
  <2> QED
    BY <1>1, <1>3, Typed, Threads DEF IInv, Shapes
<1>5. Shapes'
  BY <1>1, <1>4 DEF IInv, Shapes
<1>6. JobOK(t)'
  BY <1>1, <1>2, <1>4 DEF JobOK
<1>7. status' \in [Task -> Status] /\ status'[t] \notin {"absent", "pending"}
  BY <1>1, <1>2, Typed
<1>8. "finish" \in Place
  BY DEF Place, Busy
<1> HIDE DEF w
<1> QED
  BY <1>1, <1>4, <1>5, <1>6, <1>7, <1>8, JobMoves

LEMMA StoreReportStep ==
    ASSUME IInv, NEW t \in Task, StoreReport(t)
    PROVE  IInv'
<1> DEFINE w == Outcome(loaded[t]).report
<1>1. /\ pc[t] = "store" /\ kind[t] = "policy_comparison" /\ report' = [report EXCEPT ![t] = w]
      /\ pc' = [pc EXCEPT ![t] = "finish"]
      /\ UNCHANGED <<texts, status, kind, chosen, words, relations, loaded, worker>>
  BY DEF StoreReport, rows
<1>2. status[t] = "running" /\ loaded[t] \in Readings /\ DOMAIN loaded[t] = DOMAIN chosen[t]
  BY <1>1 DEF IInv, JobOK
<1>3. w \in {o.report : o \in Outcomes}
  BY <1>2, OutcomeIsComputed
<1>4. /\ pc'[t] = "finish" /\ report'[t] = w
      /\ report' \in [Task -> {o.report : o \in Outcomes} \cup {None}]
      /\ \A u \in Task \ {t} : report'[u] = report[u]
  <2> HIDE DEF w
  <2> QED
    BY <1>1, <1>3, Typed, Threads DEF IInv, Shapes
<1>5. Shapes'
  BY <1>1, <1>4 DEF IInv, Shapes
<1>6. JobOK(t)'
  BY <1>1, <1>2, <1>4 DEF JobOK
<1>7. status' \in [Task -> Status] /\ status'[t] \notin {"absent", "pending"}
  BY <1>1, <1>2, Typed
<1>8. "finish" \in Place
  BY DEF Place, Busy
<1> HIDE DEF w
<1> QED
  BY <1>1, <1>4, <1>5, <1>6, <1>7, <1>8, JobMoves

(* repository.finish, whether the run succeeded or failed.                 *)
LEMMA FinishStep ==
    ASSUME IInv, NEW t \in Task, NEW s \in {"succeeded", "failed"},
           pc[t] \in {"finish", "handler"}, FinishAs(t, s)
    PROVE  IInv' /\ status[t] = "running" /\ status' = [status EXCEPT ![t] = s]
<1>1. /\ status' = [status EXCEPT ![t] = IF status[t] = "running" THEN s ELSE status[t]]
      /\ pc' = [pc EXCEPT ![t] = "wake"]
      /\ UNCHANGED <<texts, kind, chosen, words, relations, report, loaded, worker>>
  BY DEF FinishAs, results
<1>2. status[t] = "running"
  BY DEF IInv, JobOK
<1>3. status' = [status EXCEPT ![t] = s]
  BY <1>1, <1>2
<1>4. /\ pc'[t] = "wake" /\ status'[t] = s
      /\ status' \in [Task -> Status]
      /\ \A u \in Task \ {t} : status'[u] = status[u]
  BY <1>1, <1>3, Typed, Threads DEF Status
<1>5. Shapes'
  BY <1>1 DEF IInv, Shapes
<1>6. JobOK(t)'
  BY <1>4 DEF JobOK
<1>7. "wake" \in Place
  BY DEF Place, Busy
<1>8. IInv'
  BY <1>1, <1>4, <1>5, <1>6, <1>7, JobMoves
<1> QED
  BY <1>2, <1>3, <1>8

-----------------------------------------------------------------------------
(* Requests, the worker and the lifespan.                                  *)

LEMMA CreateStep ==
    ASSUME IInv, NEW th \in Request, NEW t \in Task,
           NEW k \in {"word_frequency", "policy_comparison"}, NEW ids \in Selection,
           Create(th, t, k, ids)
    PROVE  IInv' /\ status[t] = "absent"
<1>1. /\ pc[Main] = "serving" /\ status[t] = "absent"
      /\ k = "policy_comparison" => Len(Unique(ids)) >= 2
      /\ status' = [status EXCEPT ![t] = "pending"] /\ kind' = [kind EXCEPT ![t] = k]
      /\ chosen' = [chosen EXCEPT ![t] = Unique(ids)] /\ pc' = [pc EXCEPT ![th] = "wake"]
      /\ UNCHANGED <<texts, words, relations, report, loaded, executor, lock, adding>>
  BY DEF Create, Serving, IsNextId, results, worker
<1>2. Unique(ids) \in Lists
  BY UniqueIsList
<1>3. /\ pc' \in [Thread -> Place] /\ \A x \in Thread \ {th} : pc'[x] = pc[x]
  BY <1>1, Typed DEF Place, Busy
<1>4. /\ \A u \in Task : pc'[u] = pc[u]
      /\ pc'[Main] = "serving"
  BY <1>1, <1>3, Threads
<1>5. /\ status' \in [Task -> Status] /\ status'[t] = "pending"
      /\ \A u \in Task \ {t} : status'[u] = status[u]
  BY <1>1, Typed DEF Status
<1>6. /\ kind' \in [Task -> {"word_frequency", "policy_comparison", None}] /\ kind'[t] = k
      /\ chosen' \in [Task -> Lists \cup {<<>>}] /\ chosen'[t] = Unique(ids)
      /\ \A u \in Task \ {t} : kind'[u] = kind[u] /\ chosen'[u] = chosen[u]
  BY <1>1, <1>2 DEF IInv, Shapes
<1>7. Shapes'
  BY <1>1, <1>6 DEF IInv, Shapes
<1>8. pc[t] = "idle" /\ loaded[t] = None
  BY <1>1 DEF IInv, RowOK
<1>9. RowOK(t)' /\ JobOK(t)'
  BY <1>1, <1>2, <1>4, <1>5, <1>6, <1>8 DEF RowOK, JobOK
<1>10. ASSUME NEW u \in Task \ {t}
       PROVE  RowOK(u)' /\ JobOK(u)'
  <2>1. RowOK(u) /\ JobOK(u)
    BY DEF IInv
  <2> QED
    BY <1>1, <1>4, <1>5, <1>6, <2>1, OthersKept
<1>11. DownIsIdle'
  BY <1>4 DEF DownIsIdle
<1>12. IInv'
  BY <1>1, <1>3, <1>5, <1>7, <1>9, <1>10, <1>11, Typed, Assembled
<1> QED
  BY <1>1, <1>12

LEMMA ClaimStep ==
    ASSUME IInv, NEW th \in Thread, NEW t \in Task, Claim(th, t)
    PROVE  IInv'
<1>1. /\ pc[th] = "wake" /\ status[t] = "pending" /\ executor
      /\ status' = [status EXCEPT ![t] = "running"] /\ lock' = th
      /\ adding' = [adding EXCEPT ![th] = t]
      /\ pc' = [pc EXCEPT ![th] = "register", ![t] = "queued"]
      /\ UNCHANGED <<texts, kind, chosen, words, relations, report, loaded, executor>>
  BY DEF Claim, Pending, results
<1>2. pc[t] = "idle" /\ loaded[t] = None /\ RowOK(t)
  BY <1>1 DEF IInv, RowOK
<1>3. /\ pc' \in [Thread -> Place] /\ pc'[t] = "queued" /\ pc'[th] = "register"
      /\ \A x \in Thread \ {t, th} : pc'[x] = pc[x]
  BY <1>1, <1>2, Typed, Threads DEF Place, Busy
<1>4. /\ status' \in [Task -> Status] /\ status'[t] = "running"
      /\ \A u \in Task \ {t} : status'[u] = status[u]
  BY <1>1, Typed DEF Status
<1>5. lock' \in Thread \cup {Free} /\ adding' \in [Thread -> Task \cup {None}]
  BY <1>1, Typed
<1>6. Shapes'
  BY <1>1 DEF IInv, Shapes
<1>7. RowOK(t)' /\ JobOK(t)'
  BY <1>1, <1>2, <1>3, <1>4 DEF RowOK, JobOK
<1>8. ASSUME NEW u \in Task \ {t}
      PROVE  RowOK(u)' /\ JobOK(u)'
  <2>1. RowOK(u) /\ JobOK(u)
    BY DEF IInv
  <2>2. CASE u = th
    <3>1. pc[u] = "wake" /\ pc'[u] = "register"
      BY <1>1, <1>3, <2>2
    <3> QED
      BY <1>1, <1>4, <2>1, <3>1 DEF RowOK, JobOK
  <2>3. CASE u # th
    <3>1. pc'[u] = pc[u]
      BY <1>3, <2>3, Threads
    <3> QED
      BY <1>1, <1>4, <2>1, <3>1, OthersKept
  <2> QED
    BY <2>2, <2>3
<1>9. DownIsIdle'
  <2>1. pc[Main] # "down"
    BY <1>1, Threads DEF IInv, DownIsIdle
  <2>2. pc'[Main] # "down"
    BY <1>3, <2>1, Threads
  <2> QED
    BY <2>2 DEF DownIsIdle
<1> QED
  BY <1>1, <1>3, <1>4, <1>5, <1>6, <1>7, <1>8, <1>9, Typed, Assembled

(* A thread leaves submit_next, or is stuck in it.                         *)
LEMMA SubmitEnds ==
    ASSUME IInv, NEW th \in Thread, pc[th] \in {"wake", "register"},
           NEW to \in {"stuck", After(th)}, pc' = [pc EXCEPT ![th] = to],
           UNCHANGED <<texts, rows, results, loaded, executor>>,
           lock' \in Thread \cup {Free}, adding' \in [Thread -> Task \cup {None}]
    PROVE  IInv'
<1>1. UNCHANGED <<status, kind, chosen, words, relations, report>>
  BY DEF rows, results
<1>2. /\ th = Main => to \in {"stuck", "serving"}
      /\ th \in Request => to \in {"stuck", "idle"}
      /\ th \in Task => to \in {"stuck", "discard", "ended"}
  BY Threads DEF After, AfterJob
<1>3. to \in Place /\ to # "down"
  BY <1>2, Threads DEF Place, Busy
<1>4. /\ pc' \in [Thread -> Place] /\ pc'[th] = to
      /\ \A x \in Thread \ {th} : pc'[x] = pc[x]
  BY <1>3, Typed
<1>5. Shapes'
  BY <1>1 DEF IInv, Shapes
<1>6. ASSUME NEW u \in Task
      PROVE  RowOK(u)' /\ JobOK(u)'
  <2>1. RowOK(u) /\ JobOK(u)
    BY DEF IInv
  <2>2. CASE u = th
    <3>1. pc[u] \in {"wake", "register"} /\ pc'[u] \in {"stuck", "discard", "ended"}
      BY <1>2, <1>4, <2>2
    <3> QED
      BY <1>1, <2>1, <3>1 DEF RowOK, JobOK
  <2>3. CASE u # th
    <3>1. pc'[u] = pc[u]
      BY <1>4, <2>3, Threads
    <3> QED
      BY <1>1, <2>1, <3>1, OthersKept
  <2> QED
    BY <2>2, <2>3
<1>7. DownIsIdle'
  <2>1. pc[Main] # "down"
    BY Threads DEF IInv, DownIsIdle
  <2>2. pc'[Main] # "down"
    BY <1>3, <1>4, <2>1, Threads
  <2> QED
    BY <2>2 DEF DownIsIdle
<1> QED
  BY <1>1, <1>4, <1>5, <1>6, <1>7, Typed, Assembled

LEMMA SubmitSteps ==
    ASSUME IInv, NEW th \in Thread, NothingToClaim(th) \/ Register(th)
    PROVE  IInv'
<1>1. CASE NothingToClaim(th)
  <2>1. /\ pc[th] = "wake" /\ pc' = [pc EXCEPT ![th] = After(th)]
        /\ UNCHANGED <<texts, rows, results, loaded, executor, lock, adding>>
    BY <1>1 DEF NothingToClaim, worker
  <2> QED
    BY <2>1, Typed, SubmitEnds
<1>2. CASE Register(th)
  <2>1. /\ pc[th] = "register" /\ adding' = [adding EXCEPT ![th] = None]
        /\ UNCHANGED <<texts, rows, results, loaded, executor>>
        /\ \/ pc' = [pc EXCEPT ![th] = "stuck"] /\ lock' = lock
           \/ pc' = [pc EXCEPT ![th] = After(th)] /\ lock' = Free
    BY <1>2 DEF Register
  <2>2. adding' \in [Thread -> Task \cup {None}] /\ lock' \in Thread \cup {Free}
    BY <2>1, Typed
  <2> QED
    BY <2>1, <2>2, SubmitEnds
<1> QED
  BY <1>1, <1>2

(* A claim that fails lets its thread go on, or gives the start-up up.     *)
LEMMA ClaimFailsStep ==
    ASSUME IInv, NEW th \in Thread, ClaimFails(th)
    PROVE  IInv'
<1>1. /\ pc[th] = "wake" /\ pc' = [pc EXCEPT ![th] = IF th = Main THEN "draining" ELSE After(th)]
      /\ executor /\ executor' = (th # Main)
      /\ UNCHANGED <<texts, rows, results, loaded, lock, adding>>
  BY DEF ClaimFails
<1>2. executor' \in BOOLEAN
  BY <1>1
<1>3. CASE th # Main
  <2>1. pc' = [pc EXCEPT ![th] = After(th)] /\ pc[th] \in {"wake", "register"}
    BY <1>1, <1>3
  <2>2. UNCHANGED <<texts, rows, results, loaded, executor>>
    BY <1>1, <1>3, Typed
  <2>3. lock' \in Thread \cup {Free} /\ adding' \in [Thread -> Task \cup {None}]
    BY <1>1, Typed
  <2> QED
    BY <2>1, <2>2, <2>3, SubmitEnds
<1>4. CASE th = Main
  <2>1. /\ pc' = [pc EXCEPT ![Main] = "draining"]
        /\ UNCHANGED <<status, kind, chosen, words, relations, report>>
    BY <1>1, <1>4 DEF rows, results
  <2>2. /\ pc' \in [Thread -> Place] /\ pc'[Main] = "draining"
        /\ \A u \in Task : pc'[u] = pc[u]
    BY <2>1, Typed, Threads DEF Place
  <2>3. \A u \in Task : RowOK(u)' /\ JobOK(u)'
    BY <1>1, <2>1, <2>2, OthersKept DEF IInv
  <2>4. DownIsIdle' /\ Shapes'
    BY <1>1, <2>1, <2>2 DEF DownIsIdle, IInv, Shapes
  <2>5. lock' \in Thread \cup {Free} /\ adding' \in [Thread -> Task \cup {None}]
    BY <1>1, Typed
  <2> QED
    BY <1>1, <1>2, <2>1, <2>2, <2>3, <2>4, <2>5, Typed, Assembled
<1> QED
  BY <1>3, <1>4

LEMMA RewriteStep ==
    ASSUME IInv, NEW p \in Policy, NEW x \in Text, Rewrite(p, x)
    PROVE  IInv'
<1>1. /\ texts' = [texts EXCEPT ![p] = x]
      /\ UNCHANGED <<status, kind, chosen, words, relations, report, loaded, executor, lock,
                     adding, pc>>
  BY DEF Rewrite, rows, results, worker
<1>2. texts' \in [Policy -> Text]
  BY <1>1, Typed
<1>3. Shapes' /\ DownIsIdle'
  BY <1>1 DEF IInv, Shapes, DownIsIdle
<1>4. \A u \in Task : RowOK(u)' /\ JobOK(u)'
  BY <1>1, OthersKept DEF IInv
<1> QED
  BY <1>1, <1>2, <1>3, <1>4, Typed, Assembled

(* The main thread goes up or down; the tasks that were interrupted fail.  *)
LEMMA LifespanSteps ==
    ASSUME IInv, Boot \/ Shutdown \/ Exit \/ Crash
    PROVE  IInv'
<1>1. UNCHANGED <<texts, kind, chosen, words, relations, report, loaded>>
  BY DEF Boot, Shutdown, Exit, Crash, rows, results
<1>2. executor' \in BOOLEAN /\ lock' \in Thread \cup {Free}
      /\ adding' \in [Thread -> Task \cup {None}]
  BY Typed DEF Boot, Shutdown, Exit, Crash, worker
<1>3. Shapes'
  BY <1>1 DEF IInv, Shapes
<1>4. CASE Boot
  <2>1. /\ pc[Main] = "down" /\ pc' = [pc EXCEPT ![Main] = "wake"]
        /\ status' = [t \in Task |-> IF status[t] = "running" THEN "failed" ELSE status[t]]
    BY <1>4 DEF Boot
  <2>2. /\ pc' \in [Thread -> Place] /\ pc'[Main] = "wake"
        /\ \A u \in Task : pc'[u] = "idle" /\ pc[u] = "idle"
    BY <2>1, Typed, Threads DEF IInv, DownIsIdle, Place, Busy
  <2>3. status' \in [Task -> Status]
    BY <2>1, Typed DEF Status
  <2>4. ASSUME NEW u \in Task
        PROVE  RowOK(u)' /\ JobOK(u)'
    <3>1. RowOK(u)
      BY DEF IInv
    <3>2. /\ status'[u] = "absent" <=> status[u] = "absent"
          /\ status'[u] \in {"absent", "pending"} <=> status[u] \in {"absent", "pending"}
      BY <2>1
    <3> QED
      BY <1>1, <2>2, <3>1, <3>2 DEF RowOK, JobOK
  <2>5. DownIsIdle'
    BY <2>2 DEF DownIsIdle
  <2> QED
    BY <1>1, <1>2, <1>3, <2>2, <2>3, <2>4, <2>5, Typed, Assembled
<1>5. CASE Shutdown
  <2>1. /\ pc' = [pc EXCEPT ![Main] = "draining"] /\ status' = status
    BY <1>5 DEF Shutdown, rows
  <2>2. /\ pc' \in [Thread -> Place] /\ pc'[Main] = "draining"
        /\ \A u \in Task : pc'[u] = pc[u]
    BY <2>1, Typed, Threads DEF Place
  <2>3. \A u \in Task : RowOK(u)' /\ JobOK(u)'
    BY <1>1, <2>1, <2>2, OthersKept DEF IInv
  <2>4. DownIsIdle'
    BY <2>2 DEF DownIsIdle
  <2> QED
    BY <1>1, <1>2, <1>3, <2>1, <2>2, <2>3, <2>4, Typed, Assembled
<1>6. CASE Exit \/ Crash
  <2>1. pc' = Stop /\ status' = status
    BY <1>6 DEF Exit, Crash, rows
  <2>2. /\ pc' \in [Thread -> Place] /\ \A th \in Thread \ {Main} : pc'[th] = "idle"
    BY <2>1 DEF Stop, Place
  <2>3. ASSUME NEW u \in Task
        PROVE  RowOK(u)' /\ JobOK(u)'
    <3>1. RowOK(u) /\ pc'[u] = "idle"
      BY <2>2, Threads DEF IInv
    <3> QED
      BY <1>1, <2>1, <3>1 DEF RowOK, JobOK
  <2>4. DownIsIdle'
    BY <2>2 DEF DownIsIdle
  <2> QED
    BY <1>1, <1>2, <1>3, <2>1, <2>2, <2>3, <2>4, Typed, Assembled
<1> QED
  BY <1>4, <1>5, <1>6

LEMMA StepHolds == IInv /\ [Next]_vars => IInv'
<1> SUFFICES ASSUME IInv, [Next]_vars PROVE IInv'
  OBVIOUS
<1>1. CASE UNCHANGED vars
  <2>1. UNCHANGED <<texts, status, kind, chosen, words, relations, report, loaded, executor,
                    lock, adding, pc>>
    BY <1>1 DEF vars, rows, results, worker
  <2>2. Shapes' /\ DownIsIdle'
    BY <2>1 DEF IInv, Shapes, DownIsIdle
  <2>3. \A u \in Task : RowOK(u)' /\ JobOK(u)'
    BY <2>1, OthersKept DEF IInv
  <2> QED
    BY <2>1, <2>2, <2>3, Typed, Assembled
<1>2. CASE \E th \in Request, t \in Task, ids \in Selection :
              \/ Create(th, t, "word_frequency", ids)
              \/ Create(th, t, "policy_comparison", ids)
  BY <1>2, CreateStep
<1>3. CASE \E p \in Policy, x \in Text : Rewrite(p, x)
  BY <1>3, RewriteStep
<1>4. CASE \E th \in Thread : SubmitNext(th) \/ ClaimFails(th)
  BY <1>4, ClaimStep, SubmitSteps, ClaimFailsStep DEF SubmitNext
<1>5. ASSUME NEW t \in Task, Job(t)
      PROVE  IInv'
  <2>1. CASE FinishSucceeded(t)
    BY <2>1, FinishStep DEF FinishSucceeded
  <2>2. CASE FinishFailed(t)
    BY <2>2, FinishStep DEF FinishFailed
  <2> QED
    BY <1>5, <2>1, <2>2, MoveSteps, LoadStep, StoreResultsStep, StoreRelationsStep,
       StoreReportStep DEF Job
<1>6. ASSUME NEW t \in Task, Failure(t)
      PROVE  IInv'
  BY <1>6, MoveSteps DEF Failure
<1>7. CASE Boot \/ Shutdown \/ Exit \/ Crash
  BY <1>7, LifespanSteps
<1> QED
  BY <1>1, <1>2, <1>3, <1>4, <1>5, <1>6, <1>7 DEF Next

LEMMA Invariance == Spec => []IInv
BY InitHolds, StepHolds, PTL DEF Spec

(* Every variable of the analysis tasks keeps its type.                    *)
THEOREM TypesHold == Spec => []TypeOK
<1>1. IInv => TypeOK
  BY DEF IInv
<1> QED
  BY <1>1, Invariance, PTL

-----------------------------------------------------------------------------
(* The engine: what is counted in texts, and in what order.                *)

(* The promise counts as the rest does.                                    *)
LEMMA SameSize == \A S : Promise!Cardinality(S) = Cardinality(S)
BY DEF Promise!Cardinality, Cardinality

(* Where the word w is in the text x.                                      *)
At(x, w) == {i \in DOMAIN x : x[i] = w}

(* Texts that are analyzed together.                                       *)
Collections == Seq(Seq(Nat))

(* Where the words of a text are.                                          *)
LEMMA TextIs ==
    ASSUME NEW x \in Seq(Nat)
    PROVE  /\ DOMAIN x \subseteq Nat /\ IsFiniteSet(DOMAIN x)
           /\ Promise!Words(x) \subseteq Nat /\ IsFiniteSet(Promise!Words(x))
           /\ \A w : /\ IsFiniteSet(At(x, w)) /\ At(x, w) \subseteq Nat
                     /\ Promise!Times(x, w) = Cardinality(At(x, w))
                     /\ Cardinality(At(x, w)) \in Nat
           /\ \A w : w \in Promise!Words(x) <=> w \notin Dropped /\ At(x, w) # {}
<1>1. DOMAIN x = 1..Len(x) /\ Len(x) \in Nat /\ \A i \in DOMAIN x : x[i] \in Nat
  OBVIOUS
<1>2. IsFiniteSet(DOMAIN x)
  BY <1>1, FS_Interval
<1>3. IsFiniteSet({x[i] : i \in DOMAIN x})
  <2>1. [i \in DOMAIN x |-> x[i]] \in Surjection(DOMAIN x, {x[i] : i \in DOMAIN x})
    BY DEF Surjection
  <2> QED
    BY <1>2, <2>1, FS_Surjection
<1>4. IsFiniteSet(Promise!Words(x))
  <2>1. Promise!Words(x) \subseteq {x[i] : i \in DOMAIN x}
    BY DEF Promise!Words
  <2> QED
    BY <1>3, <2>1, FS_Subset
<1>5. ASSUME NEW w
      PROVE  /\ IsFiniteSet(At(x, w)) /\ At(x, w) \subseteq Nat
             /\ Promise!Times(x, w) = Cardinality(At(x, w))
             /\ Cardinality(At(x, w)) \in Nat
  <2>1. At(x, w) \subseteq DOMAIN x
    BY DEF At
  <2>2. IsFiniteSet(At(x, w))
    BY <2>1, <1>2, FS_Subset
  <2> QED
    BY <2>1, <2>2, <1>1, FS_CardinalityType, SameSize DEF At, Promise!Times
<1>6. \A w : w \in Promise!Words(x) <=> w \notin Dropped /\ At(x, w) # {}
  BY DEF At, Promise!Words
<1> QED
  BY <1>1, <1>2, <1>4, <1>5, <1>6 DEF Promise!Words

(* A document has the words of its text, where they are.                   *)
LEMMA DocumentIs ==
    ASSUME NEW x \in Seq(Nat)
    PROVE  /\ Range(Analyze(x)) = Promise!Words(x)
           /\ \A w \in Promise!Words(x) :
                {i \in DOMAIN Analyze(x) : Analyze(x)[i] = w} = At(x, w)
BY DEF Analyze, Restrict, Range, Promise!Words, At

(* Its counter has the number of their places, and which is first.         *)
LEMMA CounterIs ==
    ASSUME NEW x \in Seq(Nat)
    PROVE  /\ DOMAIN CounterOf(Analyze(x)).count = Promise!Words(x)
           /\ \A w \in Promise!Words(x) : CounterOf(Analyze(x)).count[w] = Cardinality(At(x, w))
           /\ CounterOf(Analyze(x)).before =
                {vw \in Promise!Words(x) \X Promise!Words(x) :
                   \E i \in At(x, vw[1]) : \A j \in At(x, vw[2]) : i < j}
<1> DEFINE d == Analyze(x)
           W == Promise!Words(x)
<1>1. Range(d) = W /\ \A w \in W : {i \in DOMAIN d : d[i] = w} = At(x, w)
  BY DocumentIs
<1> HIDE DEF d, W
<1>2. CounterOf(d).count = [w \in W |-> Cardinality(At(x, w))]
  BY <1>1 DEF CounterOf
<1>3. CounterOf(d).before = {vw \in W \X W :
                   \E i \in At(x, vw[1]) : \A j \in At(x, vw[2]) : i < j}
  <2>1. CounterOf(d).before = {vw \in W \X W : \E i \in DOMAIN d :
            d[i] = vw[1] /\ \A j \in DOMAIN d : d[j] = vw[2] => i < j}
    BY <1>1 DEF CounterOf
  <2>2. ASSUME NEW vw \in W \X W
        PROVE  (\E i \in DOMAIN d : d[i] = vw[1] /\ \A j \in DOMAIN d : d[j] = vw[2] => i < j)
               <=> \E i \in At(x, vw[1]) : \A j \in At(x, vw[2]) : i < j
    <3>1. vw[1] \in W /\ vw[2] \in W
      OBVIOUS
    <3>2. /\ \A i : i \in At(x, vw[1]) <=> i \in DOMAIN d /\ d[i] = vw[1]
          /\ \A j : j \in At(x, vw[2]) <=> j \in DOMAIN d /\ d[j] = vw[2]
      BY <3>1, <1>1
    <3> QED
      BY <3>2, Zenon
  <2> QED
    BY <2>1, <2>2
<1> QED
  BY <1>2, <1>3 DEF d, W

(* What is found where, in a collection of texts.                          *)
LEMMA PlacesAre ==
    ASSUME NEW X \in Collections, NEW w
    PROVE  /\ Promise!Places(X, w) = UNION {{d} \X At(X[d], w) : d \in DOMAIN X}
           /\ \A a : a \in Promise!Places(X, w) <=>
                \E d \in DOMAIN X : \E i \in At(X[d], w) : a = <<d, i>>
           /\ Promise!Places(X, w) \subseteq Nat \X Nat
           /\ \A a \in Promise!Places(X, w) : a[1] \in DOMAIN X /\ a[2] \in DOMAIN X[a[1]] /\ X[a[1]][a[2]] = w
<1>1. DOMAIN X \subseteq Nat /\ \A d \in DOMAIN X : X[d] \in Seq(Nat)
  BY DEF Collections
<1>2. ASSUME NEW a
      PROVE  a \in Promise!Places(X, w) <=> \E d \in DOMAIN X : \E i \in At(X[d], w) : a = <<d, i>>
  BY DEF Promise!Places, At
<1>3. Promise!Places(X, w) = UNION {{d} \X At(X[d], w) : d \in DOMAIN X}
  <2>1. \A a : a \in UNION {{d} \X At(X[d], w) : d \in DOMAIN X}
                 <=> \E d \in DOMAIN X : \E i \in At(X[d], w) : a = <<d, i>>
    OBVIOUS
  <2> QED
    BY <2>1, <1>2
<1>4. ASSUME NEW a \in Promise!Places(X, w)
      PROVE  a \in Nat \X Nat /\ a[1] \in DOMAIN X /\ a[2] \in DOMAIN X[a[1]] /\ X[a[1]][a[2]] = w
  <2>1. PICK d \in DOMAIN X : \E i \in At(X[d], w) : a = <<d, i>>
    BY <1>2
  <2>2. PICK i \in At(X[d], w) : a = <<d, i>>
    BY <2>1
  <2>3. i \in Nat /\ d \in Nat
    BY <1>1, TextIs
  <2> QED
    BY <2>2, <2>3 DEF At
<1> QED
  BY <1>2, <1>3, <1>4

(* Places are in the order of texts, and within a text in its order.       *)
LEMMA FirstPlace ==
    ASSUME NEW P, P \subseteq Nat \X Nat, P # {}
    PROVE  \E a \in P : \A b \in P : a = b \/ Promise!Precedes(a, b)
<1>1. \A a \in P : a[1] \in Nat /\ a[2] \in Nat /\ a = <<a[1], a[2]>>
  OBVIOUS
<1> DEFINE D == {a[1] : a \in P}
<1>2. PICK d \in D : \A e \in D : d <= e
  <2>1. D \subseteq Nat /\ D # {}
    BY <1>1
  <2> HIDE DEF D
  <2> QED
    BY <2>1, LeastExists
<1> DEFINE I == {a[2] : a \in {b \in P : b[1] = d}}
<1>3. PICK i \in I : \A j \in I : i <= j
  <2>1. I \subseteq Nat /\ I # {}
    BY <1>1
  <2> HIDE DEF I
  <2> QED
    BY <2>1, LeastExists
<1>4. PICK a \in P : a[1] = d /\ a[2] = i
  OBVIOUS
<1>5. ASSUME NEW b \in P, a # b
      PROVE  Promise!Precedes(a, b)
  <2>1. d <= b[1] /\ (b[1] = d => i <= b[2])
    BY <1>2, <1>3
  <2>2. b[1] # a[1] \/ b[2] # a[2]
    BY <1>1, <1>5
  <2> QED
    BY <2>1, <2>2, <1>1, <1>4 DEF Promise!Precedes
<1> QED
  BY <1>5

(* The words of a collection are in the order of their first places.       *)
LEMMA AppearanceOrders ==
    ASSUME NEW X \in Collections, NEW S, \A w \in S : Promise!Places(X, w) # {}
    PROVE  StrictOrder(S, {vw \in S \X S : Promise!AppearsBefore(X, vw[1], vw[2])})
<1> DEFINE P(w) == Promise!Places(X, w)
           O == {vw \in S \X S : Promise!AppearsBefore(X, vw[1], vw[2])}
<1>1. \A w \in S : P(w) \subseteq Nat \X Nat /\ P(w) # {}
  BY PlacesAre
<1>2. \A v, w \in S : v # w => P(v) \cap P(w) = {}
  BY PlacesAre
<1> HIDE DEF P
<1>3. \A v, w \in S : <<v, w>> \in O <=> \E a \in P(v) : \A b \in P(w) : Promise!Precedes(a, b)
  BY DEF P, Promise!AppearsBefore
<1>4. \A a, b, c \in Nat \X Nat : Promise!Precedes(a, b) /\ Promise!Precedes(b, c) => Promise!Precedes(a, c)
  BY DEF Promise!Precedes
<1>5. \A a \in Nat \X Nat : ~Promise!Precedes(a, a)
  BY DEF Promise!Precedes
<1>6. \A a, b \in Nat \X Nat : a = b \/ Promise!Precedes(a, b) \/ Promise!Precedes(b, a)
  <2> SUFFICES ASSUME NEW a \in Nat \X Nat, NEW b \in Nat \X Nat, a # b
               PROVE  Promise!Precedes(a, b) \/ Promise!Precedes(b, a)
    OBVIOUS
  <2>1. a[1] \in Nat /\ a[2] \in Nat /\ b[1] \in Nat /\ b[2] \in Nat /\ (a[1] # b[1] \/ a[2] # b[2])
    OBVIOUS
  <2> QED
    BY <2>1 DEF Promise!Precedes
<1> HIDE DEF O
<1>7. \A w \in S : <<w, w>> \notin O
  BY <1>1, <1>3, <1>5
<1>8. ASSUME NEW u \in S, NEW v \in S, NEW w \in S, <<u, v>> \in O, <<v, w>> \in O
      PROVE  <<u, w>> \in O
  <2>1. PICK a \in P(u) : \A b \in P(v) : Promise!Precedes(a, b)
    BY <1>8, <1>3
  <2>2. PICK b \in P(v) : \A c \in P(w) : Promise!Precedes(b, c)
    BY <1>8, <1>3
  <2>3. \A c \in P(w) : Promise!Precedes(a, c)
    BY <2>1, <2>2, <1>1, <1>4
  <2> QED
    BY <2>3, <1>3
<1>9. ASSUME NEW v \in S, NEW w \in S, v # w
      PROVE  <<v, w>> \in O \/ <<w, v>> \in O
  <2>1. PICK a \in P(v) : \A b \in P(v) : a = b \/ Promise!Precedes(a, b)
    BY <1>1, FirstPlace
  <2>2. PICK c \in P(w) : \A b \in P(w) : c = b \/ Promise!Precedes(c, b)
    BY <1>1, FirstPlace
  <2>3. a # c /\ a \in Nat \X Nat /\ c \in Nat \X Nat
    BY <1>1, <1>2, <1>9
  <2>4. CASE Promise!Precedes(a, c)
    <3>1. \A b \in P(w) : Promise!Precedes(a, b)
      BY <2>2, <2>3, <2>4, <1>1, <1>4
    <3> QED
      BY <3>1, <1>3
  <2>5. CASE Promise!Precedes(c, a)
    <3>1. \A b \in P(v) : Promise!Precedes(c, b)
      BY <2>1, <2>3, <2>5, <1>1, <1>4
    <3> QED
      BY <3>1, <1>3
  <2> QED
    BY <2>3, <2>4, <2>5, <1>6
<1>10. StrictOrder(S, O)
  BY <1>7, <1>8, <1>9 DEF StrictOrder
<1> QED
  BY <1>10 DEF O

(* Scores order a set, if something orders those with equal scores.        *)
LEMMA ScoreOrders ==
    ASSUME NEW S, NEW before, StrictOrder(S, before), NEW score, \A w \in S : score[w] \in Nat
    PROVE  /\ StrictOrder(S, ByScore(S, score, before))
           /\ \A v, w \in S : <<v, w>> \in ByScore(S, score, before) <=>
                score[v] > score[w] \/ (score[v] = score[w] /\ <<v, w>> \in before)
<1>1. \A v, w \in S : <<v, w>> \in ByScore(S, score, before) <=>
                score[v] > score[w] \/ (score[v] = score[w] /\ <<v, w>> \in before)
  BY DEF ByScore
<1> DEFINE O == ByScore(S, score, before)
<1> HIDE DEF O
<1>2. \A v, w \in S : <<v, w>> \in O <=>
                score[v] > score[w] \/ (score[v] = score[w] /\ <<v, w>> \in before)
  BY <1>1 DEF O
<1>3. ASSUME NEW w \in S
      PROVE  <<w, w>> \notin O
  <2>1. score[w] \in Nat /\ <<w, w>> \notin before
    BY DEF StrictOrder
  <2> QED
    BY <2>1, <1>2
<1>4. ASSUME NEW v \in S, NEW w \in S, v # w
      PROVE  <<v, w>> \in O \/ <<w, v>> \in O
  <2>1. score[v] \in Nat /\ score[w] \in Nat /\ (<<v, w>> \in before \/ <<w, v>> \in before)
    BY <1>4 DEF StrictOrder
  <2> QED
    BY <2>1, <1>2
<1>5. \A u, v, w \in S : <<u, v>> \in O /\ <<v, w>> \in O => <<u, w>> \in O
  BY <1>2 DEF StrictOrder
<1> QED
  BY <1>1, <1>3, <1>4, <1>5 DEF StrictOrder, O

(* A counter counts all that is left of a text.                            *)
LEMMA LengthIs ==
    ASSUME NEW x \in Seq(Nat)
    PROVE  SumFunction(CounterOf(Analyze(x)).count) = Cardinality({i \in DOMAIN x : x[i] \notin Dropped})
<1> DEFINE W == Promise!Words(x)
           A == [w \in W |-> At(x, w)]
           f == CounterOf(Analyze(x)).count
<1>1. IsFiniteSet(W) /\ \A w \in W : IsFiniteSet(A[w])
  BY TextIs
<1>2. \A v, w \in W : v # w => A[v] \cap A[w] = {}
  BY DEF At
<1>3. f = [w \in W |-> Cardinality(A[w])]
  <2>1. DOMAIN f = W /\ \A w \in W : f[w] = Cardinality(At(x, w))
    BY CounterIs
  <2>2. f = [w \in DOMAIN f |-> f[w]]
    BY DEF CounterOf
  <2> HIDE DEF f
  <2> QED
    BY <2>1, <2>2
<1>4. UNION {A[w] : w \in W} = {i \in DOMAIN x : x[i] \notin Dropped}
  <2>1. \A i : i \in UNION {A[w] : w \in W} <=> \E w \in W : i \in At(x, w)
    OBVIOUS
  <2>2. \A i : (\E w \in W : i \in At(x, w)) <=> i \in DOMAIN x /\ x[i] \in W
    BY DEF At
  <2>3. \A i \in DOMAIN x : x[i] \in W <=> x[i] \notin Dropped
    BY DEF Promise!Words
  <2> HIDE DEF A, W
  <2> QED
    BY <2>1, <2>2, <2>3
<1> HIDE DEF A, f, W
<1>5. AreSizes(f, A, W)
  BY <1>1, <1>2, <1>3 DEF AreSizes
<1>6. SumFunction(f) = Cardinality(UNION {A[w] : w \in W})
  BY <1>5, SumIs
<1> QED
  BY <1>4, <1>6 DEF f

(* The words of a collection are finitely many, each in some text.         *)
LEMMA CollectionIs ==
    ASSUME NEW X \in Collections
    PROVE  /\ DOMAIN X \subseteq Nat /\ IsFiniteSet(DOMAIN X) /\ \A d \in DOMAIN X : X[d] \in Seq(Nat)
           /\ Promise!AllWords(X) \subseteq Nat /\ IsFiniteSet(Promise!AllWords(X))
           /\ \A w \in Promise!AllWords(X) :
                /\ Promise!Places(X, w) # {}
                /\ \A d \in DOMAIN X : w \in Promise!Words(X[d]) <=> At(X[d], w) # {}
           /\ \A d \in DOMAIN X : Promise!Words(X[d]) \subseteq Promise!AllWords(X)
<1>1. DOMAIN X = 1..Len(X) /\ Len(X) \in Nat /\ \A d \in DOMAIN X : X[d] \in Seq(Nat)
  BY DEF Collections
<1>2. IsFiniteSet(DOMAIN X)
  BY <1>1, FS_Interval
<1>3. Promise!AllWords(X) = UNION {Promise!Words(X[d]) : d \in DOMAIN X}
  BY DEF Promise!AllWords
<1>4. \A d \in DOMAIN X : Promise!Words(X[d]) \subseteq Nat /\ IsFiniteSet(Promise!Words(X[d]))
  BY <1>1, TextIs
<1>5. IsFiniteSet(Promise!AllWords(X))
  <2> DEFINE T == {Promise!Words(X[d]) : d \in DOMAIN X}
             g == [d \in DOMAIN X |-> Promise!Words(X[d])]
  <2>1. g \in Surjection(DOMAIN X, T)
    BY DEF Surjection
  <2>2. IsFiniteSet(T)
    <3> HIDE DEF g, T
    <3> QED
      BY <1>2, <2>1, FS_Surjection
  <2>3. \A W \in T : IsFiniteSet(W)
    BY <1>4
  <2> HIDE DEF T
  <2>4. IsFiniteSet(UNION T)
    BY <2>2, <2>3, FS_UNION
  <2> QED
    BY <2>4, <1>3 DEF T
<1>6. ASSUME NEW w \in Promise!AllWords(X)
      PROVE  /\ Promise!Places(X, w) # {}
             /\ \A d \in DOMAIN X : w \in Promise!Words(X[d]) <=> At(X[d], w) # {}
  <2>1. PICK d \in DOMAIN X : w \in Promise!Words(X[d])
    BY <1>3
  <2>2. w \notin Dropped /\ At(X[d], w) # {}
    BY <2>1, <1>1, TextIs
  <2>3. PICK i \in At(X[d], w) : TRUE
    BY <2>2
  <2>4. <<d, i>> \in Promise!Places(X, w)
    BY <2>3, PlacesAre
  <2>5. \A e \in DOMAIN X : w \in Promise!Words(X[e]) <=> At(X[e], w) # {}
    BY <2>2, <1>1, TextIs
  <2> QED
    BY <2>4, <2>5
<1>7. Promise!AllWords(X) \subseteq Nat /\ \A d \in DOMAIN X : Promise!Words(X[d]) \subseteq Promise!AllWords(X)
  BY <1>3, <1>4
<1>8. DOMAIN X \subseteq Nat
  BY <1>1
<1> QED
  BY <1>1, <1>2, <1>5, <1>6, <1>7, <1>8

(* The places of a word in some of the texts, counted text by text.        *)
LEMMA ScoreIs ==
    ASSUME NEW X \in Collections, NEW D, D \subseteq DOMAIN X, NEW w
    PROVE  /\ IsFiniteSet({a \in Promise!Places(X, w) : a[1] \in D})
           /\ Cardinality({a \in Promise!Places(X, w) : a[1] \in D}) \in Nat
           /\ Cardinality({a \in Promise!Places(X, w) : a[1] \in D}) =
                SumFunction([d \in D |-> Cardinality(At(X[d], w))])
<1> DEFINE A == [d \in D |-> {d} \X At(X[d], w)]
           f == [d \in D |-> Cardinality(At(X[d], w))]
           P == {a \in Promise!Places(X, w) : a[1] \in D}
<1>1. IsFiniteSet(D) /\ \A d \in D : X[d] \in Seq(Nat)
  BY CollectionIs, FS_Subset
<1>2. ASSUME NEW d \in D
      PROVE  IsFiniteSet(A[d]) /\ Cardinality(A[d]) = Cardinality(At(X[d], w))
  <2>1. IsFiniteSet(At(X[d], w)) /\ Cardinality(At(X[d], w)) \in Nat
    BY <1>1, TextIs
  <2>2. IsFiniteSet({d}) /\ Cardinality({d}) = 1
    BY FS_Singleton
  <2>3. IsFiniteSet({d} \X At(X[d], w)) /\ Cardinality({d} \X At(X[d], w)) = 1 * Cardinality(At(X[d], w))
    BY <2>1, <2>2, FS_Product
  <2> QED
    BY <2>1, <2>3
<1>3. \A d, e \in D : d # e => A[d] \cap A[e] = {}
  OBVIOUS
<1>4. f = [d \in D |-> Cardinality(A[d])]
  <2> HIDE DEF A
  <2> QED
    BY <1>2
<1>5. P = UNION {A[d] : d \in D}
  <2>1. \A a : a \in P <=> \E d \in DOMAIN X : \E i \in At(X[d], w) : a = <<d, i>> /\ d \in D
    BY PlacesAre
  <2>2. \A a : a \in UNION {A[d] : d \in D} <=> \E d \in D : \E i \in At(X[d], w) : a = <<d, i>>
    OBVIOUS
  <2> HIDE DEF P, A
  <2> QED
    BY <2>1, <2>2
<1>6. \A d \in D : IsFiniteSet(A[d])
  BY <1>2
<1> HIDE DEF A, f, P
<1>7. IsFiniteSet(UNION {A[d] : d \in D}) /\ SumFunction(f) = Cardinality(UNION {A[d] : d \in D})
  <2>1. IsFiniteSet(D)
    BY <1>1
  <2>2. \A x \in D : IsFiniteSet(A[x])
    BY <1>6
  <2>3. \A x, y \in D : x # y => A[x] \cap A[y] = {}
    BY <1>3
  <2>4. f = [x \in D |-> Cardinality(A[x])]
    BY <1>4
  <2>5. AreSizes(f, A, D)
    BY <2>1, <2>2, <2>3, <2>4 DEF AreSizes
  <2> QED
    BY <2>5, SumIs
<1>8. IsFiniteSet(P) /\ Cardinality(P) = SumFunction(f)
  BY <1>5, <1>7
<1>9. Cardinality(P) \in Nat
  BY <1>8, FS_CardinalityType
<1> QED
  BY <1>8, <1>9 DEF f, P

(* The words of each text, as the promise counts them.                     *)
LEMMA TfIdfIs ==
    ASSUME NEW X \in Collections
    PROVE  /\ DOMAIN TfIdf(Docs(X)) = DOMAIN X
           /\ \A d \in DOMAIN X :
                /\ DOMAIN TfIdf(Docs(X))[d].map = Promise!Words(X[d])
                /\ \A w \in Promise!Words(X[d]) : TfIdf(Docs(X))[d].map[w][1] = Cardinality(At(X[d], w))
                /\ TfIdf(Docs(X))[d].map =
                     [w \in Promise!Words(X[d]) |->
                        <<Promise!Times(X[d], w),
                          Promise!Cardinality({i \in DOMAIN X[d] : X[d][i] \notin Dropped}),
                          Promise!Cardinality(Promise!Holding(X, w))>>]
                /\ TfIdf(Docs(X))[d].before = CounterOf(Analyze(X[d])).before
<1> DEFINE docs == Docs(X)
           counters == [d \in DOMAIN docs |-> CounterOf(docs[d])]
           Df(w) == Cardinality({d \in DOMAIN docs : w \in DOMAIN counters[d].count})
<1>1. DOMAIN docs = DOMAIN X /\ \A d \in DOMAIN X : docs[d] = Analyze(X[d]) /\ X[d] \in Seq(Nat)
  BY CollectionIs DEF Docs
<1>2. TfIdf(docs) = [d \in DOMAIN docs |->
           [before |-> counters[d].before,
            map |-> [w \in DOMAIN counters[d].count |->
                        <<counters[d].count[w], SumFunction(counters[d].count), Df(w)>>]]]
  BY DEF TfIdf
<1> HIDE DEF docs
<1>3. \A d \in DOMAIN X : counters[d] = CounterOf(Analyze(X[d]))
  BY <1>1
<1>4. ASSUME NEW d \in DOMAIN X
      PROVE  /\ DOMAIN counters[d].count = Promise!Words(X[d])
             /\ \A w \in Promise!Words(X[d]) : counters[d].count[w] = Cardinality(At(X[d], w))
             /\ SumFunction(counters[d].count) = Cardinality({i \in DOMAIN X[d] : X[d][i] \notin Dropped})
  <2> HIDE DEF counters
  <2> QED
    BY <1>1, <1>3, CounterIs, LengthIs
<1>5. \A w : Df(w) = Cardinality(Promise!Holding(X, w))
  <2>1. ASSUME NEW w
        PROVE  {d \in DOMAIN docs : w \in DOMAIN counters[d].count} = Promise!Holding(X, w)
    <3> HIDE DEF counters
    <3> QED
      BY <1>1, <1>4 DEF Promise!Holding
  <2> QED
    BY <2>1
<1> HIDE DEF counters, Df
<1>6. DOMAIN TfIdf(docs) = DOMAIN X
  BY <1>1, <1>2
<1>7. ASSUME NEW d \in DOMAIN X
      PROVE  /\ TfIdf(docs)[d].before = CounterOf(Analyze(X[d])).before
             /\ TfIdf(docs)[d].map = [w \in Promise!Words(X[d]) |->
                   <<Cardinality(At(X[d], w)), Cardinality({i \in DOMAIN X[d] : X[d][i] \notin Dropped}),
                     Cardinality(Promise!Holding(X, w))>>]
  <2>1. TfIdf(docs)[d] = [before |-> counters[d].before,
            map |-> [w \in DOMAIN counters[d].count |->
                        <<counters[d].count[w], SumFunction(counters[d].count), Df(w)>>]]
    BY <1>1, <1>2
  <2>2. /\ TfIdf(docs)[d].before = counters[d].before
        /\ TfIdf(docs)[d].map = [w \in DOMAIN counters[d].count |->
                        <<counters[d].count[w], SumFunction(counters[d].count), Df(w)>>]
    BY <2>1
  <2> QED
    BY <2>2, <1>3, <1>4, <1>5
<1>8. ASSUME NEW d \in DOMAIN X
      PROVE  TfIdf(docs)[d].map = [w \in Promise!Words(X[d]) |->
                        <<Promise!Times(X[d], w),
                          Promise!Cardinality({i \in DOMAIN X[d] : X[d][i] \notin Dropped}),
                          Promise!Cardinality(Promise!Holding(X, w))>>]
  <2>1. \A w : Promise!Times(X[d], w) = Cardinality(At(X[d], w))
    BY <1>1, TextIs
  <2> QED
    BY <2>1, <1>7, SameSize
<1>9. ASSUME NEW d \in DOMAIN X
      PROVE  /\ DOMAIN TfIdf(docs)[d].map = Promise!Words(X[d])
             /\ \A w \in Promise!Words(X[d]) : TfIdf(docs)[d].map[w][1] = Cardinality(At(X[d], w))
  <2> DEFINE m == TfIdf(docs)[d].map
  <2>1. m = [w \in Promise!Words(X[d]) |->
               <<Cardinality(At(X[d], w)), Cardinality({i \in DOMAIN X[d] : X[d][i] \notin Dropped}),
                 Cardinality(Promise!Holding(X, w))>>]
    BY <1>7
  <2> HIDE DEF m
  <2>2. DOMAIN m = Promise!Words(X[d]) /\ \A w \in Promise!Words(X[d]) : m[w][1] = Cardinality(At(X[d], w))
    BY <2>1
  <2> QED
    BY <2>2 DEF m
<1> QED
  BY <1>6, <1>7, <1>8, <1>9 DEF docs

(* The places of a word are finitely many.                                 *)
LEMMA PlacesAreFinite ==
    ASSUME NEW X \in Collections, NEW w
    PROVE  /\ IsFiniteSet(Promise!Places(X, w))
           /\ Cardinality(Promise!Places(X, w)) \in Nat
<1>1. {a \in Promise!Places(X, w) : a[1] \in DOMAIN X} = Promise!Places(X, w)
  BY PlacesAre
<1> QED
  BY <1>1, ScoreIs

(* The texts that hold a word are those it has a place in.                 *)
LEMMA HoldingIs ==
    ASSUME NEW X \in Collections, NEW w \in Promise!AllWords(X)
    PROVE  /\ \A d : d \in Promise!Holding(X, w) <=> d \in DOMAIN X /\ At(X[d], w) # {}
           /\ \A a \in Promise!Places(X, w) : a[1] \in Promise!Holding(X, w)
<1>1. \A d : d \in Promise!Holding(X, w) <=> d \in DOMAIN X /\ At(X[d], w) # {}
  BY CollectionIs DEF Promise!Holding
<1>2. ASSUME NEW a \in Promise!Places(X, w)
      PROVE  a[1] \in Promise!Holding(X, w)
  <2>1. PICK d \in DOMAIN X : \E i \in At(X[d], w) : a = <<d, i>>
    BY PlacesAre
  <2>2. a[1] = d /\ At(X[d], w) # {}
    BY <2>1
  <2> QED
    BY <2>2, <1>1
<1> QED
  BY <1>1, <1>2

(* The order of the engine's totals is that of the first places: first by  *)
(* the text, then by the place in it.                                      *)
LEMMA FirstTextFirst ==
    ASSUME NEW X \in Collections, NEW v \in Promise!AllWords(X), NEW w \in Promise!AllWords(X)
    PROVE  Promise!AppearsBefore(X, v, w) <=>
             \E d \in Promise!Holding(X, v) : \A e \in Promise!Holding(X, w) :
                d < e \/ (d = e /\ <<v, w>> \in CounterOf(Analyze(X[d])).before)
<1> DEFINE Ahead(d) == <<v, w>> \in CounterOf(Analyze(X[d])).before
<1>1. DOMAIN X \subseteq Nat /\ \A d \in DOMAIN X : X[d] \in Seq(Nat)
  BY CollectionIs
<1>2. /\ \A d : d \in Promise!Holding(X, v) <=> d \in DOMAIN X /\ At(X[d], v) # {}
      /\ \A d : d \in Promise!Holding(X, w) <=> d \in DOMAIN X /\ At(X[d], w) # {}
  BY HoldingIs
<1>3. ASSUME NEW d \in DOMAIN X, At(X[d], v) # {}, At(X[d], w) # {}
      PROVE  Ahead(d) <=> \E i \in At(X[d], v) : \A j \in At(X[d], w) : i < j
  <2>1. v \in Promise!Words(X[d]) /\ w \in Promise!Words(X[d])
    BY <1>3, CollectionIs
  <2>2. CounterOf(Analyze(X[d])).before =
                {vw \in Promise!Words(X[d]) \X Promise!Words(X[d]) :
                   \E i \in At(X[d], vw[1]) : \A j \in At(X[d], vw[2]) : i < j}
    BY <1>1, CounterIs
  <2> QED
    BY <2>1, <2>2
<1>4. /\ \A a : a \in Promise!Places(X, v) <=> \E d \in DOMAIN X : \E i \in At(X[d], v) : a = <<d, i>>
      /\ \A b : b \in Promise!Places(X, w) <=> \E e \in DOMAIN X : \E j \in At(X[e], w) : b = <<e, j>>
  BY PlacesAre
<1>5. Promise!AppearsBefore(X, v, w) <=>
        \E a \in Promise!Places(X, v) : \A b \in Promise!Places(X, w) : Promise!Precedes(a, b)
  BY DEF Promise!AppearsBefore
<1>6. \A d, e, i, j : Promise!Precedes(<<d, i>>, <<e, j>>) <=> d < e \/ (d = e /\ i < j)
  BY DEF Promise!Precedes
<1> HIDE DEF Ahead
<1>7. ASSUME Promise!AppearsBefore(X, v, w)
      PROVE  \E d \in Promise!Holding(X, v) : \A e \in Promise!Holding(X, w) : d < e \/ (d = e /\ Ahead(d))
  <2>1. PICK a \in Promise!Places(X, v) : \A b \in Promise!Places(X, w) : Promise!Precedes(a, b)
    BY <1>5, <1>7
  <2>2. PICK d \in DOMAIN X : \E i \in At(X[d], v) : a = <<d, i>>
    BY <1>4
  <2>3. PICK i \in At(X[d], v) : a = <<d, i>>
    BY <2>2
  <2>4. \A e \in DOMAIN X : \A j \in At(X[e], w) : d < e \/ (d = e /\ i < j)
    <3> SUFFICES ASSUME NEW e \in DOMAIN X, NEW j \in At(X[e], w)
                 PROVE  d < e \/ (d = e /\ i < j)
      OBVIOUS
    <3>1. <<e, j>> \in Promise!Places(X, w)
      BY <1>4
    <3>2. Promise!Precedes(<<d, i>>, <<e, j>>)
      BY <2>1, <2>3, <3>1
    <3> QED
      BY <3>2, <1>6
  <2>5. d \in Promise!Holding(X, v)
    BY <1>2, <2>3
  <2>6. ASSUME NEW e \in Promise!Holding(X, w)
        PROVE  d < e \/ (d = e /\ Ahead(d))
    <3>1. e \in DOMAIN X /\ At(X[e], w) # {}
      BY <1>2
    <3>2. d < e \/ d = e
      BY <3>1, <2>4
    <3>3. ASSUME d = e, ~ (d < e)
          PROVE  Ahead(d)
      <4>1. \A j \in At(X[d], w) : d < d \/ i < j
        BY <2>4
      <4>2. ~ (d < d)
        BY <3>3
      <4> QED
        BY <4>1, <4>2, <3>1, <3>3, <1>3
    <3> QED
      BY <3>2, <3>3
  <2> QED
    BY <2>5, <2>6
<1>8. ASSUME NEW d \in Promise!Holding(X, v), \A e \in Promise!Holding(X, w) : d < e \/ (d = e /\ Ahead(d))
      PROVE  Promise!AppearsBefore(X, v, w)
  <2>1. d \in DOMAIN X /\ At(X[d], v) # {}
    BY <1>2
  <2>2. PICK i \in At(X[d], v) : At(X[d], w) # {} /\ Ahead(d) => \A j \in At(X[d], w) : i < j
    BY <2>1, <1>3
  <2>3. <<d, i>> \in Promise!Places(X, v)
    BY <2>1, <1>4
  <2>4. ASSUME NEW b \in Promise!Places(X, w)
        PROVE  Promise!Precedes(<<d, i>>, b)
    <3>1. PICK e \in DOMAIN X : \E j \in At(X[e], w) : b = <<e, j>>
      BY <1>4
    <3>2. PICK j \in At(X[e], w) : b = <<e, j>>
      BY <3>1
    <3>3. e \in Promise!Holding(X, w)
      BY <3>2, <1>2
    <3>4. d < e \/ (d = e /\ Ahead(d))
      BY <3>3, <1>8
    <3>5. d < e \/ (d = e /\ i < j)
      BY <3>4, <3>2, <2>2
    <3> QED
      BY <3>2, <3>5, <1>6
  <2> QED
    BY <2>3, <2>4, <1>5
<1>9. Promise!AppearsBefore(X, v, w) <=>
        \E d \in Promise!Holding(X, v) : \A e \in Promise!Holding(X, w) : d < e \/ (d = e /\ Ahead(d))
  BY <1>7, <1>8
<1> QED
  BY <1>9 DEF Ahead

(* The totals count the places of each word in all texts.                  *)
LEMMA TotalsAre ==
    ASSUME NEW X \in Collections
    PROVE  /\ DOMAIN AggregateWordTotals(TfIdf(Docs(X))).count = Promise!AllWords(X)
           /\ \A w \in Promise!AllWords(X) :
                AggregateWordTotals(TfIdf(Docs(X))).count[w] = Cardinality(Promise!Places(X, w))
           /\ AggregateWordTotals(TfIdf(Docs(X))).before =
                {vw \in Promise!AllWords(X) \X Promise!AllWords(X) :
                    Promise!AppearsBefore(X, vw[1], vw[2])}
<1> DEFINE maps == TfIdf(Docs(X))
           all == UNION {DOMAIN maps[d].map : d \in DOMAIN maps}
           With(w) == {d \in DOMAIN maps : w \in DOMAIN maps[d].map}
           W == Promise!AllWords(X)
<1>1. /\ DOMAIN maps = DOMAIN X
      /\ \A d \in DOMAIN X :
           /\ DOMAIN maps[d].map = Promise!Words(X[d])
           /\ \A w \in Promise!Words(X[d]) : maps[d].map[w][1] = Cardinality(At(X[d], w))
           /\ maps[d].before = CounterOf(Analyze(X[d])).before
  BY TfIdfIs
<1>2. AggregateWordTotals(maps) =
        [count |-> [w \in all |-> SumFunction([d \in With(w) |-> maps[d].map[w][1]])],
         before |-> {vw \in all \X all :
                       \E d \in With(vw[1]) : \A e \in With(vw[2]) :
                           d < e \/ (d = e /\ vw \in maps[d].before)}]
  BY DEF AggregateWordTotals
<1> HIDE DEF maps
<1>3. all = W
  BY <1>1 DEF Promise!AllWords
<1>4. \A w : With(w) = Promise!Holding(X, w)
  BY <1>1 DEF Promise!Holding
<1> HIDE DEF all, With, W
<1>5. ASSUME NEW w \in W
      PROVE  SumFunction([d \in With(w) |-> maps[d].map[w][1]]) = Cardinality(Promise!Places(X, w))
  <2> DEFINE D == Promise!Holding(X, w)
  <2>1. D \subseteq DOMAIN X /\ \A d \in D : w \in Promise!Words(X[d])
    BY DEF Promise!Holding
  <2>2. [d \in With(w) |-> maps[d].map[w][1]] = [d \in D |-> Cardinality(At(X[d], w))]
    BY <2>1, <1>1, <1>4
  <2>3. {a \in Promise!Places(X, w) : a[1] \in D} = Promise!Places(X, w)
    BY HoldingIs DEF W
  <2>4. Cardinality({a \in Promise!Places(X, w) : a[1] \in D}) = SumFunction([d \in D |-> Cardinality(At(X[d], w))])
    BY <2>1, ScoreIs
  <2> QED
    BY <2>2, <2>3, <2>4
<1>6. ASSUME NEW vw \in W \X W
      PROVE  (\E d \in With(vw[1]) : \A e \in With(vw[2]) : d < e \/ (d = e /\ vw \in maps[d].before))
             <=> Promise!AppearsBefore(X, vw[1], vw[2])
  <2>1. PICK v \in W, w \in W : vw = <<v, w>>
    OBVIOUS
  <2>2. vw[1] = v /\ vw[2] = w
    BY <2>1
  <2>3. \A d \in With(v) : maps[d].before = CounterOf(Analyze(X[d])).before
    BY <1>1, <1>4 DEF Promise!Holding
  <2>4. Promise!AppearsBefore(X, v, w) <=>
             \E d \in With(v) : \A e \in With(w) :
                d < e \/ (d = e /\ <<v, w>> \in CounterOf(Analyze(X[d])).before)
    BY <1>4, FirstTextFirst DEF W
  <2>5. (\E d \in With(v) : \A e \in With(w) : d < e \/ (d = e /\ vw \in maps[d].before))
        <=> Promise!AppearsBefore(X, v, w)
    BY <2>1, <2>3, <2>4
  <2> QED
    BY <2>2, <2>5
<1>7. /\ AggregateWordTotals(maps).count = [w \in all |-> SumFunction([d \in With(w) |-> maps[d].map[w][1]])]
      /\ AggregateWordTotals(maps).before =
           {vw \in all \X all : \E d \in With(vw[1]) : \A e \in With(vw[2]) :
                           d < e \/ (d = e /\ vw \in maps[d].before)}
  BY <1>2
<1>8. AggregateWordTotals(maps).before = {vw \in W \X W : Promise!AppearsBefore(X, vw[1], vw[2])}
  BY <1>3, <1>6, <1>7
<1>9. /\ DOMAIN AggregateWordTotals(maps).count = W
      /\ \A w \in W : AggregateWordTotals(maps).count[w] = Cardinality(Promise!Places(X, w))
  BY <1>3, <1>5, <1>7
<1> QED
  BY <1>8, <1>9 DEF maps, W

(* The order of most_common is the promise's.                              *)
LEMMA MostCommonIs ==
    ASSUME NEW X \in Collections, NEW S, \A w \in S : Promise!Places(X, w) # {},
           NEW score, \A w \in S : score[w] = Cardinality(Promise!Places(X, w)),
           NEW before, before = {vw \in S \X S : Promise!AppearsBefore(X, vw[1], vw[2])}
    PROVE  /\ StrictOrder(S, ByScore(S, score, before))
           /\ \A v, w \in S : <<v, w>> \in ByScore(S, score, before) <=> Promise!MoreCommon(X, v, w)
<1>1. StrictOrder(S, before)
  BY AppearanceOrders
<1>2. \A w \in S : score[w] \in Nat /\ score[w] = Promise!Cardinality(Promise!Places(X, w))
  BY PlacesAreFinite, SameSize
<1>3. /\ StrictOrder(S, ByScore(S, score, before))
      /\ \A v, w \in S : <<v, w>> \in ByScore(S, score, before) <=>
                score[v] > score[w] \/ (score[v] = score[w] /\ <<v, w>> \in before)
  <2>1. StrictOrder(S, before) /\ \A w \in S : score[w] \in Nat
    BY <1>1, <1>2
  <2> QED
    BY ONLY <2>1, ScoreOrders
<1>4. ASSUME NEW v \in S, NEW w \in S
      PROVE  (score[v] > score[w] \/ (score[v] = score[w] /\ <<v, w>> \in before))
             <=> Promise!MoreCommon(X, v, w)
  <2>1. Promise!MoreCommon(X, v, w) <=>
          score[v] > score[w] \/ (score[v] = score[w] /\ v # w /\ Promise!AppearsBefore(X, v, w))
    BY <1>2 DEF Promise!MoreCommon
  <2>2. <<v, w>> \in before <=> Promise!AppearsBefore(X, v, w)
    OBVIOUS
  <2>3. <<v, w>> \in before => v # w
    BY <1>1 DEF StrictOrder
  <2> HIDE DEF Promise!AppearsBefore
  <2> QED
    BY <2>1, <2>2, <2>3
<1> QED
  BY <1>3, <1>4

(* The top words of the engine are the promise's.                          *)
LEMMA TopIs ==
    ASSUME NEW X \in Collections
    PROVE  Range(TopWords(AggregateWordTotals(TfIdf(Docs(X))))) = Promise!Top(X)
<1> DEFINE totals == AggregateWordTotals(TfIdf(Docs(X)))
           S == Promise!AllWords(X)
           O == ByScore(S, totals.count, totals.before)
<1>1. /\ DOMAIN totals.count = S
      /\ \A w \in S : totals.count[w] = Cardinality(Promise!Places(X, w))
      /\ totals.before = {vw \in S \X S : Promise!AppearsBefore(X, vw[1], vw[2])}
  BY TotalsAre
<1>2. IsFiniteSet(S) /\ \A w \in S : Promise!Places(X, w) # {}
  BY CollectionIs
<1> HIDE DEF totals, S
<1>3. StrictOrder(S, O) /\ \A v, w \in S : <<v, w>> \in O <=> Promise!MoreCommon(X, v, w)
  <2> DEFINE score == totals.count
             before == totals.before
  <2>1. \A w \in S : score[w] = Cardinality(Promise!Places(X, w))
    BY <1>1
  <2>2. before = {vw \in S \X S : Promise!AppearsBefore(X, vw[1], vw[2])}
    BY <1>1
  <2>3. \A w \in S : Promise!Places(X, w) # {}
    BY <1>2
  <2>4. X \in Collections
    OBVIOUS
  <2> HIDE DEF score, before
  <2>5. /\ StrictOrder(S, ByScore(S, score, before))
        /\ \A v, w \in S : <<v, w>> \in ByScore(S, score, before) <=> Promise!MoreCommon(X, v, w)
    BY ONLY <2>1, <2>2, <2>3, <2>4, MostCommonIs
  <2> QED
    BY <2>5 DEF score, before
<1>4. TopWords(totals) = Leading(S, O, TopN)
  BY <1>1 DEF TopWords, MostCommon
<1> HIDE DEF O
<1>5. Range(TopWords(totals)) = {w \in S : Cardinality(Before(S, O, w)) < TopN}
  BY <1>2, <1>3, <1>4, LeadingIs, EngineAssumption
<1>6. \A w \in S : Before(S, O, w) = {v \in S : Promise!MoreCommon(X, v, w)}
  BY <1>3 DEF Before
<1>7. Promise!Top(X) = {w \in S : Cardinality({v \in S : Promise!MoreCommon(X, v, w)}) < TopN}
  BY SameSize DEF Promise!Top, S
<1>8. Range(TopWords(totals)) = Promise!Top(X)
  BY <1>5, <1>6, <1>7
<1> QED
  BY <1>8 DEF totals

(* The pairs of top words that share a text.                               *)
LEMMA CooccurrenceIs ==
    ASSUME NEW X \in Collections, NEW top, Range(top) = Promise!Top(X)
    PROVE  Cooccurrence(Docs(X), top) =
           {<<vw[1], vw[2], Promise!Cardinality(Promise!Holding(X, vw[1]) \cap Promise!Holding(X, vw[2]))>> : vw \in
               {p \in Promise!Top(X) \X Promise!Top(X) :
                   /\ p[1] < p[2]
                   /\ Promise!Holding(X, p[1]) \cap Promise!Holding(X, p[2]) # {}}}
<1> DEFINE docs == Docs(X)
           T == Promise!Top(X)
           present == [d \in DOMAIN docs |-> Range(docs[d]) \cap Range(top)]
           Pairs(d) == {pair \in present[d] \X present[d] : pair[1] < pair[2]}
           Both(p) == Promise!Holding(X, p[1]) \cap Promise!Holding(X, p[2])
           Ordered == {p \in T \X T : p[1] < p[2] /\ Both(p) # {}}
<1>1. DOMAIN docs = DOMAIN X /\ \A d \in DOMAIN X : Range(docs[d]) = Promise!Words(X[d])
  <2>1. \A d \in DOMAIN X : X[d] \in Seq(Nat)
    BY CollectionIs
  <2> QED
    BY <2>1, DocumentIs DEF Docs
<1>2. Cooccurrence(docs, top) =
        {<<pair[1], pair[2], Cardinality({d \in DOMAIN docs : pair \in Pairs(d)})>> :
           pair \in UNION {Pairs(d) : d \in DOMAIN docs}}
  BY DEF Cooccurrence
<1> HIDE DEF docs, T
<1>3. \A d \in DOMAIN X : present[d] = Promise!Words(X[d]) \cap T
  BY <1>1 DEF T
<1> HIDE DEF present
<1>4. \A d \in DOMAIN X : \A p : p \in Pairs(d) <=> p \in T \X T /\ p[1] < p[2] /\ d \in Both(p)
  BY <1>3 DEF Promise!Holding
<1>5. \A p : Both(p) \subseteq DOMAIN X
  BY DEF Promise!Holding
<1> HIDE DEF Pairs, Both
<1>6. UNION {Pairs(d) : d \in DOMAIN docs} = Ordered
  <2>1. \A p : p \in UNION {Pairs(d) : d \in DOMAIN docs} <=> \E d \in DOMAIN X : p \in Pairs(d)
    BY <1>1
  <2>2. \A p : (\E d \in DOMAIN X : p \in Pairs(d)) <=> p \in Ordered
    BY <1>4, <1>5
  <2> HIDE DEF Ordered
  <2> QED
    BY <2>1, <2>2
<1>7. \A p \in Ordered : {d \in DOMAIN docs : p \in Pairs(d)} = Both(p)
  BY <1>1, <1>4, <1>5
<1>8. \A p \in Ordered : Cardinality({d \in DOMAIN docs : p \in Pairs(d)}) = Promise!Cardinality(Both(p))
  BY <1>7, SameSize
<1> HIDE DEF Ordered
<1>9. Cooccurrence(docs, top) = {<<p[1], p[2], Promise!Cardinality(Both(p))>> : p \in Ordered}
  BY <1>2, <1>6, <1>8
<1> QED
  BY <1>9 DEF docs, T, Both, Ordered

(* The words that engine.py computes are correct.                          *)
LEMMA WordsAreCorrect ==
    ASSUME NEW X \in Collections
    PROVE  Promise!WordsCorrect(X,
              [words |-> [d \in DOMAIN TfIdf(Docs(X)) |-> TfIdf(Docs(X))[d].map],
               relations |-> Cooccurrence(Docs(X), TopWords(AggregateWordTotals(TfIdf(Docs(X)))))])
<1> DEFINE maps == TfIdf(Docs(X))
           w0 == [d \in DOMAIN maps |-> maps[d].map]
           r0 == Cooccurrence(Docs(X), TopWords(AggregateWordTotals(maps)))
           o == [words |-> w0, relations |-> r0]
<1>1. w0 = [d \in DOMAIN X |-> [w \in Promise!Words(X[d]) |->
                        <<Promise!Times(X[d], w),
                          Promise!Cardinality({i \in DOMAIN X[d] : X[d][i] \notin Dropped}),
                          Promise!Cardinality(Promise!Holding(X, w))>>]]
  BY TfIdfIs
<1>2. r0 = {<<vw[1], vw[2], Promise!Cardinality(Promise!Holding(X, vw[1]) \cap Promise!Holding(X, vw[2]))>> : vw \in
               {p \in Promise!Top(X) \X Promise!Top(X) :
                   /\ p[1] < p[2]
                   /\ Promise!Holding(X, p[1]) \cap Promise!Holding(X, p[2]) # {}}}
  BY TopIs, CooccurrenceIs
<1> HIDE DEF w0, r0
<1>3. o.words = w0 /\ o.relations = r0
  OBVIOUS
<1> HIDE DEF o
<1>4. Promise!WordsCorrect(X, o)
  BY <1>1, <1>2, <1>3 DEF Promise!WordsCorrect
<1> QED
  BY <1>4 DEF o, w0, r0, maps

(* Leading lists what the promise's lists do.                              *)
LEMMA LeadingLists ==
    ASSUME NEW S, IsFiniteSet(S), NEW pairs, StrictOrder(S, pairs)
    PROVE  /\ Promise!Len(Leading(S, pairs, TopN)) <= TopN
           /\ Promise!Len(Leading(S, pairs, TopN)) < TopN =>
                Promise!Len(Leading(S, pairs, TopN)) = Promise!Cardinality(S)
           /\ \A i \in DOMAIN Leading(S, pairs, TopN) :
                /\ Leading(S, pairs, TopN)[i] \in S
                /\ Promise!Cardinality({v \in S : <<v, Leading(S, pairs, TopN)[i]>> \in pairs}) = i - 1
<1> DEFINE s == Leading(S, pairs, TopN)
<1>1. TopN \in Nat /\ Cardinality(S) \in Nat
  BY EngineAssumption, FS_CardinalityType
<1>2. /\ s \in Seq(S)
      /\ Len(s) = IF Cardinality(S) < TopN THEN Cardinality(S) ELSE TopN
      /\ \A i \in DOMAIN s : Cardinality(Before(S, pairs, s[i])) = i - 1
  BY <1>1, LeadingIs
<1> HIDE DEF s
<1>3. Promise!Len(s) = Len(s)
  BY <1>2
<1>4. \A i \in DOMAIN s : s[i] \in S
  BY <1>2
<1>5. \A i \in DOMAIN s : Promise!Cardinality({v \in S : <<v, s[i]>> \in pairs}) = i - 1
  BY <1>2, SameSize DEF Before
<1>6. Len(s) <= TopN /\ (Len(s) < TopN => Len(s) = Promise!Cardinality(S))
  BY <1>1, <1>2, SameSize
<1> QED
  BY <1>3, <1>4, <1>5, <1>6 DEF s

(* s lists the first of S, by their number in the texts D of X.            *)
RankedIn(X, D, s, S) == Promise!ListsFirst(s, S, LAMBDA v, w : Promise!ByScore(X, D, v, w))

(* Ranked lists words as the promise ranks them in the texts D.            *)
LEMMA RankedIs ==
    ASSUME NEW X \in Collections, NEW D, D \subseteq DOMAIN X,
           NEW S, IsFiniteSet(S), S \subseteq Nat,
           NEW score, \A w \in S : score[w] = Cardinality({a \in Promise!Places(X, w) : a[1] \in D})
    PROVE  RankedIn(X, D, Ranked(S, score), S)
<1> DEFINE before == {vw \in S \X S : vw[1] < vw[2]}
           O == ByScore(S, score, before)
           s == Ranked(S, score)
<1>1. StrictOrder(S, before)
  <2>1. \A v, w \in S : <<v, w>> \in before <=> v < w
    OBVIOUS
  <2> HIDE DEF before
  <2> QED
    BY <2>1 DEF StrictOrder
<1>2. \A w \in S : score[w] \in Nat
  BY ScoreIs
<1>3. /\ StrictOrder(S, O)
      /\ \A v, w \in S : <<v, w>> \in O <=>
                score[v] > score[w] \/ (score[v] = score[w] /\ <<v, w>> \in before)
  <2> HIDE DEF before
  <2> QED
    BY ONLY <1>1, <1>2, ScoreOrders
<1>4. \A v, w \in S : <<v, w>> \in O <=> Promise!ByScore(X, D, v, w)
  <2> SUFFICES ASSUME NEW v \in S, NEW w \in S
               PROVE  <<v, w>> \in O <=> Promise!ByScore(X, D, v, w)
    OBVIOUS
  <2>1. Promise!ByScore(X, D, v, w) <=> score[v] > score[w] \/ (score[v] = score[w] /\ v < w)
    BY SameSize DEF Promise!ByScore
  <2>2. <<v, w>> \in before <=> v < w
    OBVIOUS
  <2> HIDE DEF O, before
  <2> QED
    BY <1>3, <2>1, <2>2
<1>5. s = Leading(S, O, TopN)
  BY DEF Ranked
<1> HIDE DEF O
<1>6. /\ Promise!Len(s) <= TopN
      /\ Promise!Len(s) < TopN => Promise!Len(s) = Promise!Cardinality(S)
      /\ \A i \in DOMAIN s : s[i] \in S /\ Promise!Cardinality({v \in S : <<v, s[i]>> \in O}) = i - 1
  BY <1>3, <1>5, LeadingLists
<1> HIDE DEF s
<1>7. \A i \in DOMAIN s : {v \in S : <<v, s[i]>> \in O} = {v \in S : Promise!ByScore(X, D, v, s[i])}
  BY <1>4, <1>6
<1>8. RankedIn(X, D, s, S)
  BY <1>6, <1>7 DEF RankedIn, Promise!ListsFirst
<1> QED
  BY <1>8 DEF s

(* The keywords of a text are its most common words.                       *)
LEMMA KeywordsAre ==
    ASSUME NEW x \in Seq(Nat)
    PROVE  Promise!ListsFirst(MostCommon(CounterOf(Analyze(x)), TopN), Promise!Words(x),
                              LAMBDA v, w : Promise!MoreCommon(<<x>>, v, w))
<1> DEFINE X == <<x>>
           S == Promise!Words(x)
           score == CounterOf(Analyze(x)).count
           before == CounterOf(Analyze(x)).before
           O == ByScore(S, score, before)
           s == MostCommon(CounterOf(Analyze(x)), TopN)
<1>1. X \in Collections /\ DOMAIN X = {1} /\ X[1] = x
  BY DEF Collections
<1> HIDE DEF X
<1>2. \A w : \A a : a \in Promise!Places(X, w) <=> \E i \in At(x, w) : a = <<1, i>>
  BY <1>1, PlacesAre
<1>3. ASSUME NEW w \in S
      PROVE  Promise!Places(X, w) # {} /\ Cardinality(Promise!Places(X, w)) = Cardinality(At(x, w))
  <2>1. At(x, w) # {} /\ IsFiniteSet(At(x, w)) /\ Cardinality(At(x, w)) \in Nat
    BY TextIs
  <2>2. IsFiniteSet({1}) /\ Cardinality({1}) = 1
    BY FS_Singleton
  <2>3. Cardinality({1} \X At(x, w)) = 1 * Cardinality(At(x, w))
    BY <2>1, <2>2, FS_Product
  <2>4. Promise!Places(X, w) = {1} \X At(x, w)
    <3>1. \A a : a \in {1} \X At(x, w) <=> \E i \in At(x, w) : a = <<1, i>>
      OBVIOUS
    <3> QED
      BY <3>1, <1>2
  <2>5. PICK i \in At(x, w) : TRUE
    BY <2>1
  <2>6. <<1, i>> \in Promise!Places(X, w)
    BY <1>2
  <2>7. Cardinality({1} \X At(x, w)) = Cardinality(At(x, w))
    BY <2>1, <2>3
  <2>8. Cardinality(Promise!Places(X, w)) = Cardinality(At(x, w))
    BY ONLY <2>4, <2>7
  <2> QED
    BY <2>6, <2>8
<1>4. ASSUME NEW v \in S, NEW w \in S
      PROVE  Promise!AppearsBefore(X, v, w) <=> \E i \in At(x, v) : \A j \in At(x, w) : i < j
  <2>1. \A i, j : Promise!Precedes(<<1, i>>, <<1, j>>) <=> i < j
    BY DEF Promise!Precedes
  <2>2. Promise!AppearsBefore(X, v, w) <=>
          \E a \in Promise!Places(X, v) : \A b \in Promise!Places(X, w) : Promise!Precedes(a, b)
    BY DEF Promise!AppearsBefore
  <2> DEFINE P(u) == Promise!Places(X, u)
  <2>3. \A u : \A a : a \in P(u) <=> \E i \in At(x, u) : a = <<1, i>>
    BY <1>2
  <2>4. Promise!AppearsBefore(X, v, w) <=> \E a \in P(v) : \A b \in P(w) : Promise!Precedes(a, b)
    BY <2>2
  <2> HIDE DEF P, X
  <2>5. ASSUME NEW i
        PROVE  (\A b \in P(w) : Promise!Precedes(<<1, i>>, b)) <=> \A j \in At(x, w) : i < j
    <3>1. \A j \in At(x, w) : <<1, j>> \in P(w)
      BY <2>3
    <3>2. \A b \in P(w) : \E j \in At(x, w) : b = <<1, j>>
      BY <2>3
    <3> QED
      BY <3>1, <3>2, <2>1
  <2>6. (\E a \in P(v) : \A b \in P(w) : Promise!Precedes(a, b))
        <=> \E i \in At(x, v) : \A b \in P(w) : Promise!Precedes(<<1, i>>, b)
    <3>1. \A i \in At(x, v) : <<1, i>> \in P(v)
      BY <2>3
    <3>2. \A a \in P(v) : \E i \in At(x, v) : a = <<1, i>>
      BY <2>3
    <3> QED
      BY <3>1, <3>2
  <2> QED
    BY <2>4, <2>5, <2>6
<1>5. /\ DOMAIN score = S
      /\ \A w \in S : score[w] = Cardinality(At(x, w))
      /\ before = {vw \in S \X S : \E i \in At(x, vw[1]) : \A j \in At(x, vw[2]) : i < j}
  BY CounterIs
<1>6. IsFiniteSet(S)
  BY TextIs
<1>7. s = Leading(S, O, TopN)
  BY <1>5 DEF MostCommon
<1> HIDE DEF S, score, before, s
<1>8. before = {vw \in S \X S : Promise!AppearsBefore(X, vw[1], vw[2])}
  BY <1>4, <1>5
<1>9. /\ StrictOrder(S, O)
      /\ \A v, w \in S : <<v, w>> \in O <=> Promise!MoreCommon(X, v, w)
  <2>1. \A w \in S : Promise!Places(X, w) # {} /\ score[w] = Cardinality(Promise!Places(X, w))
    BY <1>3, <1>5
  <2> QED
    BY ONLY <1>1, <1>8, <2>1, MostCommonIs
<1> HIDE DEF O
<1>10. /\ Promise!Len(s) <= TopN
       /\ Promise!Len(s) < TopN => Promise!Len(s) = Promise!Cardinality(S)
       /\ \A i \in DOMAIN s : s[i] \in S /\ Promise!Cardinality({v \in S : <<v, s[i]>> \in O}) = i - 1
  BY <1>6, <1>7, <1>9, LeadingLists
<1>11. \A i \in DOMAIN s : {v \in S : <<v, s[i]>> \in O} = {v \in S : Promise!MoreCommon(X, v, s[i])}
  BY <1>9, <1>10
<1>12. Promise!ListsFirst(s, S, LAMBDA v, w : Promise!MoreCommon(X, v, w))
  BY <1>10, <1>11 DEF Promise!ListsFirst
<1> QED
  BY <1>12 DEF s, S, X

(* The places of a word in one text, and in two.                           *)
LEMMA ScoresAre ==
    ASSUME NEW X \in Collections, NEW w, NEW l \in DOMAIN X, NEW r \in DOMAIN X, l # r
    PROVE  /\ Cardinality({a \in Promise!Places(X, w) : a[1] \in {l}}) = Cardinality(At(X[l], w))
           /\ Cardinality({a \in Promise!Places(X, w) : a[1] \in {r}}) = Cardinality(At(X[r], w))
           /\ Cardinality({a \in Promise!Places(X, w) : a[1] \in {l, r}}) =
                Cardinality(At(X[l], w)) + Cardinality(At(X[r], w))
<1> DEFINE In(D) == {a \in Promise!Places(X, w) : a[1] \in D}
<1>1. X[l] \in Seq(Nat) /\ X[r] \in Seq(Nat)
  BY CollectionIs
<1>2. ASSUME NEW d \in DOMAIN X
      PROVE  IsFiniteSet(In({d})) /\ Cardinality(In({d})) = Cardinality(At(X[d], w))
  <2>1. X[d] \in Seq(Nat)
    BY CollectionIs
  <2>2. IsFiniteSet(At(X[d], w)) /\ Cardinality(At(X[d], w)) \in Nat
    BY <2>1, TextIs
  <2>3. IsFiniteSet({d}) /\ Cardinality({d}) = 1
    BY FS_Singleton
  <2>4. IsFiniteSet({d} \X At(X[d], w)) /\ Cardinality({d} \X At(X[d], w)) = 1 * Cardinality(At(X[d], w))
    BY <2>2, <2>3, FS_Product
  <2>5. In({d}) = {d} \X At(X[d], w)
    <3>1. \A a : a \in In({d}) <=> (\E e \in DOMAIN X : \E i \in At(X[e], w) : a = <<e, i>>) /\ a[1] = d
      BY PlacesAre
    <3>2. \A a : a \in {d} \X At(X[d], w) <=> \E i \in At(X[d], w) : a = <<d, i>>
      OBVIOUS
    <3> HIDE DEF In
    <3> QED
      BY <3>1, <3>2
  <2> HIDE DEF In
  <2>6. Cardinality({d} \X At(X[d], w)) = Cardinality(At(X[d], w))
    BY <2>2, <2>4
  <2> QED
    BY ONLY <2>4, <2>5, <2>6
<1>3. In({l, r}) = In({l}) \cup In({r}) /\ In({l}) \cap In({r}) = {}
  OBVIOUS
<1> HIDE DEF In
<1> DEFINE P == In({l})
           Q == In({r})
<1>4. IsFiniteSet(P) /\ IsFiniteSet(Q) /\ P \cap Q = {} /\ In({l, r}) = P \cup Q
  BY <1>2, <1>3
<1>5. Cardinality(P) = Cardinality(At(X[l], w)) /\ Cardinality(Q) = Cardinality(At(X[r], w))
  BY <1>2
<1> HIDE DEF P, Q
<1>6. Cardinality(P \cup Q) = Cardinality(P) + Cardinality(Q) - Cardinality(P \cap Q)
  BY <1>4, FS_Union, Zenon
<1>7. Cardinality(P) \in Nat /\ Cardinality(Q) \in Nat
  BY <1>4, FS_CardinalityType
<1>8. Cardinality(P \cap Q) = 0
  BY <1>4, FS_EmptySet
<1>9. Cardinality(In({l, r})) = Cardinality(P) + Cardinality(Q)
  <2>1. Cardinality(P \cup Q) = Cardinality(P) + Cardinality(Q)
    BY ONLY <1>6, <1>7, <1>8
  <2>2. In({l, r}) = P \cup Q
    BY <1>4
  <2> QED
    BY ONLY <2>1, <2>2
<1>10. /\ Cardinality(In({l})) = Cardinality(At(X[l], w)) /\ Cardinality(In({r})) = Cardinality(At(X[r], w))
       /\ Cardinality(In({l, r})) = Cardinality(At(X[l], w)) + Cardinality(At(X[r], w))
  BY <1>5, <1>9 DEF P, Q
<1> QED
  BY <1>10 DEF In

(* The numerator of a cosine, and a squared norm, count the pairs of       *)
(* places that have the same word.                                         *)
LEMMA DotIs ==
    ASSUME NEW x \in Seq(Nat), NEW y \in Seq(Nat)
    PROVE  Dot(CounterOf(Analyze(x)), CounterOf(Analyze(y))) =
             Cardinality({ij \in (DOMAIN x) \X (DOMAIN y) :
                             x[ij[1]] = y[ij[2]] /\ x[ij[1]] \notin Dropped})
<1> DEFINE c == CounterOf(Analyze(x)).count
           d == CounterOf(Analyze(y)).count
           W == Promise!Words(x) \cap Promise!Words(y)
           A == [w \in W |-> At(x, w) \X At(y, w)]
           f == [w \in W |-> c[w] * d[w]]
           M == {ij \in (DOMAIN x) \X (DOMAIN y) : x[ij[1]] = y[ij[2]] /\ x[ij[1]] \notin Dropped}
<1>1. /\ DOMAIN c = Promise!Words(x) /\ \A w \in Promise!Words(x) : c[w] = Cardinality(At(x, w))
      /\ DOMAIN d = Promise!Words(y) /\ \A w \in Promise!Words(y) : d[w] = Cardinality(At(y, w))
  BY CounterIs
<1>2. Dot(CounterOf(Analyze(x)), CounterOf(Analyze(y))) = SumFunction(f)
  BY <1>1 DEF Dot
<1> HIDE DEF c, d
<1>3. IsFiniteSet(W)
  BY TextIs, FS_Subset
<1>4. ASSUME NEW w \in W
      PROVE  IsFiniteSet(A[w]) /\ c[w] * d[w] = Cardinality(A[w])
  <2>1. IsFiniteSet(At(x, w)) /\ IsFiniteSet(At(y, w))
    BY TextIs
  <2>2. /\ IsFiniteSet(At(x, w) \X At(y, w))
        /\ Cardinality(At(x, w) \X At(y, w)) = Cardinality(At(x, w)) * Cardinality(At(y, w))
    BY <2>1, FS_Product
  <2> QED
    BY <2>2, <1>1
<1>5. \A v, w \in W : v # w => A[v] \cap A[w] = {}
  BY DEF At
<1>6. UNION {A[w] : w \in W} = M
  <2>1. \A a : a \in UNION {A[w] : w \in W} <=> \E w \in W : \E i \in At(x, w) : \E j \in At(y, w) : a = <<i, j>>
    OBVIOUS
  <2>2. \A i, j : (\E w \in W : i \in At(x, w) /\ j \in At(y, w))
                  <=> i \in DOMAIN x /\ j \in DOMAIN y /\ x[i] = y[j] /\ x[i] \notin Dropped
    BY DEF At, Promise!Words
  <2>3. \A a : a \in M <=> \E i, j : /\ a = <<i, j>>
                                     /\ i \in DOMAIN x /\ j \in DOMAIN y /\ x[i] = y[j] /\ x[i] \notin Dropped
    OBVIOUS
  <2> HIDE DEF A, W, M
  <2>4. \A a : (\E w \in W : \E i \in At(x, w) : \E j \in At(y, w) : a = <<i, j>>)
               <=> \E i, j : a = <<i, j>> /\ \E w \in W : i \in At(x, w) /\ j \in At(y, w)
    BY ONLY Zenon
  <2>5. \A a : (\E i, j : a = <<i, j>> /\ \E w \in W : i \in At(x, w) /\ j \in At(y, w)) <=> a \in M
    BY ONLY <2>2, <2>3, Zenon
  <2>6. \A a : a \in UNION {A[w] : w \in W} <=> a \in M
    BY ONLY <2>1, <2>4, <2>5, Zenon
  <2> QED
    BY <2>6
<1> HIDE DEF W, A, M
<1>7. f = [w \in W |-> Cardinality(A[w])]
  BY <1>4
<1>8. \A w \in W : IsFiniteSet(A[w])
  BY <1>4
<1> HIDE DEF f
<1>9. AreSizes(f, A, W)
  BY <1>3, <1>5, <1>7, <1>8 DEF AreSizes
<1>10. SumFunction(f) = Cardinality(UNION {A[w] : w \in W})
  BY <1>9, SumIs
<1> QED
  BY <1>2, <1>6, <1>10 DEF M

(* The words that a text counts are those of the text.                     *)
LEMMA CountersAre ==
    ASSUME NEW X \in Collections, NEW d \in DOMAIN X
    PROVE  /\ X[d] \in Seq(Nat)
           /\ DOMAIN CounterOf(Analyze(X[d])).count = Promise!Words(X[d])
           /\ \A w \in Promise!Words(X[d]) : CounterOf(Analyze(X[d])).count[w] = Cardinality(At(X[d], w))
           /\ Promise!Words(X[d]) \subseteq Nat /\ IsFiniteSet(Promise!Words(X[d]))
<1>1. X[d] \in Seq(Nat)
  BY CollectionIs
<1> QED
  BY <1>1, CounterIs, TextIs

(* The comparison of two texts is correct.                                 *)
LEMMA PairIsCorrect ==
    ASSUME NEW X \in Collections, NEW l \in DOMAIN X, NEW r \in DOMAIN X, l # r
    PROVE  Promise!PairCorrect(X, l, r, Pair(CounterOf(Analyze(X[l])), CounterOf(Analyze(X[r]))))
<1> DEFINE left == CounterOf(Analyze(X[l]))
           right == CounterOf(Analyze(X[r]))
           L == Promise!Words(X[l])
           R == Promise!Words(X[r])
           both == [w \in L \cap R |-> left.count[w] + right.count[w]]
           p == Pair(left, right)
           Matches(a, b) == Cardinality({ij \in (DOMAIN X[a]) \X (DOMAIN X[b]) :
                             X[a][ij[1]] = X[b][ij[2]] /\ X[a][ij[1]] \notin Dropped})
<1>1. /\ X[l] \in Seq(Nat) /\ DOMAIN left.count = L /\ \A w \in L : left.count[w] = Cardinality(At(X[l], w))
      /\ X[r] \in Seq(Nat) /\ DOMAIN right.count = R /\ \A w \in R : right.count[w] = Cardinality(At(X[r], w))
      /\ L \subseteq Nat /\ IsFiniteSet(L) /\ R \subseteq Nat /\ IsFiniteSet(R)
  BY CountersAre
<1>2. /\ Dot(left, right) = Matches(l, r) /\ Dot(left, left) = Matches(l, l)
      /\ Dot(right, right) = Matches(r, r)
  BY <1>1, DotIs
<1>3. /\ p.shared = Ranked(L \cap R, both)
      /\ p.left_only = Ranked(L \ R, left.count)
      /\ p.right_only = Ranked(R \ L, right.count)
      /\ p.similarity = <<Dot(left, right), Dot(left, left), Dot(right, right)>>
  BY <1>1 DEF Pair
<1>4. \A w : /\ Cardinality({a \in Promise!Places(X, w) : a[1] \in {l}}) = Cardinality(At(X[l], w))
             /\ Cardinality({a \in Promise!Places(X, w) : a[1] \in {r}}) = Cardinality(At(X[r], w))
             /\ Cardinality({a \in Promise!Places(X, w) : a[1] \in {l, r}}) =
                  Cardinality(At(X[l], w)) + Cardinality(At(X[r], w))
  BY ScoresAre
<1> HIDE DEF left, right, L, R, p, Matches
<1>5. IsFiniteSet(L \cap R) /\ IsFiniteSet(L \ R) /\ IsFiniteSet(R \ L)
  BY <1>1, FS_Subset
<1>6. {l} \subseteq DOMAIN X /\ {r} \subseteq DOMAIN X /\ {l, r} \subseteq DOMAIN X
  OBVIOUS
<1>7. RankedIn(X, {l, r}, p.shared, L \cap R)
  <2> DEFINE D == {l, r}
             S == L \cap R
             f == both
  <2>1. \A w \in S : f[w] = Cardinality({a \in Promise!Places(X, w) : a[1] \in D})
    BY <1>1, <1>4
  <2>2. IsFiniteSet(S) /\ S \subseteq Nat /\ D \subseteq DOMAIN X
    BY <1>1, <1>5, <1>6
  <2> HIDE DEF D, S, f
  <2>3. RankedIn(X, D, Ranked(S, f), S)
    BY <2>1, <2>2, RankedIs
  <2>4. p.shared = Ranked(S, f)
    BY <1>3 DEF S, f
  <2> QED
    BY <2>3, <2>4 DEF D, S
<1>8. RankedIn(X, {l}, p.left_only, L \ R)
  <2> DEFINE D == {l}
             S == L \ R
             f == left.count
  <2>1. \A w \in S : f[w] = Cardinality({a \in Promise!Places(X, w) : a[1] \in D})
    BY <1>1, <1>4
  <2>2. IsFiniteSet(S) /\ S \subseteq Nat /\ D \subseteq DOMAIN X
    BY <1>1, <1>5, <1>6
  <2> HIDE DEF D, S, f
  <2>3. RankedIn(X, D, Ranked(S, f), S)
    BY <2>1, <2>2, RankedIs
  <2>4. p.left_only = Ranked(S, f)
    BY <1>3 DEF S, f
  <2> QED
    BY <2>3, <2>4 DEF D, S
<1>9. RankedIn(X, {r}, p.right_only, R \ L)
  <2> DEFINE D == {r}
             S == R \ L
             f == right.count
  <2>1. \A w \in S : f[w] = Cardinality({a \in Promise!Places(X, w) : a[1] \in D})
    BY <1>1, <1>4
  <2>2. IsFiniteSet(S) /\ S \subseteq Nat /\ D \subseteq DOMAIN X
    BY <1>1, <1>5, <1>6
  <2> HIDE DEF D, S, f
  <2>3. RankedIn(X, D, Ranked(S, f), S)
    BY <2>1, <2>2, RankedIs
  <2>4. p.right_only = Ranked(S, f)
    BY <1>3 DEF S, f
  <2> QED
    BY <2>3, <2>4 DEF D, S
<1>10. p.similarity = <<Matches(l, r), Matches(l, l), Matches(r, r)>>
  BY <1>2, <1>3
<1>11. Promise!PairCorrect(X, l, r, p)
  BY <1>7, <1>8, <1>9, <1>10, SameSize DEF Promise!PairCorrect, RankedIn, L, R, Matches
<1> QED
  BY <1>11 DEF p, left, right

(* The report that engine.py computes is correct.                          *)
LEMMA ReportIsCorrect ==
    ASSUME NEW X \in Collections, DOMAIN X # {}
    PROVE  Promise!ReportCorrect(X, ComparisonReport(Docs(X)))
<1> DEFINE docs == Docs(X)
           counters == [d \in DOMAIN docs |-> CounterOf(docs[d])]
           everywhere == {w \in UNION {DOMAIN counters[d].count : d \in DOMAIN docs} :
                          \A d \in DOMAIN docs : w \in DOMAIN counters[d].count}
           sum == [w \in everywhere |-> SumFunction([d \in DOMAIN docs |-> counters[d].count[w]])]
           o == ComparisonReport(docs)
           S == {w \in Promise!AllWords(X) : Promise!Holding(X, w) = DOMAIN X}
           ordered == {p \in (DOMAIN X) \X (DOMAIN X) : p[1] < p[2]}
<1>1. DOMAIN docs = DOMAIN X /\ \A d \in DOMAIN X : docs[d] = Analyze(X[d])
  BY DEF Docs
<1>2. o = [common |-> Ranked(everywhere, sum),
           keywords |-> [d \in DOMAIN docs |-> MostCommon(counters[d], TopN)],
           pairs |-> [lr \in {p \in (DOMAIN docs) \X (DOMAIN docs) : p[1] < p[2]} |->
                      Pair(counters[lr[1]], counters[lr[2]])]]
  BY DEF ComparisonReport
<1> HIDE DEF docs, o
<1>3. \A d \in DOMAIN X : counters[d] = CounterOf(Analyze(X[d]))
  BY <1>1
<1> HIDE DEF counters
<1>4. \A d \in DOMAIN X : /\ X[d] \in Seq(Nat)
                          /\ DOMAIN counters[d].count = Promise!Words(X[d])
                          /\ \A w \in Promise!Words(X[d]) : counters[d].count[w] = Cardinality(At(X[d], w))
  BY <1>3, CountersAre
<1>5. everywhere = S
  <2>1. UNION {DOMAIN counters[d].count : d \in DOMAIN docs} = Promise!AllWords(X)
    BY <1>1, <1>4 DEF Promise!AllWords
  <2>2. \A w : (\A d \in DOMAIN docs : w \in DOMAIN counters[d].count) <=> Promise!Holding(X, w) = DOMAIN X
    BY <1>1, <1>4 DEF Promise!Holding
  <2> QED
    BY <2>1, <2>2
<1>6. IsFiniteSet(S) /\ S \subseteq Nat
  BY CollectionIs, FS_Subset
<1>7. \A w \in S : sum[w] = Cardinality({a \in Promise!Places(X, w) : a[1] \in DOMAIN X})
  <2> SUFFICES ASSUME NEW w \in S
               PROVE  sum[w] = Cardinality({a \in Promise!Places(X, w) : a[1] \in DOMAIN X})
    OBVIOUS
  <2>1. sum[w] = SumFunction([d \in DOMAIN docs |-> counters[d].count[w]])
    BY <1>5
  <2>2. \A d \in DOMAIN X : w \in Promise!Words(X[d])
    BY DEF Promise!Holding
  <2>3. [d \in DOMAIN docs |-> counters[d].count[w]] = [d \in DOMAIN X |-> Cardinality(At(X[d], w))]
    BY <2>2, <1>1, <1>4
  <2>4. Cardinality({a \in Promise!Places(X, w) : a[1] \in DOMAIN X}) =
          SumFunction([d \in DOMAIN X |-> Cardinality(At(X[d], w))])
    BY ScoreIs
  <2> QED
    BY ONLY <2>1, <2>3, <2>4
<1> HIDE DEF everywhere, sum, S
<1>8. RankedIn(X, DOMAIN X, Ranked(S, sum), S)
  <2>1. X \in Collections /\ DOMAIN X \subseteq DOMAIN X
    OBVIOUS
  <2> QED
    BY ONLY <2>1, <1>6, <1>7, RankedIs
<1>9. \A d \in DOMAIN X :
        Promise!ListsFirst(MostCommon(counters[d], TopN), Promise!Words(X[d]),
                           LAMBDA v, w : Promise!MoreCommon(<<X[d]>>, v, w))
  BY <1>3, <1>4, KeywordsAre
<1>10. \A lr \in ordered : Promise!PairCorrect(X, lr[1], lr[2], Pair(counters[lr[1]], counters[lr[2]]))
  <2> SUFFICES ASSUME NEW lr \in ordered
               PROVE  Promise!PairCorrect(X, lr[1], lr[2], Pair(counters[lr[1]], counters[lr[2]]))
    OBVIOUS
  <2>1. lr[1] \in DOMAIN X /\ lr[2] \in DOMAIN X /\ lr[1] < lr[2]
    OBVIOUS
  <2>2. lr[1] # lr[2]
    BY <2>1, CollectionIs
  <2> QED
    BY <2>1, <2>2, <1>3, PairIsCorrect
<1>11. /\ o.common = Ranked(S, sum)
       /\ o.keywords = [d \in DOMAIN X |-> MostCommon(counters[d], TopN)]
       /\ o.pairs = [lr \in ordered |-> Pair(counters[lr[1]], counters[lr[2]])]
  BY <1>1, <1>2, <1>5
<1> HIDE DEF ordered
<1>12. /\ DOMAIN o.keywords = DOMAIN X
       /\ \A d \in DOMAIN X : o.keywords[d] = MostCommon(counters[d], TopN)
       /\ DOMAIN o.pairs = ordered
       /\ \A lr \in ordered : o.pairs[lr] = Pair(counters[lr[1]], counters[lr[2]])
  BY <1>11
<1>13. Promise!ReportCorrect(X, o)
  BY <1>8, <1>9, <1>10, <1>11, <1>12 DEF Promise!ReportCorrect, RankedIn, S, ordered
<1> QED
  BY <1>13 DEF o, docs

(* Of whatever a run may read.                                             *)
EngineAlwaysCorrect == \A X \in Readings : EngineIsCorrect(X)

(* Whatever texts are read, engine.py computes from them what counting in  *)
(* the texts says is correct.                                              *)
THEOREM EngineComputesThePromise == EngineAlwaysCorrect
<1> SUFFICES ASSUME NEW X \in Readings
             PROVE  EngineIsCorrect(X)
  BY DEF EngineAlwaysCorrect
<1>1. X \in Collections
  <2>1. PICK n \in 1..Cardinality(Policy) : X \in [1..n -> Text]
    BY DEF Readings
  <2>2. n \in Nat /\ X \in [1..n -> Seq(Nat)]
    BY <2>1, FS_CardinalityType, AnalysisAssumption
  <2> QED
    BY <2>2 DEF Collections
<1>2. Len(X) >= 2 => DOMAIN X # {}
  <2>1. DOMAIN X = 1..Len(X) /\ Len(X) \in Nat
    BY <1>1 DEF Collections
  <2> QED
    BY <2>1
<1> QED
  BY <1>1, <1>2, WordsAreCorrect, ReportIsCorrect DEF EngineIsCorrect

-----------------------------------------------------------------------------
(* The promise of AnalysisLifecycle, step by step.                         *)

(* Only a task that has succeeded shows its results.                       *)
LEMMA ShownKept ==
    ASSUME NEW t \in Task, status'[t] = status[t],
           status[t] = "succeeded" =>
               /\ kind'[t] = kind[t] /\ words'[t] = words[t]
               /\ relations'[t] = relations[t] /\ report'[t] = report[t]
    PROVE  Shown(t)' = Shown(t)
BY DEF Shown

LEMMA NothingShown ==
    ASSUME NEW t \in Task, status[t] # "succeeded", status'[t] # "succeeded"
    PROVE  Shown(t)' = Shown(t)
BY DEF Shown

(* The steps the promise does not see.                                     *)
LEMMA Unseen ==
    ASSUME UNCHANGED <<texts, status, kind, chosen, loaded>>,
           \A t \in Task : status[t] = "succeeded" =>
               words'[t] = words[t] /\ relations'[t] = relations[t] /\ report'[t] = report[t]
    PROVE  UNCHANGED Promise!vars
<1>1. \A t \in Task : Shown(t)' = Shown(t)
  BY ShownKept
<1>2. [t \in Task |-> Shown(t)]' = [t \in Task |-> Shown(t)]
  BY <1>1
<1> QED
  BY <1>2 DEF Promise!vars

LEMMA InitRefines == Init => Promise!Init
<1> SUFFICES ASSUME Init PROVE Promise!Init
  OBVIOUS
<1>1. \A t \in Task : Shown(t) = None
  BY DEF Init, Shown
<1>2. [t \in Task |-> Shown(t)] = [t \in Task |-> None]
  BY <1>1
<1> QED
  BY <1>2 DEF Init, Promise!Init

LEMMA CreateRefines ==
    ASSUME IInv, NEW th \in Request, NEW t \in Task,
           NEW k \in {"word_frequency", "policy_comparison"}, NEW ids \in Selection,
           Create(th, t, k, ids)
    PROVE  Promise!Create(t)
<1>1. /\ status[t] = "absent"
      /\ k = "policy_comparison" => Len(Unique(ids)) >= 2
      /\ status' = [status EXCEPT ![t] = "pending"] /\ kind' = [kind EXCEPT ![t] = k]
      /\ chosen' = [chosen EXCEPT ![t] = Unique(ids)]
      /\ UNCHANGED <<texts, words, relations, report, loaded>>
  BY DEF Create, IsNextId, results
<1>2. Len(Unique(ids)) >= 1
  BY UniqueIsList, Lengths
<1>3. /\ kind'[t] = k /\ chosen'[t] = Unique(ids) /\ status'[t] = "pending"
      /\ \A u \in Task \ {t} :
            status'[u] = status[u] /\ kind'[u] = kind[u] /\ chosen'[u] = chosen[u]
  BY <1>1, Typed DEF IInv, Shapes
<1>4. ASSUME NEW u \in Task
      PROVE  Shown(u)' = Shown(u)
  <2>1. CASE u = t
    BY <1>1, <1>3, <2>1, NothingShown
  <2>2. CASE u # t
    BY <1>1, <1>3, <2>2, ShownKept
  <2> QED
    BY <2>1, <2>2
<1>5. [u \in Task |-> Shown(u)]' = [u \in Task |-> Shown(u)]
  BY <1>4
<1>6. Len(chosen'[t]) >= (IF kind'[t] = "policy_comparison" THEN 2 ELSE 1)
  BY <1>1, <1>2, <1>3
<1> QED
  BY <1>1, <1>3, <1>5, <1>6 DEF Promise!Create

LEMMA ClaimRefines ==
    ASSUME IInv, NEW th \in Thread, NEW t \in Task, Claim(th, t)
    PROVE  Promise!Claim(t)
<1>1. /\ status[t] = "pending" /\ \A u \in Task : status[u] = "pending" => t <= u
      /\ status' = [status EXCEPT ![t] = "running"]
      /\ UNCHANGED <<texts, kind, chosen, words, relations, report, loaded>>
  BY DEF Claim, Pending, results
<1>2. status'[t] = "running" /\ \A u \in Task \ {t} : status'[u] = status[u]
  BY <1>1, Typed
<1>3. ASSUME NEW u \in Task
      PROVE  Shown(u)' = Shown(u)
  <2>1. CASE u = t
    BY <1>1, <1>2, <2>1, NothingShown
  <2>2. CASE u # t
    BY <1>1, <1>2, <2>2, ShownKept
  <2> QED
    BY <2>1, <2>2
<1>4. [u \in Task |-> Shown(u)]' = [u \in Task |-> Shown(u)]
  BY <1>3
<1> QED
  BY <1>1, <1>4 DEF Promise!Claim

LEMMA LoadRefines ==
    ASSUME IInv, NEW t \in Task, Load(t)
    PROVE  Promise!Read(t)
<1>1. /\ pc[t] = "load"
      /\ loaded' = [loaded EXCEPT ![t] = [i \in DOMAIN chosen[t] |-> texts[chosen[t][i]]]]
      /\ UNCHANGED <<texts, status, kind, chosen, words, relations, report>>
  BY DEF Load, rows, results
<1>2. status[t] = "running" /\ loaded[t] = None
  BY <1>1 DEF IInv, JobOK
<1>3. [u \in Task |-> Shown(u)]' = [u \in Task |-> Shown(u)]
  <2>1. \A u \in Task : Shown(u)' = Shown(u)
    BY <1>1, ShownKept
  <2> QED
    BY <2>1
<1> QED
  BY <1>1, <1>2, <1>3 DEF Promise!Read

(* The results of a run wait unseen for its last transaction.              *)
LEMMA StoresAreUnseen ==
    ASSUME IInv, NEW t \in Task, StoreResults(t) \/ StoreRelations(t) \/ StoreReport(t)
    PROVE  UNCHANGED Promise!vars
<1>1. pc[t] \in {"store", "relate"}
  BY DEF StoreResults, StoreRelations, StoreReport
<1>2. status[t] = "running"
  BY <1>1 DEF IInv, JobOK
<1>3. UNCHANGED <<texts, status, kind, chosen, loaded>>
  BY DEF StoreResults, StoreRelations, StoreReport, rows
<1>4. \A u \in Task \ {t} :
          words'[u] = words[u] /\ relations'[u] = relations[u] /\ report'[u] = report[u]
  <2>1. CASE StoreResults(t)
    BY <2>1 DEF StoreResults, IInv, Shapes
  <2>2. CASE StoreRelations(t)
    BY <2>2 DEF StoreRelations, IInv, Shapes
  <2>3. CASE StoreReport(t)
    BY <2>3 DEF StoreReport, IInv, Shapes
  <2> QED
    BY <2>1, <2>2, <2>3
<1>5. \A u \in Task : status[u] = "succeeded" =>
          words'[u] = words[u] /\ relations'[u] = relations[u] /\ report'[u] = report[u]
  BY <1>2, <1>4
<1> QED
  BY <1>3, <1>5, Unseen

(* What a run has stored when it finishes is the correct result of what it *)
(* has read.                                                               *)
LEMMA FinishedIsCorrect ==
    ASSUME IInv, NEW t \in Task, pc[t] = "finish"
    PROVE  Promise!Correct(kind[t], loaded[t],
               IF kind[t] = "policy_comparison" THEN report[t]
               ELSE [words |-> [d \in DOMAIN words[t] |-> words[t][d].map],
                     relations |-> relations[t]])
<1> DEFINE X == loaded[t]
<1>1. X \in Readings /\ DOMAIN X = DOMAIN chosen[t] /\ status[t] = "running"
  BY DEF IInv, JobOK
<1>2. /\ kind[t] \in {"word_frequency", "policy_comparison"} /\ chosen[t] \in Lists
      /\ kind[t] = "policy_comparison" => Len(chosen[t]) >= 2
  BY <1>1, RowKept
<1>3. EngineIsCorrect(X)
  BY <1>1, EngineComputesThePromise DEF EngineAlwaysCorrect
<1>4. CASE kind[t] = "word_frequency"
  <2>1. words[t] = Outcome(X).words /\ relations[t] = Outcome(X).relations
    BY <1>4 DEF IInv, JobOK
  <2>2. /\ words[t] = TfIdf(Docs(X))
        /\ relations[t] = Cooccurrence(Docs(X), TopWords(AggregateWordTotals(TfIdf(Docs(X)))))
    BY <1>1, <2>1, OutcomeIsComputed
  <2>3. Promise!WordsCorrect(X, [words |-> [d \in DOMAIN words[t] |-> words[t][d].map],
                                 relations |-> relations[t]])
    BY <1>3, <2>2 DEF EngineIsCorrect
  <2> HIDE DEF X
  <2> QED
    BY <1>4, <2>3 DEF X, Promise!Correct
<1>5. CASE kind[t] = "policy_comparison"
  <2>1. report[t] = Outcome(X).report
    BY <1>5 DEF IInv, JobOK
  <2>2. report[t] = ComparisonReport(Docs(X))
    BY <1>1, <2>1, OutcomeIsComputed
  <2>3. Len(X) >= 2
    <3>1. /\ Len(X) \in Nat /\ DOMAIN X = 1..Len(X)
          /\ Len(chosen[t]) \in Nat /\ DOMAIN chosen[t] = 1..Len(chosen[t])
      BY <1>1, <1>2, Lengths
    <3> HIDE DEF X
    <3>2. Len(chosen[t]) \in 1..Len(chosen[t])
      BY <1>2, <1>5, <3>1
    <3>3. 1..Len(chosen[t]) = 1..Len(X)
      BY <1>1, <3>1
    <3> QED
      BY <1>2, <1>5, <3>1, <3>2, <3>3
  <2>4. Promise!ReportCorrect(X, report[t])
    BY <1>3, <2>2, <2>3 DEF EngineIsCorrect
  <2> HIDE DEF X
  <2> QED
    BY <1>5, <2>4 DEF X, Promise!Correct
<1> QED
  BY <1>2, <1>4, <1>5

LEMMA SuccessRefines ==
    ASSUME IInv, NEW t \in Task, FinishSucceeded(t)
    PROVE  Promise!Succeed(t)
<1> DEFINE Result == IF kind[t] = "policy_comparison" THEN report[t]
                     ELSE [words |-> [d \in DOMAIN words[t] |-> words[t][d].map],
                           relations |-> relations[t]]
<1>1. pc[t] = "finish" /\ UNCHANGED <<texts, kind, chosen, words, relations, report, loaded>>
  BY DEF FinishSucceeded, FinishAs, results
<1>2. status[t] = "running" /\ status' = [status EXCEPT ![t] = "succeeded"]
  BY <1>1, FinishStep DEF FinishSucceeded
<1>3. status'[t] = "succeeded" /\ \A u \in Task \ {t} : status'[u] = status[u]
  BY <1>2, Typed
<1>4. loaded[t] # None
  <2>1. loaded[t] \in Readings
    BY <1>1 DEF IInv, JobOK
  <2> QED
    BY <2>1, AnalysisAssumption DEF AnalysisAssumption
<1>5. \A u \in Task \ {t} : Shown(u)' = Shown(u)
  BY <1>1, <1>3, ShownKept
<1>6. Shown(t)' = Result
  BY <1>1, <1>3 DEF Shown
<1>7. Promise!Correct(kind[t], loaded[t], Result)
  BY <1>1, FinishedIsCorrect
<1> HIDE DEF Result
<1>8. /\ \A u \in Task \ {t} : [v \in Task |-> Shown(v)]'[u] = [v \in Task |-> Shown(v)][u]
      /\ [v \in Task |-> Shown(v)]'[t] = Result
  BY <1>5, <1>6
<1> QED
  BY <1>1, <1>2, <1>4, <1>7, <1>8 DEF Promise!Succeed

LEMMA FailureRefines ==
    ASSUME IInv, NEW T \in SUBSET Task, T # {}, \A t \in T : status[t] = "running",
           status' = [t \in Task |-> IF t \in T THEN "failed" ELSE status[t]],
           UNCHANGED <<texts, kind, chosen, words, relations, report, loaded>>
    PROVE  Promise!Fail(T)
<1>1. ASSUME NEW u \in Task
      PROVE  Shown(u)' = Shown(u)
  <2>1. CASE u \in T
    BY <2>1, NothingShown
  <2>2. CASE u \notin T
    BY <2>2, ShownKept
  <2> QED
    BY <2>1, <2>2
<1>2. [u \in Task |-> Shown(u)]' = [u \in Task |-> Shown(u)]
  BY <1>1
<1> QED
  BY <1>2 DEF Promise!Fail

(* A run that fails, and the start that gives up what was interrupted.     *)
LEMMA FailSteps ==
    ASSUME IInv, Boot \/ \E t \in Task : FinishFailed(t)
    PROVE  (\E T \in SUBSET Task : Promise!Fail(T)) \/ UNCHANGED Promise!vars
<1>1. ASSUME NEW t \in Task, FinishFailed(t)
      PROVE  \E T \in SUBSET Task : Promise!Fail(T)
  <2>1. /\ pc[t] = "handler" /\ FinishAs(t, "failed")
        /\ UNCHANGED <<texts, kind, chosen, words, relations, report, loaded>>
    BY <1>1 DEF FinishFailed, FinishAs, results
  <2>2. status[t] = "running" /\ status' = [status EXCEPT ![t] = "failed"]
    BY <2>1, FinishStep
  <2>3. status' = [u \in Task |-> IF u \in {t} THEN "failed" ELSE status[u]]
    BY <2>2, Typed
  <2>4. /\ {t} \in SUBSET Task /\ {t} # {}
        /\ \A u \in {t} : status[u] = "running"
    BY <2>2
  <2>5. Promise!Fail({t})
    BY <2>1, <2>3, <2>4, FailureRefines
  <2> QED
    BY <2>4, <2>5
<1>2. CASE Boot
  <2> DEFINE T == {t \in Task : status[t] = "running"}
  <2>1. /\ status' = [t \in Task |-> IF status[t] = "running" THEN "failed" ELSE status[t]]
        /\ UNCHANGED <<texts, kind, chosen, words, relations, report, loaded>>
    BY <1>2 DEF Boot, results
  <2>2. T \in SUBSET Task /\ \A t \in T : status[t] = "running"
    OBVIOUS
  <2>3. status' = [t \in Task |-> IF t \in T THEN "failed" ELSE status[t]]
    BY <2>1
  <2>4. CASE T # {}
    <3> HIDE DEF T
    <3> QED
      BY <2>1, <2>2, <2>3, <2>4, FailureRefines
  <2>5. CASE T = {}
    <3>1. status' = status
      <4> HIDE DEF T
      <4> QED
        BY <2>3, <2>5, Typed
    <3> QED
      BY <2>1, <3>1, Unseen
  <2> QED
    BY <2>4, <2>5
<1> QED
  BY <1>1, <1>2

LEMMA StepRefines ==
    IInv /\ [Next]_vars => [Promise!Next]_Promise!vars
<1> SUFFICES ASSUME IInv, [Next]_vars
             PROVE  Promise!Next \/ UNCHANGED Promise!vars
  OBVIOUS
<1>1. ASSUME UNCHANGED <<texts, rows, results, loaded>>
      PROVE  UNCHANGED Promise!vars
  BY <1>1, Unseen DEF rows, results
<1>2. CASE UNCHANGED vars
  BY <1>1, <1>2 DEF vars
<1>3. CASE \E th \in Request, t \in Task, ids \in Selection :
              \/ Create(th, t, "word_frequency", ids)
              \/ Create(th, t, "policy_comparison", ids)
  BY <1>3, CreateRefines DEF Promise!Next
<1>4. ASSUME NEW p \in Policy, NEW x \in Text, Rewrite(p, x)
      PROVE  Promise!Next
  <2>1. /\ texts' = [texts EXCEPT ![p] = x]
        /\ UNCHANGED <<status, kind, chosen, words, relations, report, loaded>>
    BY <1>4 DEF Rewrite, rows, results
  <2>2. DOMAIN texts' = Policy
    BY <2>1, Typed
  <2>3. [u \in Task |-> Shown(u)]' = [u \in Task |-> Shown(u)]
    <3>1. \A u \in Task : Shown(u)' = Shown(u)
      BY <2>1, ShownKept
    <3> QED
      BY <3>1
  <2>4. Promise!Rewrite
    BY <2>1, <2>2, <2>3 DEF Promise!Rewrite
  <2> QED
    BY <2>4 DEF Promise!Next
<1>5. ASSUME NEW th \in Thread, SubmitNext(th) \/ ClaimFails(th)
      PROVE  Promise!Next \/ UNCHANGED Promise!vars
  <2>1. ASSUME NEW t \in Task, Claim(th, t)
        PROVE  Promise!Next
    BY <2>1, ClaimRefines DEF Promise!Next
  <2>2. CASE NothingToClaim(th) \/ Register(th) \/ ClaimFails(th)
    BY <1>1, <2>2 DEF NothingToClaim, Register, ClaimFails
  <2> QED
    BY <1>5, <2>1, <2>2 DEF SubmitNext
<1>6. ASSUME NEW t \in Task, Job(t) \/ Failure(t)
      PROVE  Promise!Next \/ UNCHANGED Promise!vars
  <2>1. CASE Load(t)
    BY <2>1, LoadRefines DEF Promise!Next
  <2>2. CASE StoreResults(t) \/ StoreRelations(t) \/ StoreReport(t)
    BY <2>2, StoresAreUnseen
  <2>3. CASE FinishSucceeded(t)
    BY <2>3, SuccessRefines DEF Promise!Next
  <2>4. CASE FinishFailed(t)
    BY <2>4, FailSteps DEF Promise!Next
  <2>5. CASE StartJob(t) \/ StartFails(t) \/ RunFails(t) \/ HandlerFails(t) \/ Discard(t)
    BY <1>1, <2>5 DEF StartJob, StartFails, RunFails, HandlerFails, Discard
  <2> QED
    BY <1>6, <2>1, <2>2, <2>3, <2>4, <2>5 DEF Job, Failure
<1>7. CASE Boot
  BY <1>7, FailSteps DEF Promise!Next
<1>8. CASE Shutdown \/ Exit \/ Crash
  BY <1>1, <1>8 DEF Shutdown, Exit, Crash
<1> QED
  BY <1>2, <1>3, <1>4, <1>5, <1>6, <1>7, <1>8 DEF Next

(* The tasks keep the promise: whatever fails or dies between transactions *)
(* of a run, and whatever collection rewrites meanwhile, what a task that  *)
(* has succeeded shows is the whole correct result of one reading of its   *)
(* policies; tasks are claimed oldest first and none changes once it has   *)
(* ended (worker.py, runner.py, repository.py).                            *)
THEOREM Implementation == Spec => ImplementsAnalysis
<1>1. Init => Promise!Init
  BY InitRefines
<1>2. IInv /\ [Next]_vars => [Promise!Next]_Promise!vars
  BY StepRefines
<1> QED
  BY <1>1, <1>2, Invariance, PTL DEF Spec, ImplementsAnalysis, Promise!Spec
===============================================================================
