---------------------------- MODULE ArticleProofs ----------------------------
(***************************************************************************)
(* Proofs about what becomes of articles, for every value of the constants. *)
(* PolicyStore: no text is lost, a policy never falls back to a lesser     *)
(* source or an earlier crawl, and an article that is collected again      *)
(* changes nothing. Collection: a start that succeeds has completed every  *)
(* scenario, a verified seed is judged, and a body keeps its text.         *)
(***************************************************************************)
EXTENDS PolicyStore, Collection, SequenceTheorems, FiniteSetTheorems, WellFoundedInduction, TLAPS

-----------------------------------------------------------------------------
(* The store of policies.                                                  *)

\* The rows the look-up by meeting finds.
Matches(a) ==
    {p \in Ids : policies[p].title = a.title /\ UtcDay(policies[p].at) = BeijingDay(a.at)}

\* Collected again, the report finds the row that has its content.
Settled(r) ==
    /\ ~Foreign(r)
    /\ SameUrl(r) # {}
    /\ policies[First(SameUrl(r))].hash = r.hash

\* What was stored or updated last is settled, unless a report of the night
\* is in the table.
LastIsSettled ==
    (/\ last # NoWrite
     /\ last.outcome \in {"stored", "updated"}
     /\ \A p \in Ids : ByDay(policies[p].at))
    => Settled(last.report)

\* No row falls back in this step.
RowsRise ==
    \A p \in Ids :
        /\ policies'[p].source # policies[p].source =>
              Priority(policies'[p].source) > Priority(policies[p].source)
        /\ policies'[p].crawled >= policies[p].crawled

IInv == TypeOK /\ NothingIsLost /\ LastIsSettled

-----------------------------------------------------------------------------
(* The operators of the look-up.                                           *)

(* A set of natural numbers that is not empty has a least member.          *)
LEMMA LeastExists ==
    ASSUME NEW S, S \subseteq Nat, S # {}
    PROVE  \E x \in S : \A y \in S : x =< y
<1> DEFINE R == OpToRel(<, Nat)
<1>1. IsWellFoundedOn(R, Nat)
  BY NatLessThanWellFounded, Zenon
<1> HIDE DEF R
<1>2. PICK x \in S : \A y \in S : ~ (<<y, x>> \in R)
  BY <1>1, WFMin
<1>3. ASSUME NEW y \in S
      PROVE  x =< y
  <2>1. ~ (<<y, x>> \in R)
    BY <1>2
  <2>2. x \in Nat /\ y \in Nat
    OBVIOUS
  <2>3. ~ (y < x)
    BY <2>1, <2>2 DEF R, OpToRel
  <2> QED
    BY <2>2, <2>3
<1> QED
  BY <1>2, <1>3

(* First is the least member of a set of ids, and 0 if there is none.      *)
LEMMA FirstIsLeast ==
    ASSUME NEW S, S \subseteq Nat \ {0}
    PROVE  /\ First(S) = 0 <=> S = {}
           /\ S # {} => First(S) \in S /\ \A x \in S : First(S) =< x
<1>1. CASE S = {}
  BY <1>1 DEF First
<1>2. CASE S # {}
  <2>1. \E x \in S : \A y \in S : x =< y
    BY <1>2, LeastExists
  <2>2. First(S) \in S /\ \A x \in S : First(S) =< x
    BY <1>2, <2>1 DEF First, Min
  <2> QED
    BY <1>2, <2>2
<1> QED
  BY <1>1, <1>2

(* The only member of a set is the first.                                  *)
LEMMA FirstOfOne ==
    ASSUME NEW p \in Nat \ {0}
    PROVE  First({p}) = p
BY FirstIsLeast

LEMMA IdsAreNumbers ==
    ASSUME TypeOK
    PROVE  /\ Len(policies) \in 0..MaxPolicy
           /\ Ids = 1..Len(policies)
           /\ Ids \subseteq 1..MaxPolicy
           /\ Ids \subseteq Nat \ {0}
           /\ \A p \in Ids : policies[p] \in Article
<1>1. policies \in Seq(Article) /\ Len(policies) <= MaxPolicy /\ MaxPolicy \in Nat
  BY StoreAssumption DEF TypeOK, StoreAssumption
<1>2. Len(policies) \in Nat /\ Ids = 1..Len(policies)
  BY <1>1, LenProperties DEF Ids
<1>3. \A p \in Ids : policies[p] \in Article
  BY <1>1, <1>2, ElementOfSeq
<1> QED
  BY <1>1, <1>2, <1>3

LEMMA LookUps ==
    ASSUME TypeOK, NEW a
    PROVE  /\ Meeting(a) = 0 <=> Matches(a) = {}
           /\ Meeting(a) # 0 => Meeting(a) \in Matches(a) /\ \A q \in Matches(a) : Meeting(a) =< q
           /\ Matches(a) \subseteq Ids /\ SameUrl(a) \subseteq Ids /\ SameHash(a) \subseteq Ids
           /\ Known(a) = 0 <=> SameUrl(a) = {} /\ SameHash(a) = {}
           /\ SameUrl(a) # {} => Known(a) = First(SameUrl(a)) /\ Known(a) \in SameUrl(a)
           /\ SameUrl(a) = {} /\ Known(a) # 0 => Known(a) \in SameHash(a)
<1>1. /\ Matches(a) \subseteq Ids /\ SameUrl(a) \subseteq Ids /\ SameHash(a) \subseteq Ids
  BY DEF Matches, SameUrl, SameHash
<1>2. Ids \subseteq Nat \ {0}
  BY IdsAreNumbers
<1>3. Meeting(a) = First(Matches(a))
  BY DEF Meeting, Matches
<1>4. /\ First(Matches(a)) = 0 <=> Matches(a) = {}
      /\ Matches(a) # {} => /\ First(Matches(a)) \in Matches(a)
                            /\ \A q \in Matches(a) : First(Matches(a)) =< q
  BY <1>1, <1>2, FirstIsLeast
<1>5. /\ First(SameUrl(a)) = 0 <=> SameUrl(a) = {}
      /\ SameUrl(a) # {} => First(SameUrl(a)) \in SameUrl(a)
  BY <1>1, <1>2, FirstIsLeast
<1>6. /\ First(SameHash(a)) = 0 <=> SameHash(a) = {}
      /\ SameHash(a) # {} => First(SameHash(a)) \in SameHash(a)
  BY <1>1, <1>2, FirstIsLeast
<1> QED
  BY <1>1, <1>3, <1>4, <1>5, <1>6 DEF Known

(* A report finds what the article found.                                  *)
LEMMA ReportsFindTheSame ==
    ASSUME NEW a \in Article, NEW r, r = Report(a)
    PROVE  /\ Meeting(r) = Meeting(a) /\ Foreign(r) = Foreign(a)
           /\ SameUrl(r) = SameUrl(a) /\ Known(r) = Known(a) /\ r.hash = a.hash
<1>1. /\ r.source = a.source /\ r.url = a.url /\ r.title = a.title
      /\ r.at = a.at /\ r.hash = a.hash
  BY DEF Report
<1> QED
  BY <1>1 DEF Meeting, Foreign, SameUrl, SameHash, Known

-----------------------------------------------------------------------------
(* What a write does to the rows.                                          *)

LEMMA ReplaceRow ==
    ASSUME TypeOK, NEW p \in Ids, NEW new \in Article,
           policies' = [policies EXCEPT ![p] = new]
    PROVE  /\ policies' \in Seq(Article) /\ Len(policies') = Len(policies)
           /\ Ids' = Ids
           /\ \A q \in Ids : policies'[q] = IF q = p THEN new ELSE policies[q]
<1>1. policies \in Seq(Article) /\ p \in 1..Len(policies) /\ Ids = 1..Len(policies)
  BY IdsAreNumbers DEF TypeOK
<1>2. /\ policies' \in Seq(Article) /\ Len(policies') = Len(policies)
      /\ \A q \in 1..Len(policies) : policies'[q] = IF q = p THEN new ELSE policies[q]
  BY <1>1, ExceptSeq
<1>3. Ids' = 1..Len(policies')
  BY <1>2, LenProperties DEF Ids
<1> QED
  BY <1>1, <1>2, <1>3

LEMMA AppendRow ==
    ASSUME TypeOK, NEW a \in Article, policies' = Append(policies, a)
    PROVE  /\ policies' \in Seq(Article) /\ Len(policies') = Len(policies) + 1
           /\ Ids' = Ids \cup {Len(policies) + 1} /\ Len(policies) + 1 \notin Ids
           /\ \A q \in Ids : policies'[q] = policies[q]
           /\ policies'[Len(policies) + 1] = a
<1>1. policies \in Seq(Article) /\ Len(policies) \in Nat /\ Ids = 1..Len(policies)
  BY IdsAreNumbers DEF TypeOK
<1>2. /\ policies' \in Seq(Article) /\ Len(policies') = Len(policies) + 1
      /\ \A q \in 1..Len(policies) : policies'[q] = policies[q]
      /\ policies'[Len(policies) + 1] = a
  BY <1>1, AppendProperties
<1>3. Ids' = 1..Len(policies')
  BY <1>2, LenProperties DEF Ids
<1> QED
  BY <1>1, <1>2, <1>3

(* The crawl time a row takes is never before the one it had.              *)
LEMMA LatestIsLatest ==
    ASSUME TypeOK, NEW a \in Article, NEW p \in Ids
    PROVE  Latest(a, p) \in Crawl /\ Latest(a, p) >= policies[p].crawled
<1>1. a.crawled \in Crawl /\ policies[p].crawled \in Crawl
  BY IdsAreNumbers DEF Article
<1> QED
  BY <1>1, StoreAssumption DEF Latest, Crawl, StoreAssumption

(* The row an article becomes.                                             *)
LEMMA UpgradedRow ==
    ASSUME TypeOK, NEW a \in Article, NEW p \in Ids,
           NEW new, new = [a EXCEPT !.crawled = Latest(a, p)]
    PROVE  /\ new \in Article
           /\ new.source = a.source /\ new.url = a.url /\ new.title = a.title
           /\ new.at = a.at /\ new.hash = a.hash
           /\ new.crawled >= policies[p].crawled
<1>1. Latest(a, p) \in Crawl /\ Latest(a, p) >= policies[p].crawled
  BY LatestIsLatest
<1> QED
  BY <1>1 DEF Article

LEMMA ReportType ==
    ASSUME NEW a \in Article
    PROVE  Report(a) \in [source : Source, url : Url, title : Title, at : Slot, hash : Hash]
BY DEF Article, Report

(* All contents after a replacement: the new one is written, the old one   *)
(* goes to the revisions, the other rows keep theirs.                      *)
LEMMA ReplaceLosesNothing ==
    ASSUME TypeOK, NothingIsLost, NEW p \in Ids, NEW new \in Article, Replace(p, new)
    PROVE  /\ NothingIsLost'
           /\ revisions' \subseteq (1..MaxPolicy) \X Hash /\ written' \subseteq (1..MaxPolicy) \X Hash
<1>1. /\ policies' = [policies EXCEPT ![p] = new]
      /\ revisions' = revisions \cup {<<p, policies[p].hash>>}
      /\ written' = written \cup {<<p, new.hash>>}
  BY DEF Replace
<1>2. Ids' = Ids /\ \A q \in Ids : policies'[q] = IF q = p THEN new ELSE policies[q]
  BY <1>1, ReplaceRow
<1>3. {<<q, policies'[q].hash>> : q \in Ids'} \cup {<<p, policies[p].hash>>}
        = {<<q, policies[q].hash>> : q \in Ids} \cup {<<p, new.hash>>}
  BY <1>2
<1>4. NothingIsLost'
  <2>1. written = revisions \cup {<<q, policies[q].hash>> : q \in Ids}
    BY DEF NothingIsLost
  <2>2. written' = revisions' \cup {<<q, policies'[q].hash>> : q \in Ids'}
    BY <1>1, <1>3, <2>1
  <2> QED
    BY <2>2 DEF NothingIsLost
<1>5. p \in 1..MaxPolicy /\ policies[p].hash \in Hash /\ new.hash \in Hash
  BY IdsAreNumbers DEF Article
<1> QED
  BY <1>1, <1>4, <1>5 DEF TypeOK

(* A row that takes over the article leaves it with a row of its source at *)
(* its meeting, if none of another source was there.                       *)
LEMMA MeetingStaysHome ==
    ASSUME TypeOK, TypeOK', NEW a \in Article, ~Foreign(a),
           NEW p \in Ids', policies'[p].source = a.source,
           p \in Matches(a) => p \in Matches(a)',
           \A q \in Ids \ {p} : q \in Ids' /\ policies'[q] = policies[q],
           Ids' \subseteq Ids \cup {p}
    PROVE  ~Foreign(a)'
<1> SUFFICES ASSUME Meeting(a)' # 0, policies'[Meeting(a)'].source # a.source
             PROVE  FALSE
  BY DEF Foreign
<1>1. Meeting(a)' \in Matches(a)' /\ \A q \in Matches(a)' : Meeting(a)' =< q
  <2>1. Meeting(a)' = First(Matches(a)')
    BY DEF Meeting, Matches
  <2>2. Ids' = 1..Len(policies') /\ Len(policies') \in Nat
    BY LenProperties DEF TypeOK, Ids
  <2>3. Matches(a)' \subseteq Nat \ {0}
    BY <2>2 DEF Matches
  <2> QED
    BY <2>1, <2>3, FirstIsLeast
<1>2. Meeting(a)' # p
  OBVIOUS
<1>3. Meeting(a)' \in Matches(a)
  BY <1>1, <1>2 DEF Matches
<1>4. Meeting(a) # 0 /\ Meeting(a) \in Matches(a) /\ Meeting(a) =< Meeting(a)'
  BY <1>3, LookUps
<1>5. Meeting(a) \in Matches(a)'
  BY <1>4 DEF Matches
<1>6. Meeting(a)' = Meeting(a)
  <2>1. Matches(a) \subseteq Nat /\ Matches(a) \subseteq Ids
    BY LookUps, IdsAreNumbers
  <2> QED
    BY <1>1, <1>3, <1>4, <1>5, <2>1
<1>7. policies[Meeting(a)].source = a.source
  BY <1>4 DEF Foreign
<1>8. Meeting(a) \in Ids
  BY <1>4 DEF Matches
<1> QED
  BY <1>2, <1>6, <1>7, <1>8

-----------------------------------------------------------------------------
(* Every write keeps the invariant and lets no row fall back.              *)

LEMMA AnswerType ==
    ASSUME NEW a \in Article, NEW outcome \in Outcome, Answer(a, outcome)
    PROVE  /\ last'.report = Report(a) /\ last'.outcome = outcome
           /\ last'.report \in [source : Source, url : Url, title : Title, at : Slot, hash : Hash]
           /\ last'.outcome \in Outcome
<1>1. last'.report = Report(a) /\ last'.outcome = outcome
  BY DEF Answer
<1> QED
  BY <1>1, ReportType

(* An article that changes no row and is neither stored nor an update.     *)
LEMMA UnchangedStep ==
    ASSUME IInv, NEW a \in Article, NEW outcome \in {"duplicate", "conflict"}, Answer(a, outcome),
           UNCHANGED <<policies, revisions, written>>
    PROVE  IInv' /\ RowsRise
<1>1. last'.outcome = outcome /\ outcome \in Outcome /\ TypeOK'
  BY AnswerType DEF IInv, TypeOK, Outcome
<1>2. NothingIsLost' /\ LastIsSettled'
  BY <1>1 DEF IInv, NothingIsLost, LastIsSettled, Ids
<1>3. RowsRise
  <2>1. \A p \in Ids : policies[p].crawled \in Nat
    BY IdsAreNumbers, StoreAssumption DEF IInv, Article, Crawl, StoreAssumption
  <2> QED
    BY <2>1 DEF RowsRise
<1> QED
  BY <1>1, <1>2, <1>3 DEF IInv

LEMMA UpgradeMeetingStep ==
    ASSUME IInv, NEW a \in Article, Foreign(a), UpgradeMeeting(a)
    PROVE  IInv' /\ RowsRise
<1> DEFINE m == Meeting(a)
           new == Upgraded(a, m)
<1>1. m # 0 /\ m \in Matches(a) /\ (\A q \in Matches(a) : m =< q) /\ m \in Ids
  BY LookUps DEF Foreign, IInv, Matches
<1>2. /\ Outranks(a, m) /\ SameUrl(a) = {} /\ Replace(m, new) /\ Answer(a, "updated")
      /\ policies' = [policies EXCEPT ![m] = new]
  BY DEF UpgradeMeeting, Replace
<1>3. new = [a EXCEPT !.crawled = Latest(a, m)]
  BY DEF Upgraded
<1> HIDE DEF m, new
<1>4. /\ new \in Article
      /\ new.source = a.source /\ new.url = a.url /\ new.title = a.title
      /\ new.at = a.at /\ new.hash = a.hash
      /\ new.crawled >= policies[m].crawled
  BY <1>1, <1>3, UpgradedRow DEF IInv
<1>5. /\ policies' \in Seq(Article) /\ Len(policies') = Len(policies) /\ Ids' = Ids
      /\ \A q \in Ids : policies'[q] = IF q = m THEN new ELSE policies[q]
  BY <1>1, <1>2, <1>4, ReplaceRow DEF IInv
<1>6. /\ NothingIsLost'
      /\ revisions' \subseteq (1..MaxPolicy) \X Hash /\ written' \subseteq (1..MaxPolicy) \X Hash
  BY <1>1, <1>2, <1>4, ReplaceLosesNothing DEF IInv
<1>7. /\ last'.report = Report(a) /\ last'.outcome = "updated"
      /\ last'.report \in [source : Source, url : Url, title : Title, at : Slot, hash : Hash]
      /\ last'.outcome \in Outcome
  BY <1>2, AnswerType DEF Outcome
<1>8. TypeOK'
  BY <1>5, <1>6, <1>7 DEF TypeOK, IInv
<1>9. LastIsSettled'
  <2> SUFFICES ASSUME \A p \in Ids' : ByDay(policies'[p].at)
               PROVE  Settled(Report(a))'
    BY <1>7 DEF LastIsSettled
  <2>1. Matches(a)' = Matches(a)
    <3>1. policies'[m].title = a.title /\ UtcDay(policies'[m].at) = BeijingDay(a.at)
      BY <1>1, <1>4, <1>5 DEF ByDay
    <3> QED
      BY <1>1, <1>5, <3>1 DEF Matches
  <2>2. Meeting(a)' = m
    <3>1. Meeting(a)' = First(Matches(a)') /\ Meeting(a) = First(Matches(a))
      BY DEF Meeting, Matches
    <3> QED
      BY <2>1, <3>1 DEF m
  <2>3. ~Foreign(a)'
    BY <1>1, <1>4, <1>5, <2>2 DEF Foreign
  <2>4. SameUrl(a)' = {m}
    BY <1>1, <1>2, <1>4, <1>5 DEF SameUrl
  <2>5. First(SameUrl(a)') = m
    BY <1>1, <2>4, FirstOfOne, IdsAreNumbers DEF IInv
  <2>6. policies'[m].hash = a.hash
    BY <1>1, <1>4, <1>5
  <2>7. Foreign(Report(a))' = Foreign(a)' /\ SameUrl(Report(a))' = SameUrl(a)' /\ Report(a).hash = a.hash
    BY DEF Foreign, Meeting, SameUrl, Report
  <2> QED
    BY <2>3, <2>4, <2>5, <2>6, <2>7 DEF Settled
<1>10. RowsRise
  <2>1. Priority(new.source) > Priority(policies[m].source)
    BY <1>2, <1>4 DEF Outranks
  <2>2. \A p \in Ids : policies[p].crawled \in Nat
    BY IdsAreNumbers, StoreAssumption DEF IInv, Article, Crawl, StoreAssumption
  <2> QED
    BY <1>4, <1>5, <2>1, <2>2 DEF RowsRise
<1> QED
  BY <1>6, <1>8, <1>9, <1>10 DEF IInv

LEMMA StoreStep ==
    ASSUME IInv, NEW a \in Article, ~Foreign(a), Store(a)
    PROVE  IInv' /\ RowsRise
<1> DEFINE n == Len(policies) + 1
<1>1. /\ Known(a) = 0 /\ Len(policies) < MaxPolicy /\ policies' = Append(policies, a)
      /\ written' = written \cup {<<n, a.hash>>} /\ revisions' = revisions
      /\ Answer(a, "stored")
  BY DEF Store
<1>2. /\ policies' \in Seq(Article) /\ Len(policies') = n
      /\ Ids' = Ids \cup {n} /\ n \notin Ids
      /\ \A q \in Ids : policies'[q] = policies[q]
      /\ policies'[n] = a
  BY <1>1, AppendRow DEF IInv
<1>3. n \in 1..MaxPolicy
  BY <1>1, IdsAreNumbers, StoreAssumption DEF IInv, StoreAssumption
<1> HIDE DEF n
<1>4. /\ last'.report = Report(a) /\ last'.outcome = "stored"
      /\ last'.report \in [source : Source, url : Url, title : Title, at : Slot, hash : Hash]
      /\ last'.outcome \in Outcome
  BY <1>1, AnswerType DEF Outcome
<1>5. TypeOK'
  <2>1. a.hash \in Hash /\ n <= MaxPolicy
    BY <1>3 DEF Article
  <2>2. written' \subseteq (1..MaxPolicy) \X Hash
    BY <1>1, <1>3, <2>1 DEF IInv, TypeOK
  <2> QED
    BY <1>1, <1>2, <1>4, <2>1, <2>2 DEF IInv, TypeOK
<1>6. NothingIsLost'
  <2>1. {<<q, policies'[q].hash>> : q \in Ids'} = {<<q, policies[q].hash>> : q \in Ids} \cup {<<n, a.hash>>}
    BY <1>2
  <2> QED
    BY <1>1, <2>1 DEF IInv, NothingIsLost
<1>7. LastIsSettled'
  <2>1. SameUrl(a) = {}
    BY <1>1, LookUps DEF IInv
  <2>2. SameUrl(a)' = {n}
    BY <1>2, <2>1 DEF SameUrl
  <2>3. First(SameUrl(a)') = n
    BY <1>3, <2>2, FirstOfOne
  <2>4. n \notin Matches(a)
    BY <1>2 DEF Matches
  <2>5. ~Foreign(a)'
    BY <1>2, <1>5, <2>4, MeetingStaysHome DEF IInv
  <2>6. Foreign(Report(a))' = Foreign(a)' /\ SameUrl(Report(a))' = SameUrl(a)' /\ Report(a).hash = a.hash
    BY DEF Foreign, Meeting, SameUrl, Report
  <2>7. Settled(Report(a))'
    BY <1>2, <2>2, <2>3, <2>5, <2>6 DEF Settled
  <2> QED
    BY <1>4, <2>7 DEF LastIsSettled
<1>8. RowsRise
  <2>1. \A p \in Ids : policies[p].crawled \in Nat
    BY IdsAreNumbers, StoreAssumption DEF IInv, Article, Crawl, StoreAssumption
  <2> QED
    BY <1>2, <2>1 DEF RowsRise
<1> QED
  BY <1>5, <1>6, <1>7, <1>8 DEF IInv

LEMMA SameContentStep ==
    ASSUME IInv, NEW a \in Article, SameContent(a)
    PROVE  IInv' /\ RowsRise
<1> DEFINE k == Known(a)
           new == [policies[k] EXCEPT !.crawled = Latest(a, k)]
<1>1. /\ k # 0 /\ policies' = [policies EXCEPT ![k].crawled = Latest(a, k)]
      /\ Answer(a, "duplicate") /\ revisions' = revisions /\ written' = written
  BY DEF SameContent
<1>2. k \in Ids
  BY <1>1, LookUps DEF IInv
<1>3. policies' = [policies EXCEPT ![k] = new]
  BY <1>1
<1>4. Latest(a, k) \in Crawl /\ Latest(a, k) >= policies[k].crawled /\ policies[k] \in Article
  BY <1>2, LatestIsLatest, IdsAreNumbers DEF IInv
<1>5. new \in Article /\ new.hash = policies[k].hash /\ new.source = policies[k].source
      /\ new.crawled >= policies[k].crawled
  BY <1>4 DEF Article
<1> HIDE DEF k, new
<1>6. /\ policies' \in Seq(Article) /\ Len(policies') = Len(policies) /\ Ids' = Ids
      /\ \A q \in Ids : policies'[q] = IF q = k THEN new ELSE policies[q]
  BY <1>2, <1>3, <1>5, ReplaceRow DEF IInv
<1>7. /\ last'.outcome = "duplicate"
      /\ last'.report \in [source : Source, url : Url, title : Title, at : Slot, hash : Hash]
      /\ last'.outcome \in Outcome
  BY <1>1, AnswerType DEF Outcome
<1>8. TypeOK' /\ LastIsSettled'
  BY <1>1, <1>6, <1>7 DEF IInv, TypeOK, LastIsSettled
<1>9. NothingIsLost'
  <2>1. {<<q, policies'[q].hash>> : q \in Ids'} = {<<q, policies[q].hash>> : q \in Ids}
    BY <1>5, <1>6
  <2> QED
    BY <1>1, <2>1 DEF IInv, NothingIsLost
<1>10. RowsRise
  <2>1. \A p \in Ids : policies[p].crawled \in Nat
    BY IdsAreNumbers, StoreAssumption DEF IInv, Article, Crawl, StoreAssumption
  <2> QED
    BY <1>5, <1>6, <2>1 DEF RowsRise
<1> QED
  BY <1>8, <1>9, <1>10 DEF IInv

LEMMA UpdateContentStep ==
    ASSUME IInv, NEW a \in Article, ~Foreign(a), UpdateContent(a)
    PROVE  IInv' /\ RowsRise
<1> DEFINE k == Known(a)
           new == [a EXCEPT !.crawled = Latest(a, k)]
<1>1. /\ k # 0 /\ policies[k].hash # a.hash /\ Replace(k, new) /\ Answer(a, "updated")
      /\ policies' = [policies EXCEPT ![k] = new]
  BY DEF UpdateContent, Replace
<1>2. /\ SameUrl(a) # {} /\ k = First(SameUrl(a)) /\ k \in SameUrl(a) /\ k \in Ids
  BY <1>1, LookUps DEF IInv, SameHash
<1>3. policies[k].source = a.source /\ policies[k].url = a.url
  BY <1>2 DEF SameUrl
<1>4. /\ new \in Article
      /\ new.source = a.source /\ new.url = a.url /\ new.title = a.title
      /\ new.at = a.at /\ new.hash = a.hash
      /\ new.crawled >= policies[k].crawled
  BY <1>2, UpgradedRow DEF IInv
<1> HIDE DEF k, new
<1>5. /\ policies' \in Seq(Article) /\ Len(policies') = Len(policies) /\ Ids' = Ids
      /\ \A q \in Ids : policies'[q] = IF q = k THEN new ELSE policies[q]
  BY <1>1, <1>2, <1>4, ReplaceRow DEF IInv
<1>6. /\ NothingIsLost'
      /\ revisions' \subseteq (1..MaxPolicy) \X Hash /\ written' \subseteq (1..MaxPolicy) \X Hash
  BY <1>1, <1>2, <1>4, ReplaceLosesNothing DEF IInv
<1>7. /\ last'.report = Report(a) /\ last'.outcome = "updated"
      /\ last'.report \in [source : Source, url : Url, title : Title, at : Slot, hash : Hash]
      /\ last'.outcome \in Outcome
  BY <1>1, AnswerType DEF Outcome
<1>8. TypeOK'
  BY <1>5, <1>6, <1>7 DEF TypeOK, IInv
<1>9. LastIsSettled'
  <2> SUFFICES ASSUME \A p \in Ids' : ByDay(policies'[p].at)
               PROVE  Settled(Report(a))'
    BY <1>7 DEF LastIsSettled
  <2>1. SameUrl(a)' = SameUrl(a)
    BY <1>2, <1>3, <1>4, <1>5 DEF SameUrl
  <2>2. policies'[k].source = a.source /\ policies'[k].hash = a.hash
    BY <1>2, <1>4, <1>5
  <2>3. k \in Matches(a)'
    BY <1>2, <1>4, <1>5 DEF Matches, ByDay
  <2>4. /\ k \in Ids' /\ Ids' \subseteq Ids \cup {k}
        /\ \A q \in Ids \ {k} : q \in Ids' /\ policies'[q] = policies[q]
    BY <1>2, <1>5
  <2>5. ~Foreign(a)'
    BY <1>8, <2>2, <2>3, <2>4, MeetingStaysHome DEF IInv
  <2>6. Foreign(Report(a))' = Foreign(a)' /\ SameUrl(Report(a))' = SameUrl(a)' /\ Report(a).hash = a.hash
    BY DEF Foreign, Meeting, SameUrl, Report
  <2> QED
    BY <1>2, <2>1, <2>2, <2>5, <2>6 DEF Settled
<1>10. RowsRise
  <2>1. \A p \in Ids : policies[p].crawled \in Nat
    BY IdsAreNumbers, StoreAssumption DEF IInv, Article, Crawl, StoreAssumption
  <2> QED
    BY <1>3, <1>4, <1>5, <2>1 DEF RowsRise
<1> QED
  BY <1>6, <1>8, <1>9, <1>10 DEF IInv

-----------------------------------------------------------------------------
(* The invariant holds of every behaviour.                                 *)

LEMMA InitHolds == Init => IInv
<1> SUFFICES ASSUME Init
             PROVE  IInv
  OBVIOUS
<1>1. policies = <<>> /\ revisions = {} /\ written = {} /\ last = NoWrite
  BY DEF Init
<1>2. policies \in Seq(Article) /\ Len(policies) = 0
  BY <1>1, EmptySeq
<1>3. TypeOK
  BY <1>1, <1>2, StoreAssumption DEF TypeOK, StoreAssumption
<1>4. Ids = {}
  BY <1>2, <1>3, IdsAreNumbers
<1>5. NothingIsLost /\ LastIsSettled
  BY <1>1, <1>4 DEF NothingIsLost, LastIsSettled
<1> QED
  BY <1>3, <1>5 DEF IInv

LEMMA WriteHolds ==
    ASSUME IInv, NEW a \in Article, Upsert(a)
    PROVE  IInv' /\ RowsRise
<1>1. CASE Foreign(a) /\ ForeignDuplicate(a)
  BY <1>1, UnchangedStep DEF ForeignDuplicate
<1>2. CASE Foreign(a) /\ WriteConflict(a)
  BY <1>2, UnchangedStep DEF WriteConflict
<1>3. CASE Foreign(a) /\ UpgradeMeeting(a)
  BY <1>3, UpgradeMeetingStep
<1>4. CASE ~Foreign(a) /\ Store(a)
  BY <1>4, StoreStep
<1>5. CASE ~Foreign(a) /\ SameContent(a)
  BY <1>5, SameContentStep
<1>6. CASE ~Foreign(a) /\ UpdateContent(a)
  BY <1>6, UpdateContentStep
<1> QED
  BY <1>1, <1>2, <1>3, <1>4, <1>5, <1>6 DEF Upsert, AcrossSources, WithinSource

LEMMA StepHolds == IInv /\ [Next]_vars => IInv'
<1> SUFFICES ASSUME IInv, [Next]_vars
             PROVE  IInv'
  OBVIOUS
<1>1. CASE Next
  BY <1>1, WriteHolds DEF Next
<1>2. CASE UNCHANGED vars
  BY <1>2 DEF vars, IInv, TypeOK, NothingIsLost, LastIsSettled, Settled, Foreign, Meeting, SameUrl, Ids
<1> QED
  BY <1>1, <1>2

LEMMA Invariance == Spec => []IInv
BY InitHolds, StepHolds, PTL DEF Spec

(* The types of the rows, of the revisions and of the histories.           *)
THEOREM TypesHold == Spec => []TypeOK
<1>1. IInv => TypeOK
  BY DEF IInv
<1> QED
  BY <1>1, Invariance, PTL

(* Whatever is written in whatever order, every content a policy ever had  *)
(* is its present one or among its revisions (create_revision before       *)
(* update_from_write).                                                     *)
THEOREM TextsAreKept == Spec => []NothingIsLost
<1>1. IInv => NothingIsLost
  BY DEF IInv
<1> QED
  BY <1>1, Invariance, PTL

(* A policy changes its source only for a more authoritative one, and its  *)
(* last_crawled_at never goes back (_upgrade_meeting, max of crawl times). *)
THEOREM RowsNeverFallBack == Spec => PoliciesNeverFallBack
<1>1. IInv /\ [Next]_vars => [RowsRise]_vars
  BY WriteHolds DEF Next
<1> QED
  BY <1>1, Invariance, PTL DEF Spec, PoliciesNeverFallBack, RowsRise

(* An article that is collected again right after it was stored or has     *)
(* updated its row changes nothing but a crawl time.                       *)
THEOREM RepeatsAreDuplicates == Spec => RepeatIsDuplicate
<1> DEFINE Again == /\ \A p \in Ids : ByDay(policies[p].at)
                    /\ last # NoWrite
                    /\ last.outcome \in {"stored", "updated"}
                    /\ last'.report = last.report
           Same == /\ last'.outcome = "duplicate"
                   /\ Len(policies') = Len(policies)
                   /\ \A p \in Ids : Report(policies'[p]) = Report(policies[p])
<1>1. ASSUME IInv, NEW a \in Article, Upsert(a), Again
      PROVE  Same
  <2>1. last'.report = Report(a)
    BY <1>1 DEF Upsert, AcrossSources, WithinSource, ForeignDuplicate, UpgradeMeeting, WriteConflict,
                Store, SameContent, UpdateContent, Answer
  <2>2. Settled(last.report) /\ last.report = Report(a)
    BY <1>1, <2>1 DEF IInv, LastIsSettled
  <2>3. ~Foreign(a) /\ SameUrl(a) # {} /\ policies[First(SameUrl(a))].hash = a.hash
    BY <2>2, ReportsFindTheSame DEF Settled
  <2>4. Known(a) # 0 /\ Known(a) \in Ids /\ policies[Known(a)].hash = a.hash
    BY <1>1, <2>3, LookUps DEF IInv
  <2>5. SameContent(a)
    BY <1>1, <2>3, <2>4 DEF Upsert, AcrossSources, WithinSource, Store, UpdateContent
  <2> DEFINE new == [policies[Known(a)] EXCEPT !.crawled = Latest(a, Known(a))]
  <2>6. last'.outcome = "duplicate" /\ policies' = [policies EXCEPT ![Known(a)] = new]
    BY <2>5 DEF SameContent, Answer
  <2>7. new \in Article /\ Report(new) = Report(policies[Known(a)])
    <3>1. Latest(a, Known(a)) \in Crawl /\ policies[Known(a)] \in Article
      BY <1>1, <2>4, LatestIsLatest, IdsAreNumbers DEF IInv
    <3> QED
      BY <3>1 DEF Article, Report
  <2>8. /\ Len(policies') = Len(policies)
        /\ \A q \in Ids : policies'[q] = IF q = Known(a) THEN new ELSE policies[q]
    BY <1>1, <2>4, <2>6, <2>7, ReplaceRow DEF IInv
  <2> QED
    BY <2>6, <2>7, <2>8
<1>2. IInv /\ [Next]_vars => [Again => Same]_vars
  BY <1>1 DEF Next
<1> QED
  BY <1>2, Invariance, PTL DEF Spec, RepeatIsDuplicate

-----------------------------------------------------------------------------
(* The collection of articles: its inductive invariant.                     *)

\* The seeds that are packaged, and the rows a table of candidates can have.
PackagedSeed == UNION {Range(Scenario[n].seeds) : n \in DOMAIN Scenario}

CandidateRow == {SeedCandidate(seed) : seed \in PackagedSeed} \cup {Ordinary(url) : url \in Address}

\* The codes of classify, and how an item ends.
Reason ==
    {"DOMAIN_NOT_ALLOWED", "TITLE_NOT_MATCHED", "EXCLUDED_KEYWORD", "VIDEO_ONLY", "LEAD_NOT_MATCHED",
     "SOURCE_NOT_OFFICIAL", "PUBLISHED_AT_MISSING", "OUTSIDE_WINDOW", "CONTENT_TOO_SHORT"}

Code == Reason \cup {"SEED_MISMATCH", "WEBFETCH", "CANDIDATE_INVALID", "REFUSED", "STORED"}

RuleName == {None} \cup {Scenario[n].name : n \in DOMAIN Scenario}

OneEach(seeds) == \A i, j \in DOMAIN seeds : seeds[i].url = seeds[j].url => i = j

\* The rules have packaged seeds only, each address once.
RulesSound ==
    /\ rules \in Seq([name : RuleName, seeds : Seq(PackagedSeed)]) /\ Len(rules) <= MaxRules
    /\ \A r \in DOMAIN rules : OneEach(rules[r].seeds)

\* A rule is complete for a scenario.
Complete(r, n) ==
    /\ rules[r].name = Scenario[n].name
    /\ \A i \in DOMAIN Scenario[n].seeds : \E j \in DOMAIN rules[r].seeds :
         rules[r].seeds[j].url = Scenario[n].seeds[i].url

\* The scenarios before the one being brought up have their rules; this one has its
\* rule when its seeds are due.
BootSound ==
    /\ boot = None \/ boot \in [at : DOMAIN Scenario, import : BOOLEAN]
    /\ boot # None =>
         /\ boot.import => rule \in DOMAIN rules /\ rules[rule].name = Scenario[boot.at].name
         /\ \A n \in DOMAIN Scenario : n < boot.at => \E r \in DOMAIN rules : Complete(r, n)

CatalogueInv ==
    /\ domains = None \/ domains \subseteq Host
    /\ edits \in 0..MaxEdits /\ crashes \in 0..MaxCrashes
    /\ RulesSound
    /\ BootSound

InWindow(seed) == Lower <= seed.day /\ seed.day <= Upper

\* The table of candidates has the frozen seeds of the window, as verified ones.
SeedsAreFound ==
    \A seed \in Range(task.seeds) : InWindow(seed) =>
        \E i \in DOMAIN found : Canonical(found[i].url) = seed.url /\ found[i].verified

\* Where the run is, in its table of candidates and among the addresses.
RunSound ==
    /\ phase \in Phase
    /\ attempt \in 1..MaxAttempts /\ entry \in 1..Len(Entries) + 1
    /\ verdict \in {None, "succeeded", "partially_succeeded", "failed"}
    /\ phase = "none" => results = <<>> /\ stored = None /\ entry = 1 /\ attempt = 1
    /\ phase = "entry" => entry \in DOMAIN Entries
    /\ found \in Seq(CandidateRow)
    /\ results \in Seq(Code) /\ Len(results) <= Len(found)
    /\ phase \in {"extract", "html"} => Len(results) < Len(found)

\* Every frozen seed of the window has a candidate, and no candidate is forgotten.
SeedsSound ==
    /\ phase # "none" => SeedsAreFound
    /\ phase = "done" =>
         /\ Len(results) = Len(found)
         /\ \A i \in DOMAIN found : found[i].verified => results[i] = "STORED" \/ verdict = "failed"

\* What was accepted has a text, and a publisher.
ArticleSound ==
    phase = "html" => article.text \in Seq(Piece) /\ Publisher(article) # None

RunInv ==
    /\ RunSound
    /\ SeedsSound
    /\ ArticleSound
    /\ BodyIsKept

CollectionIInv == CatalogueInv /\ RunInv

-----------------------------------------------------------------------------
(* Least and greatest places, and selections from sequences.               *)

(* Min is the least member of a set of natural numbers.                    *)
LEMMA MinIsLeast ==
    ASSUME NEW S, S \subseteq Nat, S # {}
    PROVE  Min(S) \in S /\ \A x \in S : Min(S) <= x
<1>1. \E z \in S : \A y \in S : z <= y
  BY LeastExists
<1> QED
  BY <1>1 DEF Min

(* Max is the greatest member of a bounded one.                            *)
LEMMA MaxIsGreatest ==
    ASSUME NEW n \in Nat, NEW S, S \subseteq 0..n, S # {}
    PROVE  Max(S) \in S /\ \A x \in S : x <= Max(S)
<1> DEFINE Bounds == {b \in Nat : \A x \in S : x <= b}
           m == Min(Bounds)
<1>1. n \in Bounds
  OBVIOUS
<1>2. m \in Bounds /\ \A b \in Bounds : m <= b
  BY <1>1, MinIsLeast
<1>3. m \in Nat /\ \A x \in S : x <= m
  BY <1>2
<1>4. m \in S
  <2> SUFFICES ASSUME m \notin S
               PROVE  FALSE
    OBVIOUS
  <2>1. \A x \in S : x <= m - 1 /\ x \in Nat
    BY <1>3
  <2>2. m - 1 \in Bounds
    <3>1. PICK x \in S : TRUE
      OBVIOUS
    <3>2. x <= m - 1 /\ x \in Nat
      BY <2>1
    <3> HIDE DEF m
    <3>3. m - 1 \in Nat
      BY <3>2, <1>3
    <3> QED
      BY <3>3, <2>1
  <2> HIDE DEF m
  <2> QED
    BY <2>2, <1>2, <1>3
<1>5. \E z \in S : \A y \in S : y <= z
  BY <1>3, <1>4
<1> QED
  BY <1>5 DEF Max

(* Selected goes through its places once each, upwards.                    *)
LEMMA SelectedIs ==
    ASSUME NEW s, NEW n \in Nat, NEW K, K \subseteq 1..n
    PROVE  /\ Cardinality(K) \in Nat
           /\ \E f \in [1..Cardinality(K) -> K] :
                /\ Selected(s, K) = [k \in 1..Cardinality(K) |-> s[f[k]]]
                /\ \A i \in K : \E k \in 1..Cardinality(K) : f[k] = i
                /\ \A k, l \in 1..Cardinality(K) : k < l => f[k] < f[l]
<1> DEFINE c == Cardinality(K)
           Before(i) == {j \in K : j <= i}
           rank == [i \in K |-> Cardinality(Before(i))]
           Nth(k) == CHOOSE i \in K : Cardinality(Before(i)) = k
           f == [k \in 1..c |-> Nth(k)]
<1>1. IsFiniteSet(K) /\ c \in Nat
  <2>1. IsFiniteSet(1..n)
    BY FS_Interval
  <2> QED
    BY <2>1, FS_Subset, FS_CardinalityType
<1>2. ASSUME NEW i \in K
      PROVE  /\ IsFiniteSet(Before(i)) /\ Cardinality(Before(i)) \in 1..c
  <2>1. IsFiniteSet(Before(i)) /\ Cardinality(Before(i)) <= c
    BY <1>1, FS_Subset
  <2>2. i \in Before(i)
    OBVIOUS
  <2>3. Cardinality(Before(i)) \in Nat /\ Cardinality(Before(i)) # 0
    BY <2>1, <2>2, FS_CardinalityType, FS_EmptySet
  <2> HIDE DEF Before
  <2> QED
    BY <2>1, <2>3, <1>1
<1>3. ASSUME NEW i \in K, NEW j \in K, i < j
      PROVE  Cardinality(Before(i)) < Cardinality(Before(j))
  <2>0. i \in Nat /\ j \in Nat /\ K \subseteq Nat
    OBVIOUS
  <2>1. Before(i) \subseteq Before(j) /\ j \in Before(j) /\ j \notin Before(i)
    <3>1. \A x \in K : x <= i => x <= j
      BY <1>3, <2>0
    <3>2. ~ (j <= i) /\ j <= j
      BY <1>3, <2>0
    <3> QED
      BY <3>1, <3>2
  <2>2. Cardinality(Before(i)) <= Cardinality(Before(j))
    BY <2>1, <1>2, FS_Subset
  <2>3. Cardinality(Before(i)) # Cardinality(Before(j))
    BY <2>1, <1>2, FS_Subset
  <2>4. Cardinality(Before(i)) \in Nat /\ Cardinality(Before(j)) \in Nat
    BY <1>2
  <2> HIDE DEF Before
  <2> QED
    BY <2>2, <2>3, <2>4
<1>4. rank \in [K -> 1..c]
  BY <1>2
<1>5. \A i, j \in K : rank[i] = rank[j] => i = j
  <2> SUFFICES ASSUME NEW i \in K, NEW j \in K, i # j
               PROVE  rank[i] # rank[j]
    OBVIOUS
  <2>1. i \in Nat /\ j \in Nat
    OBVIOUS
  <2>2. rank[i] \in Nat /\ rank[j] \in Nat
    BY <1>4
  <2>3. CASE i < j
    <3>1. rank[i] < rank[j]
      BY <1>3, <2>3
    <3> HIDE DEF rank
    <3> QED
      BY <3>1, <2>2
  <2>4. CASE j < i
    <3>1. rank[j] < rank[i]
      BY <1>3, <2>4
    <3> HIDE DEF rank
    <3> QED
      BY <3>1, <2>2
  <2> QED
    BY <2>1, <2>3, <2>4
<1>6. \A k \in 1..c : \E i \in K : rank[i] = k
  <2>1. rank \in Injection(K, 1..c)
    BY <1>4, <1>5, Zenon DEF Injection, IsInjective
  <2>2. IsFiniteSet(1..c) /\ Cardinality(1..c) = c
    BY <1>1, FS_Interval
  <2>3. rank \in Surjection(K, 1..c)
    BY <2>1, <2>2, FS_Injection
  <2> HIDE DEF rank
  <2> QED
    BY <2>3 DEF Surjection
<1>7. ASSUME NEW k \in 1..c
      PROVE  f[k] \in K /\ rank[f[k]] = k
  <2>1. \E i \in K : Cardinality(Before(i)) = k
    BY <1>6
  <2>2. Nth(k) \in K /\ Cardinality(Before(Nth(k))) = k
    BY <2>1
  <2> HIDE DEF Nth, Before
  <2> QED
    BY <2>2
<1>8. Selected(s, K) = [k \in 1..c |-> s[f[k]]]
  BY DEF Selected
<1>9. \A i \in K : f[rank[i]] = i
  <2> HIDE DEF f, rank
  <2> QED
    BY <1>4, <1>5, <1>7
<1>10. \A k, l \in 1..c : k < l => f[k] < f[l]
  <2> SUFFICES ASSUME NEW k \in 1..c, NEW l \in 1..c, k < l
               PROVE  f[k] < f[l]
    OBVIOUS
  <2>1. f[k] \in K /\ f[l] \in K /\ rank[f[k]] = k /\ rank[f[l]] = l
    BY <1>7
  <2>2. f[k] # f[l]
    <3> HIDE DEF f, rank
    <3> QED
      BY <2>1
  <2>3. ~ (f[l] < f[k])
    <3> SUFFICES ASSUME f[l] < f[k]
                 PROVE  FALSE
      OBVIOUS
    <3>1. Cardinality(Before(f[l])) < Cardinality(Before(f[k]))
      <4> HIDE DEF f, Before
      <4> QED
        BY <2>1, <1>3
    <3>2. rank[f[l]] < rank[f[k]]
      <4> HIDE DEF f, Before
      <4> QED
        BY <3>1, <2>1
    <3> HIDE DEF f, rank
    <3> QED
      BY <3>2, <2>1
  <2>4. f[k] \in Nat /\ f[l] \in Nat
    <3>1. K \subseteq Nat
      OBVIOUS
    <3> HIDE DEF f
    <3> QED
      BY <2>1, <3>1
  <2> HIDE DEF f, rank
  <2> QED
    BY <2>2, <2>3, <2>4
<1>11. f \in [1..c -> K]
  BY <1>7
<1>12. \A i \in K : \E k \in 1..c : f[k] = i
  <2> HIDE DEF f, rank
  <2> QED
    BY <1>9, <1>4
<1> HIDE DEF f, rank
<1> QED
  BY <1>1, <1>8, <1>10, <1>11, <1>12

(* It has only what is there: a selection of a sequence is one too.        *)
LEMMA SelectedSeq ==
    ASSUME NEW S, NEW s \in Seq(S), NEW K, K \subseteq DOMAIN s
    PROVE  /\ Selected(s, K) \in Seq(S)
           /\ Range(Selected(s, K)) = {s[i] : i \in K}
<1>1. DOMAIN s = 1..Len(s) /\ Len(s) \in Nat /\ K \subseteq 1..Len(s)
  OBVIOUS
<1> DEFINE c == Cardinality(K)
<1>2. /\ c \in Nat
      /\ \E f \in [1..c -> K] :
                /\ Selected(s, K) = [k \in 1..c |-> s[f[k]]]
                /\ \A i \in K : \E k \in 1..c : f[k] = i
  <2> HIDE DEF c
  <2>1. /\ Cardinality(K) \in Nat
        /\ \E f \in [1..Cardinality(K) -> K] :
                /\ Selected(s, K) = [k \in 1..Cardinality(K) |-> s[f[k]]]
                /\ \A i \in K : \E k \in 1..Cardinality(K) : f[k] = i
                /\ \A k, l \in 1..Cardinality(K) : k < l => f[k] < f[l]
    BY <1>1, SelectedIs
  <2> QED
    BY <2>1 DEF c
<1>3. PICK f \in [1..c -> K] :
                /\ Selected(s, K) = [k \in 1..c |-> s[f[k]]]
                /\ \A i \in K : \E k \in 1..c : f[k] = i
  BY <1>2
<1> HIDE DEF c
<1>4. \A k \in 1..c : s[f[k]] \in S
  BY <1>3, <1>1
<1>5. Selected(s, K) \in [1..c -> S]
  BY <1>3, <1>4
<1>6. Selected(s, K) \in Seq(S)
  BY <1>5, <1>2
<1>7. DOMAIN Selected(s, K) = 1..c
  BY <1>5
<1>8. Range(Selected(s, K)) = {s[i] : i \in K}
  BY <1>3, <1>7 DEF Range
<1> QED
  BY <1>6, <1>8

-----------------------------------------------------------------------------
(* Bodies: what cleaning keeps. `places` is a set of places of a text.      *)

(* A place is in its line, and the places of a line have the same line.    *)
LEMMA LineIs ==
    ASSUME NEW s, NEW places, places \subseteq Nat, NEW k \in places, s[k] # "break"
    PROVE  /\ k \in Line(s, places, k)
           /\ \A j \in Line(s, places, k) : /\ j \in places /\ s[j] # "break"
                                            /\ Line(s, places, j) = Line(s, places, k)
<1>1. k \in Line(s, places, k)
  <2>1. (k..k) \cup (k..k) = {k}
    OBVIOUS
  <2> QED
    BY <2>1 DEF Line
<1>2. ASSUME NEW j \in Line(s, places, k)
      PROVE  /\ j \in places /\ s[j] # "break"
             /\ Line(s, places, j) = Line(s, places, k)
  <2>1. j \in places /\ \A i \in (j..k) \cup (k..j) : s[i] # "break"
    BY <1>2 DEF Line
  <2>2. j \in Nat /\ k \in Nat
    BY <2>1
  <2>3. j \in (j..k) \cup (k..j)
    BY <2>2
  <2>4. ASSUME NEW h \in places
        PROVE  h \in Line(s, places, j) <=> h \in Line(s, places, k)
    <3>1. h \in Nat
      OBVIOUS
    <3>2. ASSUME NEW i \in (h..j) \cup (j..h)
          PROVE  i \in (h..k) \cup (k..h) \cup (j..k) \cup (k..j)
      BY <3>1, <2>2
    <3>3. ASSUME NEW i \in (h..k) \cup (k..h)
          PROVE  i \in (h..j) \cup (j..h) \cup (j..k) \cup (k..j)
      BY <3>1, <2>2
    <3> QED
      BY <3>2, <3>3, <2>1 DEF Line
  <2> QED
    BY <2>1, <2>3, <2>4 DEF Line
<1> QED
  BY <1>1, <1>2

\* A place that is the beginning of what stays, in a line that is not all decoration.
Leads(s, places, m) ==
    /\ s[m] # "break" /\ \A j \in places : m <= j
    /\ \E e \in places : s[e] \notin Decor /\ \A i \in m..e : s[i] # "break"

(* Between takes whole lines from both ends: what stays has each place of  *)
(* a line that is neither credits nor decoration, and one at the front.    *)
LEMMA BetweenIs ==
    ASSUME NEW s, NEW places, places \subseteq Nat
    PROVE  LET B == Between(s, places) IN
           /\ B \subseteq places
           /\ \A k \in places :
                /\ s[k] # "break" /\ ~ IsCredit(s, Line(s, places, k))
                /\ \E j \in Line(s, places, k) : s[j] \notin Decor
                => k \in B
           /\ B # {} => \E m \in B : Leads(s, B, m)
<1> DEFINE B == Between(s, places)
           worded == {k \in places : s[k] # "break" /\ ~ IsCredit(s, Line(s, places, k))}
           first == {k \in worded : \E j \in Line(s, places, k) : s[j] \notin Decor}
<1>1. B = {k \in places : (\E i \in first : i <= k) /\ (\E i \in worded : k <= i)}
  BY DEF Between
<1>2. worded \subseteq places /\ first \subseteq worded
  OBVIOUS
<1>3. first \subseteq B
  <2> HIDE DEF B, worded, first
  <2> QED
    BY <1>1, <1>2
<1>4. ASSUME B # {}
      PROVE  \E m \in B : Leads(s, B, m)
  <2> DEFINE m == Min(first)
  <2>1. first # {} /\ first \subseteq Nat
    <3> HIDE DEF B, worded, first
    <3> QED
      BY <1>1, <1>2, <1>4
  <2>2. m \in first /\ \A x \in first : m <= x
    <3> HIDE DEF first
    <3> QED
      BY <2>1, MinIsLeast
  <2> HIDE DEF m
  <2>3. m \in places /\ s[m] # "break" /\ m \in B /\ m \in Nat
    <3>1. m \in worded /\ m \in B
      BY <2>2, <1>3
    <3> QED
      BY <3>1
  <2>4. \A j \in B : m <= j
    <3> SUFFICES ASSUME NEW j \in B
                 PROVE  m <= j
      OBVIOUS
    <3>1. PICK i \in first : i <= j
      BY <1>1
    <3>2. i \in Nat /\ j \in Nat /\ m <= i
      <4> HIDE DEF first, B
      <4> QED
        BY <1>1, <2>1, <2>2
    <3> QED
      BY <3>1, <3>2, <2>3
  <2>5. PICK e \in Line(s, places, m) : s[e] \notin Decor
    BY <2>2
  <2>6. /\ e \in places /\ s[e] # "break" /\ Line(s, places, e) = Line(s, places, m)
        /\ e \in Line(s, places, e)
    <3>1. /\ m \in Line(s, places, m)
          /\ \A j \in Line(s, places, m) : /\ j \in places /\ s[j] # "break"
                                           /\ Line(s, places, j) = Line(s, places, m)
      BY <2>3, LineIs
    <3> QED
      BY <3>1, <2>5
  <2>7. e \in first
    <3>1. m \in worded
      BY <2>2
    <3>2. e \in worded
      BY <3>1, <2>6
    <3> QED
      BY <3>2, <2>5, <2>6
  <2>8. \A i \in m..e : s[i] # "break"
    BY <2>5 DEF Line
  <2>9. e \in B
    BY <2>7, <1>3
  <2> HIDE DEF B
  <2> QED
    BY <2>3, <2>4, <2>5, <2>8, <2>9 DEF Leads
<1>5. B \subseteq places
  BY <1>1
<1>6. ASSUME NEW k \in places, s[k] # "break", ~ IsCredit(s, Line(s, places, k)),
             \E j \in Line(s, places, k) : s[j] \notin Decor
      PROVE  k \in B
  BY <1>3, <1>6
<1> HIDE DEF B
<1> QED
  BY <1>4, <1>5, <1>6 DEF B

(* What stays has all between two of its places.                           *)
LEMMA BetweenHasAll ==
    ASSUME NEW s, NEW places, places \subseteq Nat,
           NEW x \in Between(s, places), NEW y \in Between(s, places),
           NEW h \in places, x <= h, h <= y
    PROVE  h \in Between(s, places)
<1> DEFINE worded == {k \in places : s[k] # "break" /\ ~ IsCredit(s, Line(s, places, k))}
           first == {k \in worded : \E j \in Line(s, places, k) : s[j] \notin Decor}
<1>1. Between(s, places) = {k \in places : (\E i \in first : i <= k) /\ (\E i \in worded : k <= i)}
  BY DEF Between
<1>2. worded \subseteq Nat /\ first \subseteq Nat
  OBVIOUS
<1> HIDE DEF worded, first
<1>3. x \in Nat /\ y \in Nat /\ h \in Nat /\ (\E i \in first : i <= x) /\ (\E i \in worded : y <= i)
  BY <1>1
<1>4. (\E i \in first : i <= h) /\ (\E i \in worded : h <= i)
  <2>1. PICK i \in first : i <= x
    BY <1>3
  <2>2. PICK j \in worded : y <= j
    BY <1>3
  <2>3. i \in Nat /\ j \in Nat
    BY <1>2, <2>1, <2>2
  <2>4. i <= h /\ h <= j
    BY <1>3, <2>1, <2>2, <2>3
  <2> QED
    BY <2>1, <2>2, <2>4
<1> QED
  BY <1>1, <1>4

\* What BodyIsKept says of a text and the places kept of it, but that there are any.
IsBody(s, kept) ==
    /\ Owed(s) \subseteq kept
    /\ \A k \in kept : s[k] \in Sign \cup {"break"} => \E j \in kept : j < k
    /\ \A k \in kept : s[k] = "break" => \E j \in kept : k < j
    /\ \A i, j, k \in kept : i < j /\ j < k => \E h \in kept : i <= h /\ h <= k /\ s[h] # "break"

(* What is owed of a text is not in a line of credits, nor is its line all *)
(* decoration.                                                             *)
LEMMA OwedIs ==
    ASSUME NEW s \in Seq(Piece), NEW k \in Owed(s)
    PROVE  /\ k \in Inline(s) /\ s[k] \in {"text", "date"}
           /\ k \in Between(s, Inline(s))
           /\ s[k] = "date" =>
                /\ k + 1 \in Between(s, Inline(s)) /\ s[k + 1] = "text"
                /\ \A j \in 1..k : s[j] \in Sign => \E h \in j..k : s[h] = "break"
<1> DEFINE P == Inline(s)
           L == Line(s, P, k)
<1>0. Len(s) \in Nat /\ DOMAIN s = 1..Len(s)
  OBVIOUS
<1>1. /\ k \in 1..Len(s) /\ ~ Credited(s, k)
      /\ \A j \in 1..k : s[j] # "next"
      /\ \/ s[k] = "text"
         \/ /\ s[k] = "date" /\ k < Len(s) /\ s[k + 1] = "text"
            /\ \A j \in 1..k : s[j] \in Sign => \E h \in j..k : s[h] = "break"
  BY <1>0 DEF Owed
<1>2. P \subseteq Nat /\ P \subseteq 1..Len(s)
  BY <1>0 DEF Inline
<1>3. k \in P /\ s[k] \in {"text", "date"}
  BY <1>0, <1>1 DEF Inline
<1>4. k \in L
  BY <1>2, <1>3, LineIs
<1>5. ~ IsCredit(s, L)
  <2> SUFFICES ASSUME IsCredit(s, L)
               PROVE  FALSE
    OBVIOUS
  <2>1. CASE \E j \in L : s[j] = "seal" /\ L = {j}
    BY <2>1, <1>3, <1>4
  <2>2. CASE \E j \in L : s[j] = "label" /\ \A i \in L : j <= i
    <3>1. PICK j \in L : s[j] = "label" /\ \A i \in L : j <= i
      BY <2>2
    <3>2. j \in 1..k /\ j \in P
      <4>1. j <= k /\ j \in P
        BY <3>1, <1>4 DEF Line
      <4> QED
        BY <4>1, <1>1, <1>2
    <3>3. \A h \in j..k : s[h] # "break"
      BY <3>1 DEF Line
    <3>4. ASSUME NEW i \in 1..j - 1, s[i] \notin {"mark", "block"}, \A h \in i..j : s[h] # "break"
          PROVE  FALSE
      <4>1. i \in 1..Len(s) /\ i < j /\ i < k
        BY <3>2, <1>1
      <4>2. i \in P
        BY <4>1, <3>4, <1>0, <1>1 DEF Inline
      <4>3. \A h \in (i..k) \cup (k..i) : s[h] # "break"
        <5> SUFFICES ASSUME NEW h \in (i..k) \cup (k..i)
                     PROVE  h \in i..j \/ h \in j..k
          BY <3>3, <3>4
        <5> QED
          BY <4>1, <3>2, <1>1
      <4>4. i \in L
        BY <4>2, <4>3 DEF Line
      <4> QED
        BY <4>4, <4>1, <3>1, <3>2
    <3>5. Credited(s, k)
      BY <3>1, <3>2, <3>3, <3>4 DEF Credited
    <3> QED
      BY <3>5, <1>1
  <2> QED
    BY <2>1, <2>2 DEF IsCredit
<1>6. CASE s[k] = "text"
  <2>1. s[k] \notin Decor /\ s[k] # "break"
    BY <1>6 DEF Decor
  <2> HIDE DEF P, L
  <2>2. k \in Between(s, P)
    BY <2>1, <1>2, <1>3, <1>4, <1>5, BetweenIs DEF L
  <2> QED
    BY <2>2, <1>3, <1>6 DEF P
<1>7. CASE s[k] = "date"
  <2>1. /\ k + 1 \in 1..Len(s) /\ s[k + 1] = "text"
        /\ \A j \in 1..k : s[j] \in Sign => \E h \in j..k : s[h] = "break"
    BY <1>1, <1>7
  <2>2. k + 1 \in P
    BY <1>0, <1>1, <2>1 DEF Inline
  <2>3. k + 1 \in L
    <3>1. \A h \in (k + 1..k) \cup (k..k + 1) : h = k \/ h = k + 1
      BY <1>1
    <3> QED
      BY <3>1, <2>1, <2>2, <1>7 DEF Line
  <2>4. s[k + 1] \notin Decor /\ s[k + 1] # "break" /\ s[k] # "break"
    BY <2>1, <1>7 DEF Decor
  <2>5. Line(s, P, k + 1) = L
    <3>1. \A j \in L : Line(s, P, j) = L
      BY <1>2, <1>3, <2>4, LineIs
    <3> QED
      BY <3>1, <2>3
  <2> HIDE DEF P
  <2>6. k \in Between(s, P)
    BY <2>3, <2>4, <1>2, <1>3, <1>5, BetweenIs
  <2>7. k + 1 \in Between(s, P)
    BY <2>2, <2>3, <2>4, <2>5, <1>2, <1>5, BetweenIs
  <2> QED
    BY <2>1, <2>6, <2>7, <1>3 DEF P
<1> QED
  BY <1>3, <1>6, <1>7

(* Of every text, the cleaning keeps what is owed; it begins and ends as a *)
(* body does, and has no two blank lines beside each other.                *)
LEMMA CleanIs ==
    ASSUME NEW s \in Seq(Piece)
    PROVE  IsBody(s, Clean(s))
<1> DEFINE P == Inline(s)
           B == Between(s, P)
           H == WithoutHeader(s, B)
           W == WithoutId(s, H)
           K == OneBlank(s, W)
           D == Header(s, B)
<1>1. Clean(s) = K
  BY DEF Clean
<1>2. P \subseteq Nat
  <2>1. DOMAIN s = 1..Len(s) /\ Len(s) \in Nat
    OBVIOUS
  <2> QED
    BY <2>1 DEF Inline
<1>3. B \subseteq P /\ (B # {} => \E m \in B : Leads(s, B, m))
  <2> HIDE DEF P
  <2> QED
    BY <1>2, BetweenIs
<1>4. B \subseteq Nat
  BY <1>2, <1>3
<1>5. \A k : k \in D <=> k \in B /\ \A j \in B : j <= k => s[j] \in Decor
  <2> HIDE DEF B
  <2> QED
    BY DEF Header
<1>6. H = IF \E k \in D : s[k] \in Sign THEN B \ D ELSE B
  BY DEF WithoutHeader
<1>7. W = {k \in H : s[k] = "id" => \E j \in H : k < j}
  BY DEF WithoutId
<1>8. \A k : k \in K <=>
        /\ k \in W
        /\ s[k] = "break" =>
             /\ \E i \in W : i < k /\ s[i] # "break"
             /\ \E j \in W : k < j /\ s[j] # "break"
             /\ \A i, j \in W : i < j /\ j < k => \E h \in W : i <= h /\ h < k /\ s[h] # "break"
  <2> HIDE DEF W
  <2> QED
    BY DEF OneBlank
<1>9. ASSUME NEW k \in Owed(s)
      PROVE  k \in K
  <2>1. /\ k \in B /\ s[k] \in {"text", "date"}
        /\ s[k] = "date" =>
             /\ k + 1 \in B /\ s[k + 1] = "text"
             /\ \A j \in 1..k : s[j] \in Sign => \E h \in j..k : s[h] = "break"
    BY OwedIs
  <2> HIDE DEF P, B, H, W, K, D
  <2>2. k \in H
    <3> SUFFICES ASSUME NEW x \in D, s[x] \in Sign, k \in D
                 PROVE  FALSE
      BY <2>1, <1>6
    <3>1. s[k] \in Decor /\ s[k] = "date"
      BY <2>1, <1>5, <1>4 DEF Decor
    <3>2. x \in Nat /\ k \in Nat /\ x \in B
      BY <1>4, <1>5
    <3>3. x <= k
      <4> SUFFICES ASSUME k + 1 <= x
                   PROVE  FALSE
        BY <3>2
      <4>1. s[k + 1] \in Decor
        BY <2>1, <3>1, <1>5
      <4> QED
        BY <4>1, <2>1, <3>1 DEF Decor
    <3>4. x \in 1..k
      <4>1. B \subseteq 1..Len(s)
        BY <1>3 DEF P, Inline
      <4> QED
        BY <4>1, <3>2, <3>3
    <3>5. PICK h \in x..k : s[h] = "break"
      BY <3>4, <2>1, <3>1
    <3>6. h \in B
      <4>1. h \in P
        <5>1. k \in P
          BY <2>1, <1>3
        <5>2. k \in 1..Len(s) /\ \A j \in 1..k : s[j] # "next"
          BY <5>1 DEF P, Inline
        <5>3. h \in 1..Len(s) /\ h \in 1..k
          BY <5>2, <3>4
        <5> QED
          BY <5>2, <5>3, <3>5 DEF P, Inline
      <4>2. x <= h /\ h <= k
        BY <3>2, <3>4, <3>5
      <4>3. x \in Between(s, P) /\ k \in Between(s, P)
        BY <2>1, <3>2 DEF B
      <4>4. h \in Between(s, P)
        BY ONLY <1>2, <4>1, <4>2, <4>3, BetweenHasAll
      <4> QED
        BY <4>4 DEF B
    <3> QED
      BY <3>5, <3>6, <1>5 DEF Decor
  <2>3. k \in W
    BY <2>1, <2>2, <1>7
  <2> QED
    BY <2>1, <2>3, <1>8
<1>10. \A k \in W : s[k] # "break" => k \in K
  <2> HIDE DEF W, K
  <2> QED
    BY <1>8
<1>11. ASSUME NEW k \in K, s[k] = "break"
       PROVE  (\E j \in K : j < k) /\ (\E j \in K : k < j)
  <2> HIDE DEF W, K
  <2> QED
    BY <1>8, <1>10, <1>11
<1>12. ASSUME NEW k \in K, s[k] \in Sign
       PROVE  \E j \in K : j < k
  <2> HIDE DEF P, B, H, W, K, D
  <2> SUFFICES ASSUME \A j \in K : ~ (j < k)
               PROVE  FALSE
    OBVIOUS
  <2>1. k \in W /\ k \in H /\ k \in B /\ s[k] \in Decor
    BY <1>6, <1>7, <1>8, <1>12 DEF Decor, Sign
  <2>2. ASSUME NEW j \in H, j < k
        PROVE  s[j] = "break"
    BY <2>1, <2>2, <1>7, <1>10
  <2>3. PICK m \in B : Leads(s, B, m)
    BY <2>1, <1>3
  <2>4. PICK e \in B : s[e] \notin Decor /\ \A i \in m..e : s[i] # "break"
    BY <2>3 DEF Leads
  <2>5. m \in Nat /\ e \in Nat /\ k \in Nat /\ m <= k /\ m <= e /\ s[m] # "break"
    BY <2>1, <2>3, <1>4 DEF Leads
  <2>6. e \notin D /\ e # k
    BY <2>1, <2>4, <2>5, <1>5
  <2>7. e \in H
    BY <2>6, <1>6
  <2>8. k < e
    <3>1. e \in m..e
      BY <2>5
    <3>2. ~ (e < k)
      BY <3>1, <2>2, <2>4, <2>7
    <3> QED
      BY <3>2, <2>5, <2>6
  <2>9. k \notin D
    BY <2>1, <1>6, <1>12
  <2>10. PICK j \in B : j <= k /\ s[j] \notin Decor
    BY <2>1, <2>9, <1>5
  <2>11. j \in Nat /\ j < k /\ m <= j
    <3>1. j \in Nat /\ m <= j /\ j # k
      BY <2>1, <2>3, <2>10, <1>4 DEF Leads
    <3> QED
      BY <3>1, <2>10, <2>5
  <2>12. j \in H
    BY <2>10, <2>11, <1>5, <1>6
  <2>13. j \in m..e
    BY <2>11, <2>5, <2>8
  <2> QED
    BY <2>2, <2>4, <2>11, <2>12, <2>13
<1>13. ASSUME NEW i \in K, NEW j \in K, NEW k \in K, i < j, j < k
       PROVE  \E h \in K : i <= h /\ h <= k /\ s[h] # "break"
  <2> HIDE DEF P, B, H, W, K, D
  <2>1. i \in W /\ j \in W /\ k \in W
    BY <1>8
  <2>2. i \in Nat /\ j \in Nat /\ k \in Nat
    BY <2>1, <1>4, <1>6, <1>7
  <2>3. CASE s[k] # "break"
    BY <2>2, <2>3, <1>13
  <2>4. CASE s[k] = "break"
    <3>1. PICK h \in W : i <= h /\ h < k /\ s[h] # "break"
      BY <2>1, <2>4, <1>8, <1>13
    <3>2. h \in Nat /\ h \in K
      BY <3>1, <1>4, <1>6, <1>7, <1>10
    <3> QED
      BY <3>1, <3>2, <2>2
  <2> QED
    BY <2>3, <2>4
<1> HIDE DEF K
<1> QED
  BY <1>1, <1>9, <1>11, <1>12, <1>13 DEF IsBody

-----------------------------------------------------------------------------
(* Seeds, links and the classification.                                    *)

(* What the manifests promise of a seed.                                   *)
LEMMA PackagedSeedIs ==
    ASSUME NEW seed \in PackagedSeed
    PROVE  seed.url \in Address /\ Canonical(seed.url) = seed.url /\ seed.verified
<1>1. PICK n \in DOMAIN Scenario : seed \in Range(Scenario[n].seeds)
  BY DEF PackagedSeed
<1>2. PICK i \in DOMAIN Scenario[n].seeds : seed = Scenario[n].seeds[i]
  BY <1>1 DEF Range
<1> QED
  BY <1>2, CollectionAssumption DEF CollectionAssumption

(* Each candidate has an address.                                          *)
LEMMA CandidateHasAddress ==
    ASSUME NEW row \in CandidateRow
    PROVE  row.url \in Address
BY PackagedSeedIs DEF CandidateRow, SeedCandidate, Ordinary

(* Each seed of the window has a candidate, a verified one.                *)
LEMMA SeedCandidatesIs ==
    ASSUME NEW seeds \in Seq(PackagedSeed)
    PROVE  /\ SeedCandidates(seeds, Lower, Upper) \in Seq(CandidateRow)
           /\ \A seed \in Range(seeds) : InWindow(seed) =>
                \E i \in DOMAIN SeedCandidates(seeds, Lower, Upper) :
                    LET row == SeedCandidates(seeds, Lower, Upper)[i]
                    IN Canonical(row.url) = seed.url /\ row.verified
<1> DEFINE window == {i \in DOMAIN seeds : Lower <= seeds[i].day /\ seeds[i].day <= Upper}
           same(i) == {j \in window : Canonical(seeds[j].url) = Canonical(seeds[i].url)}
           verified(i) == {j \in same(i) : seeds[j].verified}
           chosen(i) == IF verified(i) = {} THEN i ELSE Max(verified(i))
           ordered == [i \in DOMAIN seeds |-> SeedCandidate(seeds[chosen(i)])]
           firsts == {i \in window : \A j \in same(i) : i <= j}
           rows == SeedCandidates(seeds, Lower, Upper)
<1>0. Len(seeds) \in Nat /\ DOMAIN seeds = 1..Len(seeds) /\ window \subseteq 1..Len(seeds)
  OBVIOUS
<1>1. rows = Selected(ordered, firsts)
  BY DEF SeedCandidates
<1>2. \A i \in DOMAIN seeds : /\ seeds[i] \in PackagedSeed
                              /\ Canonical(seeds[i].url) = seeds[i].url
                              /\ seeds[i].verified
  BY PackagedSeedIs
<1>3. ASSUME NEW i \in DOMAIN seeds
      PROVE  chosen(i) \in DOMAIN seeds /\ (i \in window => chosen(i) \in same(i))
  <2>1. CASE verified(i) = {}
    BY <2>1
  <2>2. CASE verified(i) # {}
    <3>1. verified(i) \subseteq 0..Len(seeds) /\ verified(i) \subseteq same(i)
      BY <1>0
    <3>2. Max(verified(i)) \in verified(i)
      <4> HIDE DEF verified
      <4> QED
        BY <3>1, <2>2, <1>0, MaxIsGreatest
    <3>3. chosen(i) \in verified(i)
      BY <3>2, <2>2
    <3> QED
      BY <3>3, <3>1
  <2> QED
    BY <2>1, <2>2
<1>4. ordered \in Seq(CandidateRow) /\ DOMAIN ordered = DOMAIN seeds
  <2> HIDE DEF chosen
  <2>1. \A i \in DOMAIN seeds : SeedCandidate(seeds[chosen(i)]) \in CandidateRow
    BY <1>2, <1>3 DEF CandidateRow
  <2>2. ordered \in [1..Len(seeds) -> CandidateRow]
    BY <2>1, <1>0
  <2> QED
    BY <2>2, <1>0
<1>5. firsts \subseteq DOMAIN ordered
  BY <1>4
<1>6. rows \in Seq(CandidateRow) /\ Range(rows) = {ordered[i] : i \in firsts}
  <2> HIDE DEF ordered, firsts, rows
  <2> QED
    BY <1>1, <1>4, <1>5, SelectedSeq
<1>7. ASSUME NEW seed \in Range(seeds), InWindow(seed)
      PROVE  \E i \in DOMAIN rows : Canonical(rows[i].url) = seed.url /\ rows[i].verified
  <2>1. PICK a \in DOMAIN seeds : seeds[a] = seed
    BY DEF Range
  <2>2. a \in window /\ a \in same(a)
    BY <2>1, <1>7 DEF InWindow
  <2> DEFINE m == Min(same(a))
  <2>3. m \in same(a) /\ \A x \in same(a) : m <= x
    <3>1. same(a) \subseteq Nat
      BY <1>0
    <3> HIDE DEF same
    <3> QED
      BY <3>1, <2>2, MinIsLeast
  <2>4. same(m) = same(a) /\ m \in window
    <3> HIDE DEF m
    <3> QED
      BY <2>3
  <2>5. m \in firsts
    <3> HIDE DEF m, same
    <3> QED
      BY <2>3, <2>4
  <2>6. chosen(m) \in same(a) /\ m \in DOMAIN seeds
    <3> HIDE DEF m, chosen, same
    <3> QED
      BY <2>4, <1>3, <1>0
  <2>7. ordered[m] = SeedCandidate(seeds[chosen(m)])
    <3> HIDE DEF m, chosen
    <3> QED
      BY <2>6
  <2>8. Canonical(ordered[m].url) = seed.url /\ ordered[m].verified
    <3>1. chosen(m) \in DOMAIN seeds /\ Canonical(seeds[chosen(m)].url) = Canonical(seeds[a].url)
      <4> HIDE DEF m, chosen
      <4> QED
        BY <2>6
    <3> HIDE DEF m, chosen, ordered
    <3>2. ordered[m].url = seeds[chosen(m)].url /\ ordered[m].verified = seeds[chosen(m)].verified
      BY <2>7 DEF SeedCandidate
    <3> QED
      BY <3>1, <3>2, <1>2, <2>1
  <2>9. ordered[m] \in Range(rows)
    <3> HIDE DEF m, firsts, ordered, rows
    <3> QED
      BY <1>6, <2>5
  <2>10. PICK i \in DOMAIN rows : rows[i] = ordered[m]
    <3> HIDE DEF m, ordered, rows
    <3> QED
      BY <2>9 DEF Range
  <2> HIDE DEF m, ordered, rows
  <2> QED
    BY <2>8, <2>10
<1> HIDE DEF rows
<1>8. \A seed \in Range(seeds) : InWindow(seed) =>
         \E i \in DOMAIN rows : Canonical(rows[i].url) = seed.url /\ rows[i].verified
  BY <1>7
<1> QED
  BY <1>6, <1>8 DEF rows

(* What is discovered is addresses.                                        *)
LEMMA DiscoverIs ==
    ASSUME NEW n \in DOMAIN Entries, NEW among
    PROVE  Discover(Entries[n].links, Entries[n].origin, among) \in Seq(Address)
<1> DEFINE links == Entries[n].links
           origin == Entries[n].origin
           url == [i \in DOMAIN links |-> Canonical(Absolute(links[i], origin))]
           taken == {i \in DOMAIN links : IsCandidate(links[i], origin, among)}
           each == {i \in taken : \A j \in taken : url[j] = url[i] => i <= j}
<1>1. /\ links \in Seq(Range(links)) /\ origin \in Address
      /\ \A i \in DOMAIN links : links[i].href \in Address
  BY AnswersAssumption DEF AnswersAssumption
<1> HIDE DEF links, origin
<1>2. \A i \in DOMAIN links : Canonical(Absolute(links[i], origin)) \in Address
  BY <1>1 DEF Canonical, Absolute, Address
<1>3. url \in Seq(Address) /\ DOMAIN url = DOMAIN links
  <2>1. DOMAIN links = 1..Len(links) /\ Len(links) \in Nat
    BY <1>1
  <2>2. url \in [1..Len(links) -> Address]
    BY <2>1, <1>2
  <2> QED
    BY <2>1, <2>2
<1>4. each \subseteq DOMAIN url
  BY <1>3
<1>5. Selected(url, each) \in Seq(Address)
  <2> HIDE DEF url, each
  <2> QED
    BY <1>3, <1>4, SelectedSeq
<1> QED
  BY <1>5 DEF Discover, links, origin

(* Links go behind what is in the table.                                   *)
LEMMA MergeLinksIs ==
    ASSUME NEW ordered \in Seq(CandidateRow), NEW links \in Seq(Address)
    PROVE  /\ MergeLinks(ordered, links) \in Seq(CandidateRow)
           /\ Len(ordered) <= Len(MergeLinks(ordered, links))
           /\ \A i \in DOMAIN ordered : MergeLinks(ordered, links)[i] = ordered[i]
<1> DEFINE new == NewLinks(ordered, links)
           rows == [i \in DOMAIN new |-> Ordinary(new[i])]
<1>1. new \in Seq(Address)
  BY SelectedSeq DEF NewLinks
<1> HIDE DEF new
<1>2. rows \in Seq(CandidateRow)
  <2>1. DOMAIN new = 1..Len(new) /\ Len(new) \in Nat /\ \A i \in DOMAIN new : new[i] \in Address
    BY <1>1
  <2>2. rows \in [1..Len(new) -> CandidateRow]
    BY <2>1 DEF CandidateRow
  <2> QED
    BY <2>1, <2>2
<1>3. MergeLinks(ordered, links) = ordered \o rows
  BY DEF MergeLinks, new
<1> HIDE DEF rows
<1>4. /\ ordered \o rows \in Seq(CandidateRow)
      /\ Len(ordered \o rows) = Len(ordered) + Len(rows)
      /\ \A i \in 1..Len(ordered) + Len(rows) :
            (ordered \o rows)[i] = IF i <= Len(ordered) THEN ordered[i] ELSE rows[i - Len(ordered)]
  BY <1>2, ConcatProperties
<1>5. Len(ordered) \in Nat /\ Len(rows) \in Nat /\ DOMAIN ordered = 1..Len(ordered)
  BY <1>2
<1> QED
  BY <1>3, <1>4, <1>5

(* What is accepted is from an official source, so its publisher is known. *)
LEMMA ClassifyIs ==
    ASSUME NEW url, NEW extracted, NEW published, NEW among, NEW cutoff
    PROVE  /\ Classify(url, extracted, published, among, cutoff) \in Reason \cup {"ACCEPTED"}
           /\ Classify(url, extracted, published, among, cutoff) = "ACCEPTED" => Publisher(extracted) # None
<1> DEFINE Row(code, applies) == [code |-> code, applies |-> applies]
           reasons == <<
            Row("DOMAIN_NOT_ALLOWED", ~Listed(url.host, among)),
            Row("TITLE_NOT_MATCHED", extracted.title = "other"),
            Row("EXCLUDED_KEYWORD", extracted.title = "excluded"),
            Row("VIDEO_ONLY", ~extracted.long /\ extracted.video),
            Row("LEAD_NOT_MATCHED", ~extracted.lead),
            Row("SOURCE_NOT_OFFICIAL", ~IsOfficialSource(extracted)),
            Row("PUBLISHED_AT_MISSING", published = None),
            Row("OUTSIDE_WINDOW", published # None /\ published < cutoff),
            Row("CONTENT_TOO_SHORT", ~extracted.long)>>
           applying == {i \in DOMAIN reasons : reasons[i].applies}
           result == IF applying = {} THEN "ACCEPTED" ELSE reasons[Min(applying)].code
<1>1. Classify(url, extracted, published, among, cutoff) = result
  BY DEF Classify
<1>2. DOMAIN reasons = 1..9
  OBVIOUS
<1>3. \A i \in 1..9 : reasons[i].code \in Reason
  <2>1. /\ reasons[1].code = "DOMAIN_NOT_ALLOWED"
        /\ reasons[2].code = "TITLE_NOT_MATCHED"
        /\ reasons[3].code = "EXCLUDED_KEYWORD"
        /\ reasons[4].code = "VIDEO_ONLY"
        /\ reasons[5].code = "LEAD_NOT_MATCHED"
        /\ reasons[6].code = "SOURCE_NOT_OFFICIAL"
        /\ reasons[7].code = "PUBLISHED_AT_MISSING"
        /\ reasons[8].code = "OUTSIDE_WINDOW"
        /\ reasons[9].code = "CONTENT_TOO_SHORT"
    OBVIOUS
  <2>2. \A i \in 1..9 : i = 1 \/ i = 2 \/ i = 3 \/ i = 4 \/ i = 5 \/ i = 6 \/ i = 7 \/ i = 8 \/ i = 9
    OBVIOUS
  <2> HIDE DEF reasons
  <2> QED
    BY <2>1, <2>2 DEF Reason
<1>4. reasons[6].applies <=> ~IsOfficialSource(extracted)
  OBVIOUS
<1> HIDE DEF reasons
<1>5. applying # {} => Min(applying) \in 1..9
  <2>1. applying \subseteq Nat /\ applying \subseteq 1..9
    BY <1>2
  <2> HIDE DEF applying
  <2> QED
    BY <2>1, MinIsLeast
<1>6. result \in Reason \cup {"ACCEPTED"}
  <2>1. CASE applying = {}
    <3>1. result = "ACCEPTED"
      BY <2>1
    <3> QED
      BY <3>1
  <2>2. CASE applying # {}
    <3>1. result = reasons[Min(applying)].code
      BY <2>2
    <3> HIDE DEF result
    <3> QED
      BY <3>1, <1>3, <1>5, <2>2
  <2> QED
    BY <2>1, <2>2
<1>7. ASSUME result = "ACCEPTED"
      PROVE  IsOfficialSource(extracted)
  <2>1. applying = {}
    <3>1. "ACCEPTED" \notin Reason
      BY DEF Reason
    <3> HIDE DEF applying
    <3> QED
      BY <3>1, <1>7, <1>3, <1>5
  <2>2. 6 \notin applying
    BY <2>1
  <2> QED
    BY <2>2, <1>2, <1>4
<1>8. IsOfficialSource(extracted) => Publisher(extracted) # None
  <2>1. "agency" # None /\ "site" # None
    BY CollectionAssumption DEF CollectionAssumption
  <2> QED
    BY <2>1 DEF IsOfficialSource, Publisher, OfficialAuthor
<1> HIDE DEF result
<1> QED
  BY <1>1, <1>6, <1>7, <1>8

-----------------------------------------------------------------------------
(* Start-up and the operators.                                             *)

(* The manifests are sequences of packaged seeds, each address once.       *)
LEMMA ManifestIs ==
    ASSUME NEW n \in DOMAIN Scenario
    PROVE  /\ n \in Nat /\ Scenario[n].domains \subseteq Host /\ Scenario[n].name \in RuleName
           /\ Scenario[n].seeds \in Seq(PackagedSeed)
           /\ OneEach(Scenario[n].seeds)
<1>1. Scenario \in Seq(Range(Scenario))
  BY CollectionAssumption DEF CollectionAssumption
<1>2. Scenario[n].domains \subseteq Host /\ Scenario[n].seeds \in Seq(Range(Scenario[n].seeds))
  BY CollectionAssumption DEF CollectionAssumption
<1>3. Range(Scenario[n].seeds) \subseteq PackagedSeed
  BY DEF PackagedSeed
<1>4. Scenario[n].seeds \in Seq(PackagedSeed)
  BY <1>2, <1>3
<1>5. OneEach(Scenario[n].seeds)
  BY CollectionAssumption DEF CollectionAssumption, OneEach
<1> QED
  BY <1>1, <1>2, <1>4, <1>5 DEF RuleName

(* A sequence is a prefix of what it is the beginning of.                  *)
LEMMA PrefixIs ==
    ASSUME NEW S, NEW s \in Seq(S), NEW t \in Seq(S), Len(s) <= Len(t),
           \A i \in DOMAIN s : t[i] = s[i]
    PROVE  IsPrefix(s, t)
<1>0. Len(s) \in Nat /\ Len(t) \in Nat /\ DOMAIN s = 1..Len(s)
  OBVIOUS
<1> DEFINE n == Len(s)
           a == SubSeq(s, 1, n)
           b == SubSeq(t, 1, n)
<1>1. n \in Nat /\ n <= Len(s) /\ n <= Len(t) /\ DOMAIN s = 1..n
  BY <1>0
<1>2. /\ a \in Seq(S) /\ Len(a) = IF 1 <= n THEN n - 1 + 1 ELSE 0
      /\ \A i \in 1..n - 1 + 1 : a[i] = s[1 + i - 1]
  <2>1. \A i \in 1..n : s[i] \in S
    BY <1>1
  <2> HIDE DEF n
  <2> QED
    BY <2>1, <1>1, SubSeqProperties
<1>3. /\ b \in Seq(S) /\ Len(b) = IF 1 <= n THEN n - 1 + 1 ELSE 0
      /\ \A i \in 1..n - 1 + 1 : b[i] = t[1 + i - 1]
  <2>1. \A i \in 1..n : t[i] \in S
    BY <1>1, <1>0
  <2> HIDE DEF n
  <2> QED
    BY <2>1, <1>1, SubSeqProperties
<1>4. \A i \in 1..n : a[i] = s[i] /\ b[i] = t[i]
  <2> HIDE DEF n, a, b
  <2> SUFFICES ASSUME NEW i \in 1..n
               PROVE  a[i] = s[i] /\ b[i] = t[i]
    OBVIOUS
  <2>1. 1 + i - 1 = i /\ i \in 1..n - 1 + 1
    BY <1>1
  <2>2. a[i] = s[1 + i - 1] /\ b[i] = t[1 + i - 1]
    BY <2>1, <1>2, <1>3
  <2> QED
    BY <2>1, <2>2
<1>5. a = b
  <2>1. \A i \in 1..n : a[i] = b[i]
    BY <1>4, <1>1
  <2>2. Len(a) = Len(b) /\ Len(a) = n
    <3> HIDE DEF n, a, b
    <3> QED
      BY <1>1, <1>2, <1>3
  <2> HIDE DEF n, a, b
  <2> QED
    BY <2>1, <2>2, <1>2, <1>3, SeqEqual
<1> QED
  BY <1>5 DEF IsPrefix

(* The seeds that were missing complete the rule, and add no address twice. *)
LEMMA MissingIs ==
    ASSUME NEW n \in DOMAIN Scenario, rules[rule].seeds \in Seq(PackagedSeed), OneEach(rules[rule].seeds)
    PROVE  LET old == rules[rule].seeds
               all == old \o MissingSeeds(Scenario[n].seeds)
           IN /\ all \in Seq(PackagedSeed)
              /\ Len(old) <= Len(all)
              /\ \A i \in DOMAIN old : all[i] = old[i]
              /\ OneEach(all)
              /\ \A i \in DOMAIN Scenario[n].seeds : \E j \in DOMAIN all : all[j].url = Scenario[n].seeds[i].url
<1> DEFINE old == rules[rule].seeds
           seeds == Scenario[n].seeds
           K == {i \in DOMAIN seeds : \A j \in DOMAIN old : old[j].url # seeds[i].url}
           new == Selected(seeds, K)
           all == old \o new
           c == Cardinality(K)
<1>0. MissingSeeds(seeds) = new
  BY DEF MissingSeeds
<1>1. seeds \in Seq(PackagedSeed) /\ OneEach(seeds) /\ DOMAIN seeds = 1..Len(seeds) /\ Len(seeds) \in Nat
  BY ManifestIs
<1>2. K \subseteq DOMAIN seeds /\ K \subseteq 1..Len(seeds)
  BY <1>1
<1>3. \A i \in DOMAIN seeds : i \in K <=> \A j \in DOMAIN old : old[j].url # seeds[i].url
  OBVIOUS
<1> HIDE DEF seeds, K
<1>4. new \in Seq(PackagedSeed)
  BY <1>1, <1>2, SelectedSeq
<1>5. /\ c \in Nat
      /\ \E f \in [1..c -> K] :
                /\ new = [k \in 1..c |-> seeds[f[k]]]
                /\ \A i \in K : \E k \in 1..c : f[k] = i
                /\ \A k, l \in 1..c : k < l => f[k] < f[l]
  BY <1>1, <1>2, SelectedIs
<1>6. PICK f \in [1..c -> K] :
                /\ new = [k \in 1..c |-> seeds[f[k]]]
                /\ \A i \in K : \E k \in 1..c : f[k] = i
                /\ \A k, l \in 1..c : k < l => f[k] < f[l]
  BY <1>5
<1> HIDE DEF new, c, old
<1>7. DOMAIN new = 1..c /\ Len(new) = c /\ \A k \in 1..c : f[k] \in K /\ new[k] = seeds[f[k]]
  <2>1. DOMAIN new = 1..c
    BY <1>6
  <2>2. Len(new) = c
    BY <2>1, <1>4, <1>5
  <2>3. \A k \in 1..c : f[k] \in K /\ new[k] = seeds[f[k]]
    BY <1>6
  <2> QED
    BY <2>1, <2>2, <2>3
<1>8. old \in Seq(PackagedSeed) /\ DOMAIN old = 1..Len(old) /\ Len(old) \in Nat /\ OneEach(old)
  BY DEF old
<1>9. /\ all \in Seq(PackagedSeed)
      /\ Len(all) = Len(old) + c
      /\ \A i \in 1..Len(old) + c : all[i] = IF i <= Len(old) THEN old[i] ELSE new[i - Len(old)]
  <2>1. /\ all \in Seq(PackagedSeed)
        /\ Len(all) = Len(old) + Len(new)
        /\ \A i \in 1..Len(old) + Len(new) : all[i] = IF i <= Len(old) THEN old[i] ELSE new[i - Len(old)]
    BY <1>4, <1>8, ConcatProperties
  <2> QED
    BY <2>1, <1>7
<1> HIDE DEF all
<1>10. DOMAIN all = 1..Len(old) + c
  BY <1>9
<1>11. \A i \in DOMAIN old : i \in DOMAIN all /\ all[i] = old[i]
  <2> SUFFICES ASSUME NEW i \in DOMAIN old
               PROVE  i \in DOMAIN all /\ all[i] = old[i]
    OBVIOUS
  <2>1. i \in 1..Len(old) + c /\ i <= Len(old)
    BY <1>8, <1>5
  <2> QED
    BY <2>1, <1>9, <1>10
<1>12. \A k \in 1..c : Len(old) + k \in DOMAIN all /\ all[Len(old) + k] = new[k]
  <2> SUFFICES ASSUME NEW k \in 1..c
               PROVE  Len(old) + k \in DOMAIN all /\ all[Len(old) + k] = new[k]
    OBVIOUS
  <2>1. Len(old) + k \in 1..Len(old) + c /\ ~ (Len(old) + k <= Len(old)) /\ (Len(old) + k) - Len(old) = k
    BY <1>8, <1>5
  <2>2. all[Len(old) + k] = new[(Len(old) + k) - Len(old)]
    BY <2>1, <1>9
  <2> QED
    BY <2>1, <2>2, <1>10
<1>13. \A i \in DOMAIN all : \/ i \in DOMAIN old /\ all[i] = old[i]
                             \/ \E k \in 1..c : i = Len(old) + k /\ all[i] = seeds[f[k]] /\ f[k] \in K
  <2> SUFFICES ASSUME NEW i \in DOMAIN all, i \notin DOMAIN old
               PROVE  \E k \in 1..c : i = Len(old) + k /\ all[i] = seeds[f[k]] /\ f[k] \in K
    BY <1>11
  <2>1. i - Len(old) \in 1..c /\ i = Len(old) + (i - Len(old))
    <3>1. i \in 1..Len(old) + c /\ i \notin 1..Len(old)
      BY <1>8, <1>10
    <3>2. Len(old) \in Nat /\ c \in Nat
      BY <1>8, <1>5
    <3> QED
      BY <3>1, <3>2
  <2>2. all[i] = new[i - Len(old)]
    BY <2>1, <1>12
  <2> QED
    BY <2>1, <2>2, <1>7
<1>14. OneEach(all)
  <2> SUFFICES ASSUME NEW i \in DOMAIN all, NEW j \in DOMAIN all, all[i].url = all[j].url
               PROVE  i = j
    BY DEF OneEach
  <2>1. CASE i \in DOMAIN old /\ j \in DOMAIN old
    BY <2>1, <1>8, <1>11 DEF OneEach
  <2>2. CASE i \in DOMAIN old /\ j \notin DOMAIN old
    <3>1. PICK k \in 1..c : all[j] = seeds[f[k]] /\ f[k] \in K
      BY <2>2, <1>13
    <3>2. all[i] = old[i]
      BY <2>2, <1>11
    <3> QED
      BY <3>1, <3>2, <2>2, <1>2, <1>3
  <2>3. CASE i \notin DOMAIN old /\ j \in DOMAIN old
    <3>1. PICK k \in 1..c : all[i] = seeds[f[k]] /\ f[k] \in K
      BY <2>3, <1>13
    <3>2. all[j] = old[j]
      BY <2>3, <1>11
    <3> QED
      BY <3>1, <3>2, <2>3, <1>2, <1>3
  <2>4. CASE i \notin DOMAIN old /\ j \notin DOMAIN old
    <3>1. PICK k \in 1..c : i = Len(old) + k /\ all[i] = seeds[f[k]] /\ f[k] \in K
      BY <2>4, <1>13
    <3>2. PICK l \in 1..c : j = Len(old) + l /\ all[j] = seeds[f[l]] /\ f[l] \in K
      BY <2>4, <1>13
    <3>3. f[k] = f[l]
      BY <3>1, <3>2, <1>1, <1>2 DEF OneEach
    <3>4. ~ (k < l) /\ ~ (l < k)
      <4>1. f[k] \in Nat
        BY <3>1, <1>2
      <4>2. ~ (f[k] < f[l]) /\ ~ (f[l] < f[k])
        BY <3>3, <4>1
      <4> QED
        BY <4>2, <1>6
    <3>5. k = l
      BY <3>4, <1>5
    <3> QED
      BY <3>1, <3>2, <3>5
  <2> QED
    BY <2>1, <2>2, <2>3, <2>4
<1>15. ASSUME NEW i \in DOMAIN seeds
       PROVE  \E j \in DOMAIN all : all[j].url = seeds[i].url
  <2>1. CASE i \in K
    <3>1. PICK k \in 1..c : f[k] = i
      BY <2>1, <1>6
    <3> QED
      BY <3>1, <1>7, <1>12
  <2>2. CASE i \notin K
    <3>1. PICK j \in DOMAIN old : old[j].url = seeds[i].url
      BY <2>2, <1>3
    <3> QED
      BY <3>1, <1>11
  <2> QED
    BY <2>1, <2>2
<1>16. Len(old) <= Len(all)
  BY <1>9, <1>8, <1>5
<1>17. \A i \in DOMAIN seeds : \E j \in DOMAIN all : all[j].url = seeds[i].url
  BY <1>15
<1>18. old \o MissingSeeds(seeds) = all
  BY <1>0 DEF all
<1> HIDE DEF old
<1> QED
  BY <1>9, <1>11, <1>14, <1>16, <1>17, <1>18 DEF old, seeds

(* The catalogue is sound at the beginning.                                *)
LEMMA CatalogueInit ==
    ASSUME CollectionInit
    PROVE  CatalogueInv
<1>1. 1 \in DOMAIN Scenario
  <2>1. Scenario \in Seq(Range(Scenario)) /\ Scenario # <<>>
    BY CollectionAssumption DEF CollectionAssumption
  <2> QED
    BY <2>1
<1>2. MaxEdits \in Nat /\ MaxCrashes \in Nat /\ MaxRules \in Nat
  BY CollectionAssumption DEF CollectionAssumption
<1>3. Down \in [at : DOMAIN Scenario, import : BOOLEAN] /\ ~Down.import /\ Down.at = 1
  BY <1>1 DEF Down
<1>4. RulesSound
  BY <1>2 DEF CollectionInit, RulesSound
<1>5. BootSound
  <2>1. \A n \in DOMAIN Scenario : ~ (n < 1)
    <3>1. Scenario \in Seq(Range(Scenario))
      BY CollectionAssumption DEF CollectionAssumption
    <3> QED
      BY <3>1
  <2> QED
    BY <1>3, <2>1 DEF CollectionInit, BootSound
<1> QED
  BY <1>2, <1>4, <1>5 DEF CollectionInit, CatalogueInv

(* A start from the beginning asks nothing of the catalogue.               *)
LEMMA DownIsSound ==
    ASSUME RulesSound', boot' = Down
    PROVE  BootSound'
<1>0. Scenario \in Seq(Range(Scenario)) /\ Scenario # <<>>
  BY CollectionAssumption DEF CollectionAssumption
<1>1. Down \in [at : DOMAIN Scenario, import : BOOLEAN] /\ ~Down.import /\ Down.at = 1
  BY <1>0 DEF Down
<1>2. \A n \in DOMAIN Scenario : ~ (n < 1)
  BY <1>0
<1> QED
  BY <1>1, <1>2 DEF BootSound

\* The catalogue only grows.
Grows ==
    /\ domains # None => domains \subseteq domains'
    /\ \A r \in DOMAIN rules : rules'[r].name = rules[r].name /\ IsPrefix(rules[r].seeds, rules'[r].seeds)

\* A rule that keeps its name and what it has keeps the scenarios it is complete for.
LEMMA CompleteStays ==
    ASSUME NEW r, NEW n, Complete(r, n), rules'[r].name = rules[r].name,
           \A j \in DOMAIN rules[r].seeds : j \in DOMAIN rules'[r].seeds /\ rules'[r].seeds[j] = rules[r].seeds[j]
    PROVE  Complete(r, n)'
BY DEF Complete

LEMMA RulesAre ==
    ASSUME RulesSound, NEW r \in DOMAIN rules
    PROVE  /\ r \in Nat \ {0} /\ DOMAIN rules = 1..Len(rules) /\ Len(rules) \in Nat
           /\ rules[r] \in [name : RuleName, seeds : Seq(PackagedSeed)]
           /\ rules[r].seeds \in Seq(PackagedSeed) /\ OneEach(rules[r].seeds)
           /\ IsPrefix(rules[r].seeds, rules[r].seeds)
<1>1. rules \in Seq([name : RuleName, seeds : Seq(PackagedSeed)])
  BY DEF RulesSound
<1>2. r \in Nat \ {0} /\ DOMAIN rules = 1..Len(rules) /\ Len(rules) \in Nat
  BY <1>1
<1>3. rules[r] \in [name : RuleName, seeds : Seq(PackagedSeed)]
  BY <1>1, <1>2, ElementOfSeq
<1>4. rules[r].seeds \in Seq(PackagedSeed) /\ OneEach(rules[r].seeds)
  BY <1>3 DEF RulesSound
<1> DEFINE s == rules[r].seeds
<1>5. IsPrefix(s, s)
  <2>1. s \in Seq(PackagedSeed)
    BY <1>4
  <2> HIDE DEF s
  <2>2. Len(s) <= Len(s)
    BY <2>1
  <2> QED
    BY <2>1, <2>2, PrefixIs
<1> QED
  BY <1>2, <1>3, <1>4, <1>5

(* Ensure finds the rule of the scenario, or writes it.                    *)
LEMMA EnsureIs ==
    ASSUME CatalogueInv, Ensure
    PROVE  CatalogueInv' /\ Grows /\ boot' # None
<1> DEFINE scenario == Scenario[boot.at]
           row == [name |-> scenario.name, seeds |-> <<>>]
<1>1. boot \in [at : DOMAIN Scenario, import : BOOLEAN] /\ boot # None /\ ~boot.import
  BY DEF Ensure, CatalogueInv, BootSound
<1>2. boot' \in [at : DOMAIN Scenario, import : BOOLEAN] /\ boot'.import /\ boot'.at = boot.at
  BY <1>1 DEF Ensure
<1>3. boot' # None
  <2>1. DOMAIN Scenario \subseteq Nat
    BY ManifestIs
  <2>2. boot' \in [at : Nat, import : BOOLEAN]
    BY <1>2, <2>1
  <2> QED
    BY <2>2, CollectionAssumption DEF CollectionAssumption
<1>4. domains' = Widened(scenario.domains) /\ scenario.domains \subseteq Host /\ scenario.name \in RuleName
  BY <1>1, ManifestIs DEF Ensure
<1>5. (domains' = None \/ domains' \subseteq Host) /\ (domains # None => domains \subseteq domains')
  BY <1>4 DEF Widened, CatalogueInv
<1>6. edits' = edits /\ crashes' = crashes
  BY DEF Ensure
<1>7. RulesSound /\ BootSound
  BY DEF CatalogueInv
<1>8. CASE Named(scenario.name) # {}
  <2>1. rule' = Min(Named(scenario.name)) /\ rules' = rules
    BY <1>8 DEF Ensure
  <2>2. Named(scenario.name) \subseteq DOMAIN rules /\ DOMAIN rules \subseteq Nat
    BY <1>7, RulesAre DEF Named
  <2>3. rule' \in Named(scenario.name)
    <3>1. Named(scenario.name) \subseteq Nat
      BY <2>2
    <3> QED
      BY <3>1, <2>1, <1>8, MinIsLeast
  <2>4. rule' \in DOMAIN rules' /\ rules'[rule'].name = scenario.name
    BY <2>1, <2>3 DEF Named
  <2>5. RulesSound'
    BY <1>7, <2>1 DEF RulesSound
  <2>6. \A n \in DOMAIN Scenario : n < boot'.at => \E r \in DOMAIN rules' : Complete(r, n)'
    <3> SUFFICES ASSUME NEW n \in DOMAIN Scenario, n < boot.at
                 PROVE  \E r \in DOMAIN rules' : Complete(r, n)'
      BY <1>2
    <3>1. PICK r \in DOMAIN rules : Complete(r, n)
      BY <1>1, <1>7 DEF BootSound
    <3>2. Complete(r, n)'
      BY <3>1, <2>1, CompleteStays
    <3> QED
      BY <3>1, <3>2, <2>1
  <2>7. BootSound'
    BY <1>2, <2>4, <2>6 DEF BootSound
  <2>8. Grows
    BY <1>5, <1>7, <2>1, RulesAre DEF Grows
  <2> QED
    BY <1>3, <1>5, <1>6, <2>5, <2>7, <2>8 DEF CatalogueInv
<1>9. CASE Named(scenario.name) = {}
  <2>1. Len(rules) < MaxRules /\ rules' = Append(rules, row) /\ rule' = Len(rules) + 1
    BY <1>9 DEF Ensure
  <2>2. /\ rules \in Seq([name : RuleName, seeds : Seq(PackagedSeed)])
        /\ DOMAIN rules = 1..Len(rules) /\ Len(rules) \in Nat /\ MaxRules \in Nat
    BY <1>7, CollectionAssumption DEF RulesSound, CollectionAssumption
  <2>3. row \in [name : RuleName, seeds : Seq(PackagedSeed)]
    BY <1>4
  <2> HIDE DEF row
  <2>4. /\ rules' \in Seq([name : RuleName, seeds : Seq(PackagedSeed)])
        /\ Len(rules') = Len(rules) + 1
        /\ DOMAIN rules' = 1..Len(rules) + 1
        /\ \A r \in DOMAIN rules : r \in DOMAIN rules' /\ rules'[r] = rules[r]
        /\ rules'[Len(rules) + 1] = row
    BY <2>1, <2>2, <2>3
  <2>5. RulesSound'
    <3>1. OneEach(row.seeds)
      BY DEF row, OneEach
    <3>2. \A r \in DOMAIN rules' : r \in DOMAIN rules \/ r = Len(rules) + 1
      BY <2>2, <2>4
    <3>3. \A r \in DOMAIN rules' : OneEach(rules'[r].seeds)
      BY <3>1, <3>2, <2>4, <1>7 DEF RulesSound
    <3>4. Len(rules') <= MaxRules
      BY <2>1, <2>2, <2>4
    <3> QED
      BY <3>3, <3>4, <2>4 DEF RulesSound
  <2>6. rule' \in DOMAIN rules' /\ rules'[rule'].name = scenario.name
    BY <2>1, <2>2, <2>4 DEF row
  <2>7. \A n \in DOMAIN Scenario : n < boot'.at => \E r \in DOMAIN rules' : Complete(r, n)'
    <3> SUFFICES ASSUME NEW n \in DOMAIN Scenario, n < boot.at
                 PROVE  \E r \in DOMAIN rules' : Complete(r, n)'
      BY <1>2
    <3>1. PICK r \in DOMAIN rules : Complete(r, n)
      BY <1>1, <1>7 DEF BootSound
    <3>2. Complete(r, n)'
      BY <3>1, <2>4, CompleteStays
    <3> QED
      BY <3>1, <3>2, <2>4
  <2>8. BootSound'
    BY <1>2, <2>6, <2>7 DEF BootSound
  <2>9. Grows
    BY <1>5, <1>7, <2>4, RulesAre DEF Grows
  <2> QED
    BY <1>3, <1>5, <1>6, <2>5, <2>8, <2>9 DEF CatalogueInv
<1> QED
  BY <1>8, <1>9

(* Import completes the rule of the scenario.                              *)
LEMMA ImportIs ==
    ASSUME CatalogueInv, Import
    PROVE  /\ CatalogueInv' /\ Grows
           /\ boot' = None => \A n \in DOMAIN Scenario : \E r \in DOMAIN rules' : Complete(r, n)'
<1> DEFINE at == boot.at
           old == rules[rule].seeds
           all == old \o MissingSeeds(Scenario[at].seeds)
<1>1. /\ RulesSound /\ BootSound
      /\ boot \in [at : DOMAIN Scenario, import : BOOLEAN] /\ boot # None /\ boot.import
      /\ rule \in DOMAIN rules /\ rules[rule].name = Scenario[at].name
      /\ \A n \in DOMAIN Scenario : n < at => \E r \in DOMAIN rules : Complete(r, n)
      /\ at \in DOMAIN Scenario
  BY DEF Import, CatalogueInv, BootSound
<1>2. /\ rules' = [rules EXCEPT ![rule].seeds = all]
      /\ boot' = IF at = Len(Scenario) THEN None ELSE [at |-> at + 1, import |-> FALSE]
      /\ UNCHANGED <<domains, edits, crashes>>
  BY DEF Import
<1>3. /\ all \in Seq(PackagedSeed)
      /\ Len(old) <= Len(all)
      /\ \A i \in DOMAIN old : all[i] = old[i]
      /\ OneEach(all)
      /\ \A i \in DOMAIN Scenario[at].seeds : \E j \in DOMAIN all : all[j].url = Scenario[at].seeds[i].url
      /\ old \in Seq(PackagedSeed)
  <2>1. old \in Seq(PackagedSeed) /\ OneEach(old)
    BY <1>1, RulesAre
  <2> HIDE DEF at
  <2> QED
    BY <1>1, <2>1, MissingIs
<1>4. IsPrefix(old, all)
  <2> HIDE DEF old, all
  <2> QED
    BY <1>3, PrefixIs
<1>5. DOMAIN old \subseteq DOMAIN all
  <2> HIDE DEF old, all
  <2> QED
    BY <1>3
<1>6. /\ DOMAIN rules' = DOMAIN rules /\ Len(rules') = Len(rules)
      /\ rules' \in Seq([name : RuleName, seeds : Seq(PackagedSeed)])
      /\ rules'[rule] = [rules[rule] EXCEPT !.seeds = all]
      /\ rules'[rule].name = Scenario[at].name /\ rules'[rule].seeds = all
      /\ \A r \in DOMAIN rules : r # rule => rules'[r] = rules[r]
  <2>1. /\ rules \in Seq([name : RuleName, seeds : Seq(PackagedSeed)])
        /\ rules[rule] \in [name : RuleName, seeds : Seq(PackagedSeed)]
        /\ DOMAIN rules = 1..Len(rules) /\ Len(rules) \in Nat
    BY <1>1, RulesAre DEF RulesSound
  <2> DEFINE row == [rules[rule] EXCEPT !.seeds = all]
  <2> HIDE DEF all, at
  <2>2. row \in [name : RuleName, seeds : Seq(PackagedSeed)] /\ row.name = rules[rule].name /\ row.seeds = all
    BY <2>1, <1>3
  <2>3. rules' = [rules EXCEPT ![rule] = row]
    BY <1>2
  <2> HIDE DEF row
  <2>4. rules' \in Seq([name : RuleName, seeds : Seq(PackagedSeed)]) /\ Len(rules') = Len(rules)
    BY <2>1, <2>2, <2>3, <1>1, ExceptSeq
  <2>5. DOMAIN rules' = DOMAIN rules /\ rules'[rule] = row /\ \A r \in DOMAIN rules : r # rule => rules'[r] = rules[r]
    BY <2>1, <2>3, <1>1
  <2> QED
    BY <2>2, <2>4, <2>5, <1>1 DEF row
<1>7. RulesSound'
  <2>1. \A r \in DOMAIN rules' : OneEach(rules'[r].seeds)
    <3> HIDE DEF all, at
    <3> QED
      BY <1>1, <1>3, <1>6 DEF RulesSound
  <2>2. Len(rules') <= MaxRules
    BY <1>1, <1>6 DEF RulesSound
  <2> QED
    BY <2>1, <2>2, <1>6 DEF RulesSound
<1> HIDE DEF at, all
<1>8. ASSUME NEW r \in DOMAIN rules, NEW n, Complete(r, n)
      PROVE  Complete(r, n)'
  <2>1. rules'[r].name = rules[r].name
    BY <1>1, <1>6
  <2>2. \A j \in DOMAIN rules[r].seeds : j \in DOMAIN rules'[r].seeds /\ rules'[r].seeds[j] = rules[r].seeds[j]
    BY <1>3, <1>5, <1>6
  <2> QED
    BY <2>1, <2>2, <1>8, CompleteStays
<1>9. ASSUME NEW r, r = rule, NEW n, n = at
      PROVE  Complete(r, n)'
  BY <1>3, <1>6, <1>9 DEF Complete
<1>10. \A n \in DOMAIN Scenario : n <= at => \E r \in DOMAIN rules' : Complete(r, n)'
  <2> SUFFICES ASSUME NEW n \in DOMAIN Scenario, n <= at
               PROVE  \E r \in DOMAIN rules' : Complete(r, n)'
    OBVIOUS
  <2>1. n = at \/ n < at
    BY <1>1, ManifestIs
  <2>2. CASE n = at
    <3>1. PICK r : r = rule
      OBVIOUS
    <3>2. r \in DOMAIN rules'
      BY <3>1, <1>1, <1>6
    <3>3. Complete(r, n)'
      BY <3>1, <2>2, <1>9
    <3> QED
      BY <3>2, <3>3
  <2>3. CASE n < at
    <3>1. PICK r \in DOMAIN rules : Complete(r, n)
      BY <2>3, <1>1
    <3>2. Complete(r, n)'
      BY <3>1, <1>8
    <3> QED
      BY <3>1, <3>2, <1>6
  <2> QED
    BY <2>1, <2>2, <2>3
<1>11. DOMAIN Scenario = 1..Len(Scenario) /\ Len(Scenario) \in Nat
  BY CollectionAssumption DEF CollectionAssumption
<1>12. BootSound'
  <2>1. CASE at = Len(Scenario)
    BY <2>1, <1>2 DEF BootSound
  <2>2. CASE at # Len(Scenario)
    <3>1. at + 1 \in DOMAIN Scenario
      BY <2>2, <1>1, <1>11
    <3>2. boot' = [at |-> at + 1, import |-> FALSE]
      BY <2>2, <1>2
    <3>3. boot' \in [at : DOMAIN Scenario, import : BOOLEAN] /\ ~boot'.import /\ boot'.at = at + 1
      BY <3>1, <3>2
    <3>4. \A n \in DOMAIN Scenario : n < at + 1 => n <= at
      BY <1>1, <1>11
    <3>5. \A n \in DOMAIN Scenario : n < boot'.at => \E r \in DOMAIN rules' : Complete(r, n)'
      BY <3>3, <3>4, <1>10
    <3> QED
      BY <3>3, <3>5 DEF BootSound
  <2> QED
    BY <2>1, <2>2
<1>13. Grows
  <2>1. domains # None => domains \subseteq domains'
    BY <1>2
  <2>2. ASSUME NEW r \in DOMAIN rules
        PROVE  rules'[r].name = rules[r].name /\ IsPrefix(rules[r].seeds, rules'[r].seeds)
    <3>1. CASE r = rule
      BY <3>1, <1>1, <1>4, <1>6
    <3>2. CASE r # rule
      <4>1. rules'[r] = rules[r]
        BY <3>2, <1>6
      <4>2. IsPrefix(rules[r].seeds, rules[r].seeds)
        BY <1>1, RulesAre
      <4> QED
        BY <4>1, <4>2
    <3> QED
      BY <3>1, <3>2
  <2> QED
    BY <2>1, <2>2 DEF Grows
<1>14. ASSUME boot' = None
       PROVE  \A n \in DOMAIN Scenario : \E r \in DOMAIN rules' : Complete(r, n)'
  <2>1. at = Len(Scenario)
    <3> SUFFICES ASSUME at # Len(Scenario)
                 PROVE  FALSE
      OBVIOUS
    <3>1. boot' = [at |-> at + 1, import |-> FALSE]
      BY <1>2
    <3>2. at + 1 \in Nat
      BY <1>1, <1>11
    <3>3. boot' \in [at : Nat, import : BOOLEAN]
      BY <3>1, <3>2
    <3> QED
      BY <3>3, <1>14, CollectionAssumption DEF CollectionAssumption
  <2>2. \A n \in DOMAIN Scenario : n <= at
    BY <2>1, <1>11
  <2> QED
    BY <2>2, <1>10
<1>15. (domains' = None \/ domains' \subseteq Host) /\ edits' \in 0..MaxEdits /\ crashes' \in 0..MaxCrashes
  BY <1>2 DEF CatalogueInv
<1> QED
  BY <1>7, <1>12, <1>13, <1>14, <1>15 DEF CatalogueInv

(* A start that fails has changed nothing.                                 *)
LEMMA StartFailsIs ==
    ASSUME CatalogueInv, StartFails
    PROVE  CatalogueInv' /\ Grows /\ boot' # None
<1>1. rules' = rules /\ domains' = domains /\ boot' = Down /\ edits' = edits /\ crashes' = crashes
  BY DEF StartFails, catalogue
<1>2. RulesSound' /\ RulesSound
  BY <1>1 DEF CatalogueInv, RulesSound
<1>3. BootSound'
  BY <1>1, <1>2, DownIsSound
<1>4. Grows
  BY <1>1, <1>2, RulesAre DEF Grows
<1>5. boot' # None
  <2>1. Down \in [at : Nat, import : BOOLEAN]
    BY DEF Down
  <2> QED
    BY <2>1, <1>1, CollectionAssumption DEF CollectionAssumption
<1> QED
  BY <1>1, <1>2, <1>3, <1>4, <1>5 DEF CatalogueInv

(* Operators and crashes leave the catalogue sound.                        *)
LEMMA OthersKeepCatalogue ==
    ASSUME CatalogueInv,
           \/ \E to \in Domains : EditDomains(to)
           \/ \E r \in DOMAIN rules : RenameRule(r)
           \/ Crash
    PROVE  CatalogueInv' /\ (boot' = None => boot = None)
<1>0. MaxEdits \in Nat /\ MaxCrashes \in Nat /\ Domains \subseteq SUBSET Host
  BY CollectionAssumption DEF CollectionAssumption
<1>1. ASSUME NEW to \in Domains, EditDomains(to)
      PROVE  CatalogueInv' /\ boot' = boot
  <2>1. /\ domains' = to /\ edits < MaxEdits /\ edits' = edits + 1
        /\ rules' = rules /\ boot' = boot /\ rule' = rule /\ crashes' = crashes
    BY <1>1 DEF EditDomains, booting
  <2>2. RulesSound' /\ BootSound'
    BY <2>1 DEF CatalogueInv, RulesSound, BootSound, Complete
  <2>3. edits' \in 0..MaxEdits
    BY <2>1, <1>0 DEF CatalogueInv
  <2>4. domains' \subseteq Host
    BY <2>1, <1>0
  <2> QED
    BY <2>1, <2>2, <2>3, <2>4 DEF CatalogueInv
<1>2. ASSUME NEW r \in DOMAIN rules, RenameRule(r)
      PROVE  CatalogueInv' /\ boot' = boot
  <2>1. /\ boot = None /\ edits < MaxEdits /\ edits' = edits + 1
        /\ rules' = [rules EXCEPT ![r].name = None]
        /\ domains' = domains /\ boot' = boot /\ crashes' = crashes
    BY <1>2 DEF RenameRule, booting
  <2> DEFINE row == [rules[r] EXCEPT !.name = None]
  <2>2. /\ rules \in Seq([name : RuleName, seeds : Seq(PackagedSeed)]) /\ Len(rules) <= MaxRules
        /\ rules[r] \in [name : RuleName, seeds : Seq(PackagedSeed)] /\ OneEach(rules[r].seeds)
        /\ DOMAIN rules = 1..Len(rules) /\ Len(rules) \in Nat
    BY RulesAre DEF CatalogueInv, RulesSound
  <2>3. row \in [name : RuleName, seeds : Seq(PackagedSeed)] /\ row.seeds = rules[r].seeds
    BY <2>2 DEF RuleName
  <2>4. rules' = [rules EXCEPT ![r] = row]
    BY <2>1
  <2> HIDE DEF row
  <2>5. rules' \in Seq([name : RuleName, seeds : Seq(PackagedSeed)]) /\ Len(rules') = Len(rules)
    BY <2>2, <2>3, <2>4, ExceptSeq
  <2>6. DOMAIN rules' = DOMAIN rules /\ \A q \in DOMAIN rules : rules'[q].seeds = rules[q].seeds
    BY <2>2, <2>3, <2>4
  <2>7. RulesSound'
    BY <2>2, <2>5, <2>6 DEF CatalogueInv, RulesSound
  <2>8. BootSound'
    BY <2>1 DEF BootSound
  <2>9. edits' \in 0..MaxEdits
    BY <2>1, <1>0 DEF CatalogueInv
  <2> QED
    BY <2>1, <2>7, <2>8, <2>9 DEF CatalogueInv
<1>3. ASSUME Crash
      PROVE  CatalogueInv' /\ boot' # None
  <2>1. /\ rules' = rules /\ domains' = domains /\ boot' = Down /\ edits' = edits
        /\ crashes < MaxCrashes /\ crashes' = crashes + 1
    BY <1>3 DEF Crash, catalogue
  <2>2. RulesSound'
    BY <2>1 DEF CatalogueInv, RulesSound
  <2>3. BootSound'
    BY <2>1, <2>2, DownIsSound
  <2>4. crashes' \in 0..MaxCrashes
    BY <2>1, <1>0 DEF CatalogueInv
  <2>5. boot' # None
    <3>1. Down \in [at : Nat, import : BOOLEAN]
      BY DEF Down
    <3> QED
      BY <3>1, <2>1, CollectionAssumption DEF CollectionAssumption
  <2> QED
    BY <2>1, <2>2, <2>3, <2>4, <2>5 DEF CatalogueInv
<1> QED
  BY <1>1, <1>2, <1>3

(* What leaves the catalogue alone leaves it sound.                        *)
LEMMA CatalogueKept ==
    ASSUME CatalogueInv, UNCHANGED environment
    PROVE  CatalogueInv' /\ boot' = boot
BY DEF CatalogueInv, RulesSound, BootSound, Complete, environment, catalogue, booting

-----------------------------------------------------------------------------
(* The run of a task.                                                      *)

LEMMA RunInit ==
    ASSUME CollectionInit
    PROVE  RunInv
<1>1. MaxAttempts \in Nat \ {0} /\ Len(Entries) \in Nat
  BY CollectionAssumption, AnswersAssumption DEF CollectionAssumption, AnswersAssumption
<1>2. RunSound
  BY <1>1 DEF CollectionInit, RunSound, Phase
<1> QED
  BY <1>2 DEF CollectionInit, RunInv, SeedsSound, ArticleSound, BodyIsKept

(* Without a run there is nothing to be sound.                             *)
LEMMA NoRunIs ==
    ASSUME NoRun
    PROVE  RunInv'
<1>1. MaxAttempts \in Nat \ {0} /\ Len(Entries) \in Nat
  BY CollectionAssumption, AnswersAssumption DEF CollectionAssumption, AnswersAssumption
<1>2. RunSound'
  BY <1>1 DEF NoRun, RunSound, Phase
<1> QED
  BY <1>2 DEF NoRun, RunInv, SeedsSound, ArticleSound, BodyIsKept

LEMMA RunKept ==
    ASSUME RunInv, UNCHANGED run
    PROVE  RunInv'
BY DEF RunInv, RunSound, SeedsSound, SeedsAreFound, ArticleSound, BodyIsKept, run

(* A run begins with the seeds of its rule.                                *)
LEMMA StartIs ==
    ASSUME RunInv, RulesSound, NEW r \in DOMAIN rules, Start(r)
    PROVE  RunInv'
<1>0. /\ phase = "none" /\ task' = [domains |-> domains, seeds |-> rules[r].seeds]
      /\ found' = SeedCandidates(rules[r].seeds, Lower, Upper)
      /\ phase' = IF Entries = <<>> THEN "next" ELSE "entry"
      /\ UNCHANGED <<attempt, entry, failed, article, results, stored, verdict>>
  BY DEF Start
<1>1. rules[r].seeds \in Seq(PackagedSeed) /\ task'.seeds = rules[r].seeds
  BY <1>0, RulesAre
<1>2. /\ found' \in Seq(CandidateRow)
      /\ \A seed \in Range(rules[r].seeds) : InWindow(seed) =>
            \E i \in DOMAIN found' : Canonical(found'[i].url) = seed.url /\ found'[i].verified
  BY <1>0, <1>1, SeedCandidatesIs
<1>3. SeedsAreFound'
  BY <1>1, <1>2 DEF SeedsAreFound, InWindow
<1>4. Entries \in Seq(Range(Entries)) /\ (Entries # <<>> => 1 \in DOMAIN Entries)
  BY AnswersAssumption DEF AnswersAssumption
<1>5. phase' \in {"next", "entry"} /\ (phase' = "entry" => 1 \in DOMAIN Entries)
  BY <1>0, <1>4
<1>6. results = <<>> /\ stored = None /\ entry = 1 /\ attempt = 1
  BY <1>0 DEF RunInv, RunSound
<1>7. results' \in Seq(Code) /\ Len(results') <= Len(found')
  <2>1. Len(found') \in Nat
    BY <1>2
  <2> QED
    BY <2>1, <1>0, <1>6
<1>8. RunSound'
  BY <1>0, <1>2, <1>5, <1>6, <1>7 DEF RunInv, RunSound, Phase
<1>9. SeedsSound' /\ ArticleSound' /\ BodyIsKept'
  BY <1>0, <1>3, <1>5, <1>6 DEF SeedsSound, ArticleSound, BodyIsKept
<1> QED
  BY <1>8, <1>9 DEF RunInv

LEMMA RetryIs ==
    ASSUME RunInv, Retry
    PROVE  RunInv'
<1>1. /\ phase \in {"entry", "extract", "html"} /\ attempt < MaxAttempts /\ attempt' = attempt + 1
      /\ UNCHANGED <<task, phase, entry, found, failed, article, results, stored, verdict>>
  BY DEF Retry, Asking
<1>2. attempt' \in 1..MaxAttempts
  <2>1. MaxAttempts \in Nat /\ attempt \in 1..MaxAttempts
    BY CollectionAssumption DEF CollectionAssumption, RunInv, RunSound
  <2> QED
    BY <2>1, <1>1
<1>3. RunSound'
  BY <1>1, <1>2 DEF RunInv, RunSound
<1>4. SeedsSound' /\ ArticleSound' /\ BodyIsKept'
  BY <1>1 DEF RunInv, SeedsSound, SeedsAreFound, ArticleSound, BodyIsKept
<1> QED
  BY <1>3, <1>4 DEF RunInv

(* After an address, whatever it added behind the seeds.                   *)
LEMMA AfterEntryIs ==
    ASSUME RunInv, phase = "entry", AfterEntry,
           found' \in Seq(CandidateRow), Len(found) <= Len(found'),
           \A i \in DOMAIN found : found'[i] = found[i]
    PROVE  RunInv'
<1>0. /\ entry' = entry + 1 /\ attempt' = 1
      /\ phase' = IF entry = Len(Entries) THEN "next" ELSE "entry"
      /\ UNCHANGED <<task, article, results, stored, verdict>>
  BY DEF AfterEntry
<1>1. /\ found \in Seq(CandidateRow) /\ results \in Seq(Code) /\ Len(results) <= Len(found)
      /\ entry \in DOMAIN Entries
      /\ verdict \in {None, "succeeded", "partially_succeeded", "failed"}
      /\ SeedsAreFound /\ BodyIsKept
  BY DEF RunInv, RunSound, SeedsSound
<1>2. DOMAIN Entries = 1..Len(Entries) /\ Len(Entries) \in Nat /\ MaxAttempts \in Nat \ {0}
  BY CollectionAssumption, AnswersAssumption DEF CollectionAssumption, AnswersAssumption
<1>3. entry' \in 1..Len(Entries) + 1 /\ (phase' = "entry" => entry' \in DOMAIN Entries)
  BY <1>0, <1>1, <1>2
<1>4. Len(results') <= Len(found') /\ results' \in Seq(Code)
  BY <1>0, <1>1
<1>5. RunSound'
  BY <1>0, <1>1, <1>2, <1>3, <1>4 DEF RunSound, Phase
<1>6. SeedsAreFound'
  <2> SUFFICES ASSUME NEW seed \in Range(task.seeds), InWindow(seed)
               PROVE  \E i \in DOMAIN found' : Canonical(found'[i].url) = seed.url /\ found'[i].verified
    BY <1>0 DEF SeedsAreFound, InWindow
  <2>1. PICK i \in DOMAIN found : Canonical(found[i].url) = seed.url /\ found[i].verified
    BY <1>1 DEF SeedsAreFound
  <2>2. i \in DOMAIN found'
    BY <1>1
  <2> QED
    BY <2>1, <2>2
<1>7. SeedsSound' /\ ArticleSound' /\ BodyIsKept'
  BY <1>0, <1>1, <1>6 DEF SeedsSound, ArticleSound, BodyIsKept
<1> QED
  BY <1>5, <1>7 DEF RunInv

LEMMA EntryStepIs ==
    ASSUME RunInv, Merge \/ EntryFails
    PROVE  RunInv'
<1>0. found \in Seq(CandidateRow) /\ (phase = "entry" => entry \in DOMAIN Entries)
  BY DEF RunInv, RunSound
<1>1. CASE Merge
  <2>1. /\ phase = "entry" /\ AfterEntry
        /\ found' = MergeLinks(found, Discover(Entries[entry].links, Entries[entry].origin, task.domains))
    BY <1>1 DEF Merge
  <2>2. Discover(Entries[entry].links, Entries[entry].origin, task.domains) \in Seq(Address)
    BY <1>0, <2>1, DiscoverIs
  <2>3. /\ found' \in Seq(CandidateRow) /\ Len(found) <= Len(found')
        /\ \A i \in DOMAIN found : found'[i] = found[i]
    BY <1>0, <2>1, <2>2, MergeLinksIs
  <2> QED
    BY <2>1, <2>3, AfterEntryIs
<1>2. CASE EntryFails
  <2>1. phase = "entry" /\ AfterEntry /\ found' = found
    BY <1>2 DEF EntryFails
  <2>2. /\ found' \in Seq(CandidateRow) /\ Len(found) <= Len(found')
        /\ \A i \in DOMAIN found : found'[i] = found[i]
    BY <1>0, <2>1
  <2> QED
    BY <2>1, <2>2, AfterEntryIs
<1> QED
  BY <1>1, <1>2

LEMMA NextCandidateIs ==
    ASSUME RunInv, NextCandidate
    PROVE  RunInv'
<1>1. /\ phase = "next" /\ Len(results) < Len(found) /\ phase' = "extract" /\ stored' = None
      /\ UNCHANGED <<task, attempt, entry, found, failed, article, results, verdict>>
  BY DEF NextCandidate
<1>2. RunSound'
  BY <1>1 DEF RunInv, RunSound, Phase
<1>3. SeedsSound' /\ ArticleSound' /\ BodyIsKept'
  BY <1>1 DEF RunInv, SeedsSound, SeedsAreFound, ArticleSound, BodyIsKept
<1> QED
  BY <1>2, <1>3 DEF RunInv

(* The candidate whose turn it is has a page.                              *)
LEMMA CandidateHasPage ==
    ASSUME RunInv, phase \in {"extract", "html"}
    PROVE  Candidate.url.page \in Page
<1>1. found \in Seq(CandidateRow) /\ results \in Seq(Code) /\ Len(results) < Len(found)
  BY DEF RunInv, RunSound
<1>2. Len(results) + 1 \in DOMAIN found
  BY <1>1
<1>3. Candidate \in CandidateRow
  BY <1>1, <1>2 DEF Candidate
<1>4. Candidate.url \in Address
  BY <1>3, CandidateHasAddress
<1> QED
  BY <1>4 DEF Address

(* An item that is finished, but for what it has stored.                   *)
LEMMA FinishItemIs ==
    ASSUME RunInv, phase \in {"extract", "html"}, NEW code \in Code, FinishItem(code), BodyIsKept'
    PROVE  RunInv'
<1>1. /\ results' = Append(results, code) /\ phase' = "next" /\ attempt' = 1
      /\ UNCHANGED <<task, entry, found, failed, verdict>>
  BY DEF FinishItem
<1>2. /\ found \in Seq(CandidateRow) /\ results \in Seq(Code) /\ Len(results) < Len(found)
      /\ entry \in 1..Len(Entries) + 1
      /\ verdict \in {None, "succeeded", "partially_succeeded", "failed"}
      /\ SeedsAreFound
  BY DEF RunInv, RunSound, SeedsSound
<1>3. results' \in Seq(Code) /\ Len(results') <= Len(found')
  BY <1>1, <1>2
<1>4. MaxAttempts \in Nat \ {0}
  BY CollectionAssumption DEF CollectionAssumption
<1>5. RunSound'
  BY <1>1, <1>2, <1>3, <1>4 DEF RunSound, Phase
<1>6. SeedsSound' /\ ArticleSound'
  BY <1>1, <1>2 DEF SeedsSound, SeedsAreFound, ArticleSound
<1> QED
  BY <1>5, <1>6 DEF RunInv

LEMMA ExtractIs ==
    ASSUME RunInv, NEW extracted \in Articles[Candidate.url.page], Extract(extracted)
    PROVE  RunInv'
<1>0. phase = "extract"
  BY DEF Extract
<1> DEFINE judged == Judgement(extracted)
           url == Canonical(Candidate.url)
           published == PublishedAt(extracted, DayRead(url.page))
<1>1. /\ judged \in Code \cup {"ACCEPTED"}
      /\ judged = "ACCEPTED" => Publisher(extracted) # None
  <2> DEFINE classified == Classify(url, extracted, published, task.domains, Lower)
  <2>1. classified \in Reason \cup {"ACCEPTED"} /\ (classified = "ACCEPTED" => Publisher(extracted) # None)
    <3> HIDE DEF url, published
    <3> QED
      BY ClassifyIs
  <2>2. judged = IF SeedMismatch(Candidate, extracted, published) THEN "SEED_MISMATCH"
                 ELSE IF published # None /\ published > Upper THEN "OUTSIDE_WINDOW"
                 ELSE classified
    BY DEF Judgement
  <2> HIDE DEF judged, classified, published
  <2>3. judged \in {"SEED_MISMATCH", "OUTSIDE_WINDOW"} \/ judged = classified
    BY <2>2
  <2>4. {"SEED_MISMATCH", "OUTSIDE_WINDOW"} \subseteq Code /\ Reason \subseteq Code
    BY DEF Code, Reason
  <2> QED
    BY <2>1, <2>3, <2>4
<1> HIDE DEF judged
<1>2. CASE judged = "ACCEPTED"
  <2>1. /\ phase' = "html" /\ attempt' = 1 /\ article' = extracted
        /\ UNCHANGED <<task, entry, found, failed, results, stored, verdict>>
    BY <1>2 DEF Extract, judged
  <2>2. extracted.text \in Seq(Piece)
    <3>1. extracted.text \in Seq(Piece \ {"break"})
      BY <1>0, CandidateHasPage, AnswersAssumption DEF AnswersAssumption
    <3> QED
      BY <3>1
  <2>3. MaxAttempts \in Nat \ {0}
    BY CollectionAssumption DEF CollectionAssumption
  <2>4. RunSound'
    BY <1>0, <2>1, <2>3 DEF RunInv, RunSound, Phase
  <2>5. SeedsSound' /\ BodyIsKept'
    BY <1>0, <2>1 DEF RunInv, SeedsSound, SeedsAreFound, BodyIsKept
  <2>6. ArticleSound'
    BY <1>1, <1>2, <2>1, <2>2 DEF ArticleSound, Publisher
  <2> QED
    BY <2>4, <2>5, <2>6 DEF RunInv
<1>3. CASE judged # "ACCEPTED"
  <2>1. FinishItem(judged) /\ stored' = stored
    BY <1>3 DEF Extract, judged
  <2>2. BodyIsKept'
    BY <2>1 DEF RunInv, BodyIsKept
  <2>3. judged \in Code
    BY <1>1, <1>3
  <2> QED
    BY <1>0, <2>1, <2>2, <2>3, FinishItemIs
<1> QED
  BY <1>2, <1>3

LEMMA ExtractFailsIs ==
    ASSUME RunInv, ExtractFails
    PROVE  RunInv'
<1>1. phase = "extract" /\ FinishItem("WEBFETCH") /\ stored' = stored
  BY DEF ExtractFails
<1>2. BodyIsKept'
  BY <1>1 DEF RunInv, BodyIsKept
<1>3. "WEBFETCH" \in Code
  BY DEF Code
<1> QED
  BY <1>1, <1>2, <1>3, FinishItemIs

(* An article is refused, or stored with all that is owed of its text.     *)
LEMMA StoreArticleIs ==
    ASSUME RunInv, phase = "html", NEW text \in Seq(Piece), StoreArticle(text, Clean(text))
    PROVE  RunInv'
<1> DEFINE kept == Clean(text)
<1>1. "STORED" \in Code /\ "CANDIDATE_INVALID" \in Code
  BY DEF Code
<1>2. IsBody(text, kept)
  BY CleanIs
<1>3. Publisher(article) # None
  BY DEF RunInv, ArticleSound
<1> HIDE DEF kept
<1>4. CASE kept = {}
  <2>1. FinishItem("CANDIDATE_INVALID") /\ stored' = stored
    BY <1>4 DEF StoreArticle, kept
  <2>2. BodyIsKept'
    BY <2>1 DEF RunInv, BodyIsKept
  <2> QED
    BY <2>1, <2>2, <1>1, FinishItemIs
<1>5. CASE kept # {}
  <2>1. /\ FinishItem("STORED")
        /\ stored' = [text |-> text, kept |-> kept, publisher |-> Publisher(article)]
    BY <1>5 DEF StoreArticle, kept
  <2>2. stored'.text = text /\ stored'.kept = kept /\ stored'.publisher # None
    BY <2>1, <1>3
  <2>3. BodyIsKept'
    BY <2>2, <1>2, <1>5 DEF BodyIsKept, IsBody
  <2> QED
    BY <2>1, <2>3, <1>1, FinishItemIs
<1> QED
  BY <1>4, <1>5

LEMMA StoreIs ==
    ASSUME RunInv,
           \/ phase = "html" /\ \E html \in Htmls[Candidate.url.page] : StoreParagraphs(html)
           \/ StoreFlattened
    PROVE  RunInv'
<1>0. phase = "html" /\ article.text \in Seq(Piece)
  BY DEF StoreFlattened, RunInv, ArticleSound
<1>1. CASE StoreFlattened
  <2>1. StoreArticle(article.text, Clean(article.text))
    BY <1>1 DEF StoreFlattened
  <2> QED
    BY <1>0, <2>1, StoreArticleIs
<1>2. ASSUME NEW html \in Htmls[Candidate.url.page], StoreParagraphs(html)
      PROVE  RunInv'
  <2>1. Paragraphs(html) \in Seq(Piece)
    <3>1. html.detail \in Seq(Piece) /\ html.other \in Seq(Piece)
      BY <1>0, CandidateHasPage, AnswersAssumption DEF AnswersAssumption
    <3> QED
      BY <3>1 DEF Paragraphs
  <2>2. \/ StoreArticle(article.text, Clean(article.text))
        \/ StoreArticle(Paragraphs(html), Clean(Paragraphs(html)))
    BY <1>2 DEF StoreParagraphs
  <2> QED
    BY <1>0, <2>1, <2>2, StoreArticleIs
<1> QED
  BY <1>1, <1>2

LEMMA StoreRefusesIs ==
    ASSUME RunInv, StoreRefuses
    PROVE  RunInv'
<1>1. phase = "html" /\ FinishItem("REFUSED") /\ stored' = stored
  BY DEF StoreRefuses
<1>2. BodyIsKept'
  BY <1>1 DEF RunInv, BodyIsKept
<1>3. "REFUSED" \in Code
  BY DEF Code
<1> QED
  BY <1>1, <1>2, <1>3, FinishItemIs

(* A verified seed that was not stored fails the run.                      *)
LEMMA DecideIs ==
    ASSUME RunInv, Decide
    PROVE  RunInv'
<1>1. /\ phase = "next" /\ Len(results) = Len(found) /\ phase' = "done" /\ stored' = None
      /\ UNCHANGED <<task, attempt, entry, found, failed, article, results>>
  BY DEF Decide
<1>2. verdict' \in {None, "succeeded", "partially_succeeded", "failed"}
  BY DEF Decide
<1>3. found \in Seq(CandidateRow) /\ results \in Seq(Code)
  BY DEF RunInv, RunSound
<1>4. ASSUME NEW i \in DOMAIN found, found[i].verified, results[i] # "STORED"
      PROVE  verdict' = "failed"
  <2>1. i \in DOMAIN results
    BY <1>1, <1>3
  <2>2. Failed(i) /\ found[i].verified
    BY <1>4 DEF Failed
  <2> QED
    BY <2>1, <2>2 DEF Decide
<1>5. RunSound'
  BY <1>1, <1>2 DEF RunInv, RunSound, Phase
<1>6. SeedsSound'
  BY <1>1, <1>4 DEF RunInv, SeedsSound, SeedsAreFound
<1>7. ArticleSound' /\ BodyIsKept'
  BY <1>1 DEF ArticleSound, BodyIsKept
<1> QED
  BY <1>5, <1>6, <1>7 DEF RunInv

LEMMA WorkIs ==
    ASSUME RunInv, Work
    PROVE  RunInv'
BY RetryIs, EntryStepIs, NextCandidateIs, ExtractIs, ExtractFailsIs, StoreIs, StoreRefusesIs, DecideIs DEF Work

(* The steps of a run leave the catalogue alone.                           *)
LEMMA WorkKeepsCatalogue ==
    ASSUME Work
    PROVE  UNCHANGED environment
BY DEF Work, Retry, Merge, EntryFails, AfterEntry, NextCandidate, Extract, ExtractFails, FinishItem,
       StoreParagraphs, StoreFlattened, StoreArticle, StoreRefuses, Decide, environment, booting, catalogue

-----------------------------------------------------------------------------

LEMMA CollectionInitHolds == CollectionInit => CollectionIInv
BY CatalogueInit, RunInit DEF CollectionIInv

(* Each step keeps the invariant; a start-up step grows the catalogue, and *)
(* one that brings the server up leaves each scenario with its rule.       *)
LEMMA CollectionStepHolds ==
    ASSUME CollectionIInv, [CollectionNext]_collectionVars
    PROVE  /\ CollectionIInv'
           /\ BootStep => Grows
           /\ boot # None /\ boot' = None => \A n \in DOMAIN Scenario : \E r \in DOMAIN rules' : Complete(r, n)'
<1> DEFINE Completed == \A n \in DOMAIN Scenario : \E r \in DOMAIN rules' : Complete(r, n)'
<1>0. CatalogueInv /\ RunInv /\ RulesSound
  BY DEF CollectionIInv, CatalogueInv
<1>1. BootStep => Grows
  BY <1>0, EnsureIs, ImportIs, StartFailsIs DEF BootStep
<1>2. CASE BootStep
  <2>1. UNCHANGED run
    BY <1>2 DEF BootStep, Ensure, Import, StartFails
  <2>2. CatalogueInv' /\ (boot' = None => Completed)
    <3> HIDE DEF Completed
    <3>1. Ensure \/ StartFails => CatalogueInv' /\ boot' # None
      BY <1>0, EnsureIs, StartFailsIs
    <3>2. Import => CatalogueInv' /\ (boot' = None => Completed)
      BY <1>0, ImportIs DEF Completed
    <3> QED
      BY <1>2, <3>1, <3>2 DEF BootStep
  <2>3. RunInv'
    BY <1>0, <2>1, RunKept
  <2> QED
    BY <1>1, <2>2, <2>3 DEF CollectionIInv
<1>3. CASE \E to \in Domains : EditDomains(to)
  <2>1. UNCHANGED run
    BY <1>3 DEF EditDomains
  <2>2. CatalogueInv' /\ (boot' = None => boot = None)
    BY <1>0, <1>3, OthersKeepCatalogue
  <2> QED
    BY <1>0, <1>1, <2>1, <2>2, RunKept DEF CollectionIInv
<1>4. CASE \E r \in DOMAIN rules : RenameRule(r)
  <2>1. UNCHANGED run
    BY <1>4 DEF RenameRule
  <2>2. CatalogueInv' /\ (boot' = None => boot = None)
    BY <1>0, <1>4, OthersKeepCatalogue
  <2> QED
    BY <1>0, <1>1, <2>1, <2>2, RunKept DEF CollectionIInv
<1>5. CASE \E r \in DOMAIN rules : Start(r)
  <2>1. UNCHANGED environment
    BY <1>5 DEF Start
  <2>2. RunInv'
    BY <1>0, <1>5, StartIs
  <2> QED
    BY <1>0, <1>1, <2>1, <2>2, CatalogueKept DEF CollectionIInv
<1>6. CASE Work
  BY <1>0, <1>1, <1>6, WorkIs, WorkKeepsCatalogue, CatalogueKept DEF CollectionIInv
<1>7. CASE Dismiss
  <2>1. UNCHANGED environment /\ NoRun
    BY <1>7 DEF Dismiss
  <2> QED
    BY <1>0, <1>1, <2>1, NoRunIs, CatalogueKept DEF CollectionIInv
<1>8. CASE Crash
  <2>1. NoRun
    BY <1>8 DEF Crash
  <2>2. CatalogueInv' /\ (boot' = None => boot = None)
    BY <1>0, <1>8, OthersKeepCatalogue
  <2> QED
    BY <1>0, <1>1, <2>1, <2>2, NoRunIs DEF CollectionIInv
<1>9. CASE UNCHANGED collectionVars
  <2>1. UNCHANGED environment /\ UNCHANGED run
    BY <1>9 DEF collectionVars, environment
  <2> QED
    BY <1>0, <1>1, <2>1, RunKept, CatalogueKept DEF CollectionIInv
<1> QED
  BY <1>2, <1>3, <1>4, <1>5, <1>6, <1>7, <1>8, <1>9 DEF CollectionNext

(* The types hold: catalogue, start-up and run are what they are said to be. *)
THEOREM CollectionTypesHold == CollectionSpec => []CollectionTypeOK
<1>1. CollectionIInv => CollectionTypeOK
  BY DEF CollectionIInv, CatalogueInv, RulesSound, BootSound, RunInv, RunSound, CollectionTypeOK
<1>2. CollectionIInv /\ [CollectionNext]_collectionVars => CollectionIInv'
  BY CollectionStepHolds
<1> QED
  BY <1>1, <1>2, CollectionInitHolds, PTL DEF CollectionSpec

(* In every behaviour a verified seed of the window ends stored or fails   *)
(* its run, whatever discovery found beside it (TaskRunner._candidates and *)
(* the decision of run_claimed).                                           *)
THEOREM SeedsHold == CollectionSpec => []SeedsAreJudged
<1>1. CollectionIInv => SeedsAreJudged
  <2> SUFFICES ASSUME RunInv, phase = "done", NEW s \in Range(task.seeds), Lower <= s.day, s.day <= Upper
               PROVE  \E i \in DOMAIN found :
                        Canonical(found[i].url) = s.url /\ (results[i] = "STORED" \/ verdict = "failed")
    BY DEF CollectionIInv, SeedsAreJudged
  <2>1. PICK i \in DOMAIN found : Canonical(found[i].url) = s.url /\ found[i].verified
    BY DEF RunInv, SeedsSound, SeedsAreFound, InWindow
  <2>2. results[i] = "STORED" \/ verdict = "failed"
    BY <2>1 DEF RunInv, SeedsSound
  <2> QED
    BY <2>1, <2>2
<1>2. CollectionIInv /\ [CollectionNext]_collectionVars => CollectionIInv'
  BY CollectionStepHolds
<1> QED
  BY <1>1, <1>2, CollectionInitHolds, PTL DEF CollectionSpec

(* In every behaviour what is stored has all of its text and no decoration *)
(* in front, and a publisher (_clean_content, _paragraph_body, _publisher). *)
THEOREM BodiesHold == CollectionSpec => []BodyIsKept
<1>1. CollectionIInv => BodyIsKept
  BY DEF CollectionIInv, RunInv
<1>2. CollectionIInv /\ [CollectionNext]_collectionVars => CollectionIInv'
  BY CollectionStepHolds
<1> QED
  BY <1>1, <1>2, CollectionInitHolds, PTL DEF CollectionSpec

(* Of seeds with each address once, one has an address that one of them has. *)
LEMMA OneIs ==
    ASSUME NEW seeds, OneEach(seeds), NEW k \in DOMAIN seeds
    PROVE  Cardinality({j \in DOMAIN seeds : seeds[j].url = seeds[k].url}) = 1
<1>1. {j \in DOMAIN seeds : seeds[j].url = seeds[k].url} = {k}
  BY DEF OneEach
<1> QED
  BY <1>1, FS_Singleton

(* In every behaviour a start that succeeds, however often it was cut off  *)
(* before, leaves each scenario with its rule and each seed in it once,    *)
(* and takes nothing away (bootstrap_default_catalog).                     *)
THEOREM StartsHold == CollectionSpec => StartCompletes
<1> DEFINE Good == /\ boot # None /\ boot' = None =>
                        \A n \in DOMAIN Scenario : \E r \in DOMAIN rules' :
                            /\ rules'[r].name = Scenario[n].name
                            /\ \A i \in DOMAIN Scenario[n].seeds :
                                 Cardinality({j \in DOMAIN rules'[r].seeds : rules'[r].seeds[j].url = Scenario[n].seeds[i].url}) = 1
                   /\ BootStep =>
                        /\ domains # None => domains \subseteq domains'
                        /\ \A r \in DOMAIN rules : rules'[r].name = rules[r].name /\ IsPrefix(rules[r].seeds, rules'[r].seeds)
<1>1. ASSUME CollectionIInv, [CollectionNext]_collectionVars
      PROVE  Good
  <2>1. BootStep => Grows
    BY <1>1, CollectionStepHolds
  <2>2. RulesSound'
    <3>1. CollectionIInv'
      BY <1>1, CollectionStepHolds
    <3> QED
      BY <3>1 DEF CollectionIInv, CatalogueInv
  <2>3. ASSUME boot # None, boot' = None, NEW n \in DOMAIN Scenario
        PROVE  \E r \in DOMAIN rules' :
                 /\ rules'[r].name = Scenario[n].name
                 /\ \A i \in DOMAIN Scenario[n].seeds :
                      Cardinality({j \in DOMAIN rules'[r].seeds : rules'[r].seeds[j].url = Scenario[n].seeds[i].url}) = 1
    <3>1. PICK r \in DOMAIN rules' : Complete(r, n)'
      BY <1>1, <2>3, CollectionStepHolds
    <3>2. OneEach(rules'[r].seeds)
      BY <2>2, <3>1 DEF RulesSound
    <3>3. ASSUME NEW i \in DOMAIN Scenario[n].seeds
          PROVE  Cardinality({j \in DOMAIN rules'[r].seeds : rules'[r].seeds[j].url = Scenario[n].seeds[i].url}) = 1
      <4>1. PICK k \in DOMAIN rules'[r].seeds : rules'[r].seeds[k].url = Scenario[n].seeds[i].url
        BY <3>1 DEF Complete
      <4>2. Cardinality({j \in DOMAIN rules'[r].seeds : rules'[r].seeds[j].url = rules'[r].seeds[k].url}) = 1
        BY <3>2, OneIs
      <4> QED
        BY <4>1, <4>2
    <3> QED
      BY <3>1, <3>3 DEF Complete
  <2> QED
    BY <2>1, <2>3 DEF Grows
<1>2. CollectionIInv /\ [CollectionNext]_collectionVars => CollectionIInv'
  BY CollectionStepHolds
<1>3. CollectionIInv /\ [CollectionNext]_collectionVars => [Good]_collectionVars
  <2> HIDE DEF Good
  <2> QED
    BY <1>1
<1>4. StartCompletes <=> [][Good]_collectionVars
  BY DEF StartCompletes
<1> HIDE DEF Good
<1> QED
  BY <1>2, <1>3, <1>4, CollectionInitHolds, PTL DEF CollectionSpec
=============================================================================
