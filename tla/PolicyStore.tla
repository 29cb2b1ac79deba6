----------------------------- MODULE PolicyStore -----------------------------
(***************************************************************************)
(* The table of policies: PolicyService (policies/service.py), which the   *)
(* runs of all tasks call for every accepted article. A write is one       *)
(* transaction under the process-wide _WRITE_LOCK, so one action here; the *)
(* difficulty lies in what a long sequence of writes from several sources  *)
(* leaves in the table.                                                    *)
(*                                                                         *)
(* A title stands for the category and the title. Times are counted in     *)
(* slots of eight hours from midnight UTC: the third slot of a UTC day is  *)
(* the first one of the next day in Beijing (UTC+8).                       *)
(***************************************************************************)
EXTENDS Naturals, Sequences, FiniteSets, FiniteSetsExt

CONSTANTS
    Source,     \* sources of the rules, named by the domain they allow
    Url, Title, Hash,
    Slot,       \* publication times
    MaxPolicy,  \* bound: rows of the table
    MaxCrawl    \* bound: times of crawling

ASSUME StoreAssumption ==
    /\ Source \subseteq STRING
    /\ Slot \subseteq Nat
    /\ MaxPolicy \in Nat \ {0} /\ MaxCrawl \in Nat \ {0}

VARIABLES
    policies,   \* the rows of policies, by id
    revisions,  \* the rows of policy_revisions: policy and content
    written,    \* history: every content each policy ever had
    last        \* history: the last write and its outcome

vars == <<policies, revisions, written, last>>

Crawl == 1..MaxCrawl

(* PolicyWrite; a row of policies has the same fields.                     *)
Article == [source : Source, url : Url, title : Title, at : Slot, hash : Hash, crawled : Crawl]

(* What an article says, whenever it was crawled.                          *)
Report(a) == [source |-> a.source, url |-> a.url, title |-> a.title, at |-> a.at, hash |-> a.hash]

Outcome == {"stored", "updated", "duplicate", "conflict"}

NoWrite == [outcome |-> "none"]

Ids == DOMAIN policies

TypeOK ==
    /\ policies \in Seq(Article) /\ Len(policies) <= MaxPolicy
    /\ revisions \subseteq (1..MaxPolicy) \X Hash
    /\ written \subseteq (1..MaxPolicy) \X Hash
    /\ last # NoWrite =>
        /\ last.report \in [source : Source, url : Url, title : Title, at : Slot, hash : Hash]
        /\ last.outcome \in Outcome

Init ==
    /\ policies = <<>>
    /\ revisions = {} /\ written = {}
    /\ last = NoWrite

-----------------------------------------------------------------------------
(* What the write looks up.                                                *)

(* _source_priority.                                                       *)
Priority(s) ==
    CASE s \in {"news.cn", "xinhuanet.com"} -> 3
      [] s = "people.com.cn" -> 2
      [] s = "cctv.com" -> 1
      [] OTHER -> 0

UtcDay(t) == t \div 3
BeijingDay(t) == (t + 1) \div 3

(* The row with the least id, or 0.                                        *)
First(S) == IF S = {} THEN 0 ELSE Min(S)

(* get_by_meeting_key. The stored text of published_at is a UTC time, and  *)
(* SQLite's date() takes the day of that text.                             *)
Meeting(a) ==
    First({p \in Ids : policies[p].title = a.title /\ UtcDay(policies[p].at) = BeijingDay(a.at)})

(* The meeting is known from another source.                               *)
Foreign(a) == Meeting(a) # 0 /\ policies[Meeting(a)].source # a.source

(* Broken variant: a source of the same rank takes the policy over.        *)
OutranksOrEquals(a, p) == Priority(a.source) >= Priority(policies[p].source)

Outranks(a, p) == Priority(a.source) > Priority(policies[p].source)

SameUrl(a) == {p \in Ids : policies[p].source = a.source /\ policies[p].url = a.url}

SameHash(a) == {p \in Ids : policies[p].source = a.source /\ policies[p].hash = a.hash}

(* get_by_source_url, then get_by_source_hash.                             *)
Known(a) == IF SameUrl(a) # {} THEN First(SameUrl(a)) ELSE First(SameHash(a))

-----------------------------------------------------------------------------
(* upsert.                                                                 *)

Latest(a, p) == IF a.crawled > policies[p].crawled THEN a.crawled ELSE policies[p].crawled

Answer(a, outcome) == last' = [report |-> Report(a), outcome |-> outcome]

(* Broken variant: the former content is overwritten.                      *)
ReplaceWithoutRevision(p, new) ==
    /\ policies' = [policies EXCEPT ![p] = new]
    /\ written' = written \cup {<<p, new.hash>>}
    /\ UNCHANGED revisions

(* Row p becomes new, its content goes to the revisions.                   *)
Replace(p, new) ==
    /\ policies' = [policies EXCEPT ![p] = new]
    /\ revisions' = revisions \cup {<<p, policies[p].hash>>}
    /\ written' = written \cup {<<p, new.hash>>}

(* The meeting is known from a source that is at least as authoritative.   *)
ForeignDuplicate(a) ==
    /\ ~Outranks(a, Meeting(a))
    /\ Answer(a, "duplicate")
    /\ UNCHANGED <<policies, revisions, written>>

(* Broken variants: the row keeps its source; it takes any crawl time.     *)
UpgradedKeepingSource(a, p) == [a EXCEPT !.source = policies[p].source, !.crawled = Latest(a, p)]
UpgradedAsCrawled(a, p) == a

Upgraded(a, p) == [a EXCEPT !.crawled = Latest(a, p)]

(* _upgrade_meeting: the row becomes the article of the better source ...  *)
UpgradeMeeting(a) ==
    /\ Outranks(a, Meeting(a))
    /\ SameUrl(a) = {}
    /\ Replace(Meeting(a), Upgraded(a, Meeting(a)))
    /\ Answer(a, "updated")

(* ... unless a row has that source and address already: the unique        *)
(* constraint rolls the transaction back, POLICY_WRITE_CONFLICT.           *)
WriteConflict(a) ==
    /\ Outranks(a, Meeting(a))
    /\ SameUrl(a) # {}
    /\ Answer(a, "conflict")
    /\ UNCHANGED <<policies, revisions, written>>

Store(a) ==
    /\ Known(a) = 0
    /\ Len(policies) < MaxPolicy
    /\ policies' = Append(policies, a)
    /\ written' = written \cup {<<Len(policies) + 1, a.hash>>}
    /\ Answer(a, "stored")
    /\ UNCHANGED revisions

SameContent(a) ==
    /\ Known(a) # 0
    /\ policies[Known(a)].hash = a.hash
    /\ policies' = [policies EXCEPT ![Known(a)].crawled = Latest(a, Known(a))]
    /\ Answer(a, "duplicate")
    /\ UNCHANGED <<revisions, written>>

(* The article of a known address has changed. Its row keeps the address.  *)
UpdateContent(a) ==
    /\ Known(a) # 0
    /\ policies[Known(a)].hash # a.hash
    /\ Replace(Known(a), [a EXCEPT !.crawled = Latest(a, Known(a))])
    /\ Answer(a, "updated")

(* The two stages of _upsert: across the sources, then within one.         *)
AcrossSources(a) ==
    /\ Foreign(a)
    /\ ForeignDuplicate(a) \/ UpgradeMeeting(a) \/ WriteConflict(a)

WithinSource(a) ==
    /\ ~Foreign(a)
    /\ Store(a) \/ SameContent(a) \/ UpdateContent(a)

Upsert(a) == AcrossSources(a) \/ WithinSource(a)

Next == \E a \in Article : Upsert(a)

Spec == Init /\ [][Next]_vars

-----------------------------------------------------------------------------
(* No text is lost: all contents a policy ever had are its present one and *)
(* its revisions.                                                          *)
NothingIsLost ==
    written = revisions \cup {<<p, policies[p].hash>> : p \in Ids}

(* In whatever order the articles of the sources, crawled by several      *)
(* tasks, are written: a policy changes its source only for a more         *)
(* authoritative one, and its last_crawled_at never goes back.             *)
PoliciesNeverFallBack ==
    [][\A p \in Ids :
        /\ policies'[p].source # policies[p].source =>
              Priority(policies'[p].source) > Priority(policies[p].source)
        /\ policies'[p].crawled >= policies[p].crawled]_vars

(* Collecting the same article once more, as a task that is run again      *)
(* does, changes nothing but crawl times. (By day; reports of the night    *)
(* may miss the row they have just updated, see OnePolicyPerMeeting.)      *)
ByDay(t) == UtcDay(t) = BeijingDay(t)

RepeatIsDuplicate ==
    [][(/\ \A p \in Ids : ByDay(policies[p].at)
        /\ last # NoWrite
        /\ last.outcome \in {"stored", "updated"}
        /\ last'.report = last.report)
       => /\ last'.outcome = "duplicate"
          /\ Len(policies') = Len(policies)
          /\ \A p \in Ids : Report(policies'[p]) = Report(policies[p])]_vars

(* A meeting two sources report has one policy.                            *)
OnePolicyPerMeeting ==
    \A p, q \in Ids :
        /\ policies[p].title = policies[q].title
        /\ BeijingDay(policies[p].at) = BeijingDay(policies[q].at)
        => policies[p].source = policies[q].source

(* An article whose address its source has stored before is always settled *)
(* by that row: afterwards the row has its content.                        *)
OwnRowIsUpdated ==
    last # NoWrite =>
        \A p \in SameUrl(last.report) : policies[p].hash = last.report.hash
=============================================================================
