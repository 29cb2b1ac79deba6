----------------------------- MODULE Collection -----------------------------
(***************************************************************************)
(* From the packaged seeds to a stored article. Every start brings the     *)
(* catalogue up to the packaged scenarios, two transactions for each       *)
(* (sources/bootstrap.py, SourceService.import_seed_urls); operators       *)
(* change the allowed domains and rename rules in between; a task freezes  *)
(* a rule and its run asks WebFetch, with retries (collectors/webfetch.py),*)
(* for the addresses of the rule, for each candidate, and once more for    *)
(* the paragraphs of what it accepts (tasks/runner.py).                    *)
(*                                                                         *)
(* What else comes between the steps of a run, cancelling and the rows it  *)
(* writes, is in TaskRun; here a death of the process ends it.             *)
(***************************************************************************)
EXTENDS Collector

CONSTANTS
    Scenario,       \* sequence of [name, domains, seeds]: DEFAULT_SCENARIOS
    MaxRules,       \* bound: rules there ever are
    Domains,        \* bound: the sets of allowed domains an operator writes
    Entries,        \* addresses of every rule: sequence of [origin, links]
    Articles,       \* what extract_article may return, for each page
    Htmls,          \* what fetch_text may return, for each page
    DayOfUrl,       \* the day in each address, or None
    Readable,       \* pages whose address has its day in a form the collector knows
    Lower, Upper,   \* the rolling window
    MaxAttempts,    \* of WebFetchClient
    MaxEdits, MaxCrashes \* bounds

ASSUME CollectionAssumption ==
    /\ MaxAttempts \in Nat \ {0} /\ MaxRules \in Nat /\ MaxEdits \in Nat /\ MaxCrashes \in Nat
    /\ Lower \in Nat /\ Upper \in Nat
    /\ None \notin {"agency", "site"} /\ None \notin [at : Nat, import : BOOLEAN]
    /\ Domains \subseteq SUBSET Host
    /\ Scenario \in Seq(Range(Scenario)) /\ Scenario # <<>>
    /\ \A n \in DOMAIN Scenario :
         Scenario[n].domains \subseteq Host /\ Scenario[n].seeds \in Seq(Range(Scenario[n].seeds))
    \* load_seed_manifest: hosts under the domains of the publishers, days as in the address, no address twice
    /\ \A n \in DOMAIN Scenario : \A i \in DOMAIN Scenario[n].seeds :
         LET seed == Scenario[n].seeds[i] IN
         /\ seed.url \in Address /\ seed.day \in Nat
         /\ Under(seed.url.host, Scenario[n].domains)
         /\ seed.url = Canonical(seed.url) /\ seed.verified
         /\ DayOfUrl[seed.url.page] = seed.day
         /\ \A j \in DOMAIN Scenario[n].seeds : Scenario[n].seeds[j].url = seed.url => i = j

\* The shape of what comes from outside.
ASSUME AnswersAssumption ==
    /\ Entries \in Seq(Range(Entries))
    /\ \A n \in DOMAIN Entries :
         /\ Entries[n].origin \in Address
         /\ Entries[n].links \in Seq(Range(Entries[n].links))
         /\ \A i \in DOMAIN Entries[n].links : Entries[n].links[i].href \in Address
    /\ \A page \in Page :
         /\ \A extracted \in Articles[page] : extracted.text \in Seq(Piece \ {"break"})
         /\ \A html \in Htmls[page] : html.detail \in Seq(Piece) /\ html.other \in Seq(Piece)

VARIABLES
    domains, \* sources.allowed_domains_json, or None before the first start
    rules,   \* collection_rules: sequence of [name, seeds]
    boot,    \* where start-up is: [at, import], or None while the server is up
    rule,    \* the rule of the scenario being brought up
    task,    \* the snapshot of the task: [domains, seeds], or None
    phase,   \* where its run is
    attempt, \* number of the request to WebFetch
    entry,   \* number of the address being fetched
    found,   \* the table of candidates
    failed,  \* addresses that failed
    article, \* what was extracted for the current candidate
    results, \* how each candidate ended, in order
    stored,  \* the article just stored, or None: its text, the places kept of it, its publisher
    verdict, \* how the run ended, or None
    edits, crashes

catalogue == <<domains, rules>>
booting == <<boot, rule>>
run == <<task, phase, attempt, entry, found, failed, article, results, stored, verdict>>
collectionVars == <<catalogue, booting, run, edits, crashes>>

Down == [at |-> 1, import |-> FALSE]

NoRun == /\ task' = None /\ phase' = "none" /\ attempt' = 1 /\ entry' = 1 /\ found' = <<>>
         /\ failed' = 0 /\ article' = None /\ results' = <<>> /\ stored' = None /\ verdict' = None

CollectionInit ==
    /\ domains = None /\ rules = <<>>
    /\ boot = Down /\ rule = None
    /\ task = None /\ phase = "none" /\ attempt = 1 /\ entry = 1 /\ found = <<>>
    /\ failed = 0 /\ article = None /\ results = <<>> /\ stored = None /\ verdict = None
    /\ edits = 0 /\ crashes = 0

Phase == {"none", "entry", "next", "extract", "html", "done"}

CollectionTypeOK ==
    /\ domains = None \/ domains \subseteq Host
    /\ Len(rules) <= MaxRules
    /\ boot = None \/ boot.at \in DOMAIN Scenario
    /\ phase \in Phase
    /\ attempt \in 1..MaxAttempts /\ entry \in 1..Len(Entries) + 1
    /\ Len(results) <= Len(found)
    /\ verdict \in {None, "succeeded", "partially_succeeded", "failed"}
    /\ edits \in 0..MaxEdits /\ crashes \in 0..MaxCrashes

-----------------------------------------------------------------------------
(* Start-up: bootstrap_default_catalog.                                    *)

\* _ensure_rule finds the rule by its name.
Named(name) == {r \in DOMAIN rules : rules[r].name = name}

(* Broken variant: the default domains replace what is there.              *)
WidenedToDefaults(defaults) == defaults

\* _ensure_default_source and _widen_default_allowed_domains.
Widened(defaults) == IF domains = None THEN defaults ELSE domains \cup defaults

Ensure ==
    /\ boot # None /\ ~boot.import
    /\ LET scenario == Scenario[boot.at] IN
       /\ domains' = Widened(scenario.domains)
       /\ IF Named(scenario.name) # {}
          THEN rule' = Min(Named(scenario.name)) /\ UNCHANGED rules
          ELSE /\ Len(rules) < MaxRules
               /\ rules' = Append(rules, [name |-> scenario.name, seeds |-> <<>>])
               /\ rule' = Len(rules) + 1
    /\ boot' = [boot EXCEPT !.import = TRUE]
    /\ UNCHANGED <<run, edits, crashes>>

MissingSeeds(seeds) ==
    Selected(seeds, {i \in DOMAIN seeds : \A j \in DOMAIN rules[rule].seeds : rules[rule].seeds[j].url # seeds[i].url})

\* import_seed_urls: all of them or none.
Import ==
    LET seeds == Scenario[boot.at].seeds IN
    /\ boot # None /\ boot.import
    /\ \A i \in DOMAIN seeds : Under(seeds[i].url.host, domains)
    /\ rules' = [rules EXCEPT ![rule].seeds = @ \o MissingSeeds(seeds)]
    /\ boot' = IF boot.at = Len(Scenario) THEN None ELSE [at |-> boot.at + 1, import |-> FALSE]
    /\ rule' = None
    /\ UNCHANGED <<domains, run, edits, crashes>>

\* A domain was taken away since: the start fails and is tried again.
StartFails ==
    /\ boot # None /\ boot.import
    /\ \E i \in DOMAIN Scenario[boot.at].seeds : ~Under(Scenario[boot.at].seeds[i].url.host, domains)
    /\ boot' = Down /\ rule' = None
    /\ UNCHANGED <<catalogue, run, edits, crashes>>

\* Operators: the column is edited in the database, the name through update_rule.
EditDomains(to) ==
    /\ domains # None /\ domains # to /\ edits < MaxEdits
    /\ domains' = to
    /\ edits' = edits + 1
    /\ UNCHANGED <<rules, booting, run, crashes>>

RenameRule(r) ==
    /\ boot = None /\ edits < MaxEdits
    /\ rules' = [rules EXCEPT ![r].name = None]
    /\ edits' = edits + 1
    /\ UNCHANGED <<domains, booting, run, crashes>>

Crash ==
    /\ crashes < MaxCrashes
    /\ boot' = Down /\ rule' = None
    /\ NoRun
    /\ crashes' = crashes + 1
    /\ UNCHANGED <<catalogue, edits>>

-----------------------------------------------------------------------------
(* WebFetchClient._post_with_retries.                                      *)

Asking == phase \in {"entry", "extract", "html"}

(* Broken variant: the client asks until it is answered.                   *)
RetryForever ==
    /\ Asking
    /\ attempt' = IF attempt < MaxAttempts THEN attempt + 1 ELSE 1
    /\ UNCHANGED <<catalogue, booting, task, phase, entry, found, failed, article, results, stored, verdict, edits, crashes>>

\* No answer, or an error that may be retried: after a wait the client asks again.
Retry ==
    /\ Asking /\ attempt < MaxAttempts
    /\ attempt' = attempt + 1
    /\ UNCHANGED <<catalogue, booting, task, phase, entry, found, failed, article, results, stored, verdict, edits, crashes>>

-----------------------------------------------------------------------------
(* The run of a task: TaskRunner.run_claimed.                              *)

environment == <<catalogue, booting, edits, crashes>>

\* Create freezes the rule (TaskRequestSnapshot); load starts with its seeds.
Start(r) ==
    /\ boot = None /\ phase = "none"
    /\ task' = [domains |-> domains, seeds |-> rules[r].seeds]
    /\ found' = SeedCandidates(rules[r].seeds, Lower, Upper)
    /\ phase' = IF Entries = <<>> THEN "next" ELSE "entry"
    /\ UNCHANGED <<environment, attempt, entry, failed, article, results, stored, verdict>>

AfterEntry ==
    /\ entry' = entry + 1
    /\ phase' = IF entry = Len(Entries) THEN "next" ELSE "entry"
    /\ attempt' = 1
    /\ UNCHANGED <<environment, task, article, results, stored, verdict>>

Merge ==
    /\ phase = "entry"
    /\ found' = MergeLinks(found, Discover(Entries[entry].links, Entries[entry].origin, task.domains))
    /\ UNCHANGED failed
    /\ AfterEntry

\* The last attempt has failed, the error is final, or the document cannot be read.
EntryFails ==
    /\ phase = "entry"
    /\ failed' = failed + 1
    /\ UNCHANGED found
    /\ AfterEntry

Candidate == found[Len(results) + 1]

NextCandidate ==
    /\ phase = "next" /\ Len(results) < Len(found)
    /\ phase' = "extract" /\ stored' = None
    /\ UNCHANGED <<environment, task, attempt, entry, found, failed, article, results, verdict>>

\* The item is finished with a code: what it is then follows from the code.
FinishItem(code) ==
    /\ results' = Append(results, code)
    /\ phase' = "next" /\ attempt' = 1 /\ article' = None
    /\ UNCHANGED <<environment, task, entry, found, failed, verdict>>

\* PolicyWrite refuses an empty text.
StoreArticle(text, kept) ==
    IF kept = {} THEN FinishItem("CANDIDATE_INVALID") /\ UNCHANGED stored
    ELSE /\ FinishItem("STORED")
         /\ stored' = [text |-> text, kept |-> kept, publisher |-> Publisher(article)]

\* The manifest knows four forms of days in addresses, _published_at two of them.
DayRead(page) == IF page \in Readable THEN DayOfUrl[page] ELSE None

\* What extract_article returned is classified against the frozen rule.
Judgement(extracted) ==
    LET url == Canonical(Candidate.url)
        published == PublishedAt(extracted, DayRead(url.page))
    IN IF SeedMismatch(Candidate, extracted, published) THEN "SEED_MISMATCH"
       ELSE IF published # None /\ published > Upper THEN "OUTSIDE_WINDOW"
       ELSE Classify(url, extracted, published, task.domains, Lower)

Extract(extracted) ==
    /\ phase = "extract"
    /\ IF Judgement(extracted) = "ACCEPTED"
       THEN /\ phase' = "html" /\ attempt' = 1 /\ article' = extracted
            /\ UNCHANGED <<environment, task, entry, found, failed, results, stored, verdict>>
       ELSE FinishItem(Judgement(extracted)) /\ UNCHANGED stored

ExtractFails ==
    /\ phase = "extract"
    /\ FinishItem("WEBFETCH") /\ UNCHANGED stored

\* _paragraph_body, and the article is stored.
StoreParagraphs(html) ==
    LET kept == Clean(Paragraphs(html)) IN
    /\ phase = "html"
    /\ IF kept = {} THEN StoreArticle(article.text, Clean(article.text)) ELSE StoreArticle(Paragraphs(html), kept)

StoreFlattened == phase = "html" /\ StoreArticle(article.text, Clean(article.text))

\* PolicyWrite refuses something else, or the store the policy.
StoreRefuses == phase = "html" /\ FinishItem("REFUSED") /\ UNCHANGED stored

\* Seeds may not be filtered: what filters an ordinary candidate fails them.
Failed(i) ==
    \/ results[i] \in {"WEBFETCH", "CANDIDATE_INVALID", "REFUSED"}
    \/ found[i].verified /\ results[i] # "STORED"

Productive == \E i \in DOMAIN results : ~Failed(i)

Decide ==
    /\ phase = "next" /\ Len(results) = Len(found)
    /\ verdict' =
         IF \E i \in DOMAIN results : Failed(i) /\ found[i].verified THEN "failed"
         ELSE IF failed > 0 /\ failed = Len(Entries) THEN "failed"
         ELSE IF failed > 0 \/ \E i \in DOMAIN results : Failed(i)
              THEN IF Productive THEN "partially_succeeded" ELSE "failed"
         ELSE "succeeded"
    /\ phase' = "done" /\ stored' = None
    /\ UNCHANGED <<environment, task, attempt, entry, found, failed, article, results>>

Dismiss == phase = "done" /\ NoRun /\ UNCHANGED environment

-----------------------------------------------------------------------------

Work ==
    \/ Retry
    \/ Merge \/ EntryFails
    \/ NextCandidate
    \/ phase = "extract" /\ \E extracted \in Articles[Candidate.url.page] : Extract(extracted)
    \/ ExtractFails
    \/ phase = "html" /\ \E html \in Htmls[Candidate.url.page] : StoreParagraphs(html)
    \/ StoreFlattened \/ StoreRefuses
    \/ Decide

BootStep == Ensure \/ Import \/ StartFails

CollectionNext ==
    \/ BootStep
    \/ \E to \in Domains : EditDomains(to)
    \/ \E r \in DOMAIN rules : RenameRule(r) \/ Start(r)
    \/ Work \/ Dismiss \/ Crash

\* The place of a run: each step of Work changes it. Work is enabled whenever
\* Moves is, so fairness of Moves is fairness of Work, and cheaper to evaluate.
place == <<phase, attempt, entry>>

Moves ==
    /\ phase \notin {"none", "done"}
    /\ phase' \in Phase /\ attempt' \in 1..MaxAttempts /\ entry' \in 1..Len(Entries) + 1

(* A run goes on to its end in its thread; nothing else is due.            *)
CollectionSpec == CollectionInit /\ [][CollectionNext]_collectionVars /\ WF_place(Moves)

-----------------------------------------------------------------------------

(* However often a start was cut off before, one that succeeds leaves each *)
(* scenario with a rule that has every packaged seed once, and it takes    *)
(* away no domain, rule or seed that was there.                            *)
StartCompletes ==
    [][/\ boot # None /\ boot' = None =>
            \A n \in DOMAIN Scenario : \E r \in DOMAIN rules' :
                /\ rules'[r].name = Scenario[n].name
                /\ \A i \in DOMAIN Scenario[n].seeds :
                     Cardinality({j \in DOMAIN rules'[r].seeds : rules'[r].seeds[j].url = Scenario[n].seeds[i].url}) = 1
       /\ BootStep =>
            /\ domains # None => domains \subseteq domains'
            /\ \A r \in DOMAIN rules : rules'[r].name = rules[r].name /\ IsPrefix(rules[r].seeds, rules'[r].seeds)]_collectionVars

(* A verified seed of the window is judged whatever discovery finds beside *)
(* it: it ends stored, as the seed it is, or it fails the run.             *)
SeedsAreJudged ==
    phase = "done" => \A s \in Range(task.seeds) : Lower <= s.day /\ s.day <= Upper =>
        \E i \in DOMAIN found :
            /\ Canonical(found[i].url) = s.url
            /\ results[i] = "STORED" \/ verdict = "failed"

\* A place in a line that begins with the label of a credit.
Credited(s, k) ==
    \E j \in 1..k :
        /\ s[j] = "label" /\ \A h \in j..k : s[h] # "break"
        /\ \A i \in 1..j - 1 : s[i] \in {"mark", "block"} \/ \E h \in i..j : s[h] = "break"

\* The places whose loss is the loss of text: policy text before the mark of the next
\* article, and a date it begins with, unless a label leads the line.
Owed(s) ==
    {k \in DOMAIN s :
        /\ \A j \in 1..k : s[j] # "next"
        /\ ~Credited(s, k)
        /\ \/ s[k] = "text"
           \/ /\ s[k] = "date" /\ k < Len(s) /\ s[k + 1] = "text"
              /\ \A j \in 1..k : s[j] \in Sign => \E h \in j..k : s[h] = "break"}

(* What is stored, of the paragraphs or of the flattened text, has all of  *)
(* the policy text before the mark of the next article, but for what is in *)
(* a line that begins with the label of a credit, inside a credit block or *)
(* glued to a breadcrumb. It is not empty, begins with no breadcrumb or    *)
(* source and ends with text, and no two blank lines stand together. Its   *)
(* publisher is known, without which the store would refuse the policy.    *)
BodyIsKept ==
    stored # None =>
        LET s == stored.text
            kept == stored.kept
        IN /\ stored.publisher # None
           /\ Owed(s) \subseteq kept
           /\ kept # {}
           /\ \A k \in kept : s[k] \in Sign \cup {"break"} => \E j \in kept : j < k
           /\ \A k \in kept : s[k] = "break" => \E j \in kept : k < j
           /\ \A i, j, k \in kept : i < j /\ j < k =>
                \E h \in kept : i <= h /\ h <= k /\ s[h] # "break"

(* policy-content-cleaning/spec.md, lines 19 and 48 to 50: cleaning does   *)
(* not refuse an article that was accepted, and the fallback to the        *)
(* flattened text never yields an empty body. So no item fails because its *)
(* text is empty.                                                          *)
BodyIsNeverEmpty == \A i \in DOMAIN results : results[i] # "CANDIDATE_INVALID"

(* WebFetch may answer each request with "try again": a run still ends.    *)
RunsEnd == phase = "entry" ~> phase \in {"done", "none"}

(* sources/bootstrap.py, lines 32 to 35: a host is allowed when it is one  *)
(* of the domains or a subdomain of one. So a seed that start-up accepts   *)
(* is not refused for its host by the run.                                 *)
SubdomainsAreAllowed ==
    \A i \in DOMAIN results : found[i].verified => results[i] # "DOMAIN_NOT_ALLOWED"
=============================================================================
