------------------------------ MODULE Collector ------------------------------
(***************************************************************************)
(* What the collector decides without asking anybody: which addresses are  *)
(* allowed, which links are candidates, when an article was published and  *)
(* whether it is accepted, and what of a page is its body          *)
(* (collectors/xinhua.py, sources/url_validation.py, tasks/runner.py).     *)
(*                                                                         *)
(* Texts are reduced to what is looked for in them. A title is "meets"     *)
(* when it holds a keyword to include and none to exclude, "excluded" when *)
(* it holds both, else "other". A time is a day in Beijing.                *)
(***************************************************************************)
EXTENDS Naturals, Sequences, SequencesExt

CONSTANTS
    Host,   \* names of hosts, each a domain too
    Parent, \* the domain above each host, or None
    Page,   \* paths
    None    \* no host, no time, no parent

\* What stands in a sequence at some of its places, in order.
Selected(s, places) ==
    LET nth(k) == CHOOSE i \in places : Cardinality({j \in places : j <= i}) = k
    IN [k \in 1..Cardinality(places) |-> s[nth(k)]]

-----------------------------------------------------------------------------
(* Addresses.                                                              *)

\* An address as it is written: `host` is None when normalized_http_hostname rejects it;
\* `plain` when it has no tracking parameter, default port, fragment or capital.
Address == [host: Host \cup {None}, page: Page, plain: BOOLEAN]

Canonical(url) == [url EXCEPT !.plain = TRUE]

\* _validate_url_domain, when rules and seeds are stored.
Under(host, domains) == host \in domains \/ (host \in Host /\ Parent[host] \in domains)

\* The collector itself compares whole names.
Listed(host, domains) == host \in domains

-----------------------------------------------------------------------------
(* Discovery. A link is [href: Address, text: title, relative: BOOLEAN].       *)

Absolute(link, origin) == IF link.relative THEN [link.href EXCEPT !.host = origin.host] ELSE link.href

\* _append_candidate, but for addresses it has seen.
IsCandidate(link, origin, domains) ==
    LET url == Absolute(link, origin) IN
    link.text = "meets" /\ url.host # None /\ Listed(url.host, domains)

\* discover_from_rss and discover_from_links, for a document that can be read: each address once.
Discover(links, origin, domains) ==
    LET url == [i \in DOMAIN links |-> Canonical(Absolute(links[i], origin))]
        taken == {i \in DOMAIN links : IsCandidate(links[i], origin, domains)}
    IN Selected(url, {i \in taken : \A j \in taken : url[j] = url[i] => i <= j})

\* A candidate is [url, verified, title, day].
SeedCandidate(seed) == [url |-> seed.url, verified |-> seed.verified, title |-> seed.title, day |-> seed.day]

\* The part of _candidates for seeds, in order of insertion: a verified seed takes
\* the place of what is there for its address, another only a free place.
SeedCandidates(seeds, lower, upper) ==
    LET window == {i \in DOMAIN seeds : lower <= seeds[i].day /\ seeds[i].day <= upper}
        same(i) == {j \in window : Canonical(seeds[j].url) = Canonical(seeds[i].url)}
        verified(i) == {j \in same(i) : seeds[j].verified}
        chosen(i) == IF verified(i) = {} THEN i ELSE Max(verified(i))
    IN Selected([i \in DOMAIN seeds |-> SeedCandidate(seeds[chosen(i)])],
                {i \in window : \A j \in same(i) : i <= j})

Ordinary(url) == [url |-> url, verified |-> FALSE, title |-> None, day |-> None]

\* The addresses that have no candidate.
NewLinks(ordered, links) ==
    Selected(links, {i \in DOMAIN links : \A j \in DOMAIN ordered : Canonical(ordered[j].url) # Canonical(links[i])})

(* Broken variant: a link replaces the seed for the same address.          *)
MergeOver(ordered, links) ==
    [i \in DOMAIN ordered |-> IF Canonical(ordered[i].url) \in Range(links) THEN Ordinary(ordered[i].url) ELSE ordered[i]]
    \o [i \in DOMAIN NewLinks(ordered, links) |-> Ordinary(NewLinks(ordered, links)[i])]

\* _merge_links: setdefault; no link is there twice.
MergeLinks(ordered, links) ==
    ordered \o [i \in DOMAIN NewLinks(ordered, links) |-> Ordinary(NewLinks(ordered, links)[i])]

-----------------------------------------------------------------------------
(* Classification of an article                                            *)
(*   [title, lead, video, long: BOOLEAN, author, marks, hint, dates, named]*)
(* `marks` are the phrases for a source in the text. `hint` and `dates`    *)
(* are the times written in the hint and in the text, each [at, kind, day] *)
(* with its place and its pattern: 0 for an instant with its zone, which   *)
(* the pattern for a local date, 1, finds at the same place, with the day  *)
(* as it is written.                                                       *)

\* _first_datetime: by place, then by pattern.
FirstDatetime(times) ==
    IF times = {} THEN None
    ELSE (CHOOSE t \in times : \A u \in times : t.at < u.at \/ (t.at = u.at /\ t.kind <= u.kind)).day

\* _published_at: the hint, the text, the address.
PublishedAt(article, dayOfUrl) ==
    LET told == <<FirstDatetime(article.hint), FirstDatetime(article.dates), dayOfUrl>>
        known == {i \in 1..3 : told[i] # None}
    IN IF known = {} THEN None ELSE told[Min(known)]

OfficialAuthor == {"agency", "site"}

IsOfficialSource(article) ==
    article.author \in OfficialAuthor \/ article.marks \cap {"beijing", "from site", "from agency"} # {}

Publisher(article) ==
    IF article.author \in OfficialAuthor THEN article.author
    ELSE IF article.marks \cap {"from agency", "beijing"} # {} THEN "agency"
    ELSE IF "from site" \in article.marks THEN "site" ELSE None

\* classify: the first of the reasons that applies.
Classify(url, article, published, domains, cutoff) ==
    LET Reason(code, applies) == [code |-> code, applies |-> applies]
        reasons == <<
            Reason("DOMAIN_NOT_ALLOWED", ~Listed(url.host, domains)),
            Reason("TITLE_NOT_MATCHED", article.title = "other"),
            Reason("EXCLUDED_KEYWORD", article.title = "excluded"),
            Reason("VIDEO_ONLY", ~article.long /\ article.video),
            Reason("LEAD_NOT_MATCHED", ~article.lead),
            Reason("SOURCE_NOT_OFFICIAL", ~IsOfficialSource(article)),
            Reason("PUBLISHED_AT_MISSING", published = None),
            Reason("OUTSIDE_WINDOW", published # None /\ published < cutoff),
            Reason("CONTENT_TOO_SHORT", ~article.long)>>
        applying == {i \in DOMAIN reasons : reasons[i].applies}
    IN IF applying = {} THEN "ACCEPTED" ELSE reasons[Min(applying)].code

\* _seed_mismatch; `named` is the title as it is written.
SeedMismatch(candidate, article, published) ==
    /\ candidate.verified
    /\ article.named # candidate.title \/ published # candidate.day

-----------------------------------------------------------------------------
(* Bodies. A text is a sequence of pieces: "text" of the policy, a "date", *)
(* a "crumb" or one "glued" to policy text, which goes with it, a "source" *)
(* marker, the "label" of a credit (its names are in it), the "seal" of    *)
(* those who made a video, a correction "mark" or toolbar, a credit        *)
(* "block" from a label to a seal near it, whatever is between, the mark   *)
(* of the "next" article, a tracking "id", and the "break" between lines.  *)

Piece == {"text", "date", "crumb", "glued", "source", "label", "seal", "mark", "block", "next", "id", "break"}

\* _DECORATIVE_SEGMENT, and the segments that cannot be the beginning of a text.
Decor == {"date", "crumb", "glued", "source"}
Sign == {"crumb", "glued", "source"}

\* _clean_content keeps some of the places of a text. First, those before the mark of
\* the next article, without what goes wherever it stands.
Inline(s) == {k \in DOMAIN s : s[k] \notin {"mark", "block"} /\ \A j \in 1..k : s[j] # "next"}

\* Those in the line of a place.
Line(s, places, k) == {j \in places : \A i \in (j..k) \cup (k..j) : s[i] # "break"}

\* _CREDIT_LINE: a line that begins with a label, whatever follows, or a seal alone.
IsCredit(s, line) ==
    \/ \E j \in line : s[j] = "label" /\ \A i \in line : j <= i
    \/ \E j \in line : s[j] = "seal" /\ line = {j}

\* Then the lines of credits go at both ends, and at the front those of decoration alone.
Between(s, places) ==
    LET worded == {k \in places : s[k] # "break" /\ ~IsCredit(s, Line(s, places, k))}
        first == {k \in worded : \E j \in Line(s, places, k) : s[j] \notin Decor}
    IN {k \in places : (\E i \in first : i <= k) /\ (\E i \in worded : k <= i)}

Header(s, places) == {k \in places : \A j \in places : j <= k => s[j] \in Decor}

(* Broken variant: a date at the front is decoration.                      *)
WithoutDates(s, places) == places \ Header(s, places)

\* The decoration in front goes only when it is surely that; a date alone may be text.
WithoutHeader(s, places) ==
    LET header == Header(s, places) IN
    IF \E k \in header : s[k] \in Sign THEN places \ header ELSE places

\* A tracking id goes at the end.
WithoutId(s, places) == {k \in places : s[k] = "id" => \E j \in places : k < j}

\* And blank lines go, but for one between two lines.
OneBlank(s, places) ==
    {k \in places : s[k] = "break" =>
        /\ \E i \in places : i < k /\ s[i] # "break"
        /\ \E j \in places : k < j /\ s[j] # "break"
        /\ \A i, j \in places : i < j /\ j < k => \E h \in places : i <= h /\ h < k /\ s[h] # "break"}

Clean(s) == OneBlank(s, WithoutId(s, WithoutHeader(s, Between(s, Inline(s)))))

\* extract_paragraphs; a page is [detail, other]: its paragraphs in and out of the article.
Paragraphs(html) == IF html.detail # <<>> THEN html.detail ELSE html.other
=============================================================================
