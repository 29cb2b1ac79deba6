---------------------------- MODULE MCCollection ----------------------------
(* Instances of Collection for TLC: two scenarios with a seed each, one of *)
(* them on a subdomain; two addresses with links; an ordinary article.     *)
EXTENDS Collection

CONSTANTS news, people, cpc, p0, p1, p2, p3

Parents == [h \in Host |-> IF h = cpc THEN people ELSE None]

At(host, page) == [host |-> host, page |-> page, plain |-> TRUE]

Seed(host, page, day) == [url |-> At(host, page), verified |-> TRUE, title |-> page, day |-> day]

\* The days are those of the window, 1 to 3.
Packaged ==
    <<[name |-> "first", domains |-> {news, people}, seeds |-> <<Seed(news, p1, 1), Seed(news, p0, 0)>>],
      [name |-> "second", domains |-> {news, people}, seeds |-> <<Seed(cpc, p2, 2)>>]>>

Days == [p \in Page |-> CASE p = p0 -> 0 [] p = p1 -> 1 [] p = p2 -> 2 [] OTHER -> None]

OperatorDomains == {{news}, {news, people, cpc}}

Link(host, page, text, relative) ==
    [href |-> [host |-> host, page |-> page, plain |-> FALSE], text |-> text, relative |-> relative]

\* A seed again, a new article, and links that are none.
SomeEntries ==
    <<[origin |-> At(news, p0),
       links |-> <<Link(news, p1, "meets", FALSE), Link(None, p2, "other", TRUE), Link(None, p3, "meets", FALSE)>>],
      [origin |-> At(news, p0),
       links |-> <<Link(None, p3, "meets", TRUE), Link(cpc, p3, "meets", FALSE), Link(news, p3, "excluded", FALSE)>>]>>

\* The page as the seed names it, dated `day` in its hint.
Good(page, day, text) ==
    [title |-> "meets", named |-> page, lead |-> TRUE, video |-> FALSE, long |-> TRUE,
     author |-> "agency", marks |-> {}, hint |-> {[at |-> 1, kind |-> 1, day |-> day]}, dates |-> {},
     text |-> text]

\* As WebFetch flattens it; and the questions of a reporter.
Flat == <<"crumb", "date", "source", "text", "block", "id">>
Questions == <<"label", "text", "label", "text", "mark">>

\* What can be wrong with an article, one thing at a time.
Spoilt(good) ==
    {[good EXCEPT !.title = "other"], [good EXCEPT !.title = "excluded"],
     [good EXCEPT !.lead = FALSE], [good EXCEPT !.long = FALSE],
     [good EXCEPT !.long = FALSE, !.video = TRUE],
     [good EXCEPT !.author = None], [good EXCEPT !.author = None, !.marks = {"from site"}],
     [good EXCEPT !.hint = {}, !.dates = {}],
     [good EXCEPT !.hint = {[at |-> 1, kind |-> 0, day |-> 4], [at |-> 1, kind |-> 1, day |-> 3]}],
     [good EXCEPT !.hint = {}, !.dates = {[at |-> 2, kind |-> 1, day |-> 0], [at |-> 9, kind |-> 1, day |-> 2]}]}

\* Lines at the front of a page and at its end.
Fronts ==
    {<<"crumb", "date", "source">>, <<"label", "text">>, <<"mark">>, <<"seal">>, <<"text">>,
     <<"text", "label", "text">>, <<"date", "text">>, <<"date", "glued", "source", "text">>}
Backs == {<<"label", "text">>, <<"seal">>, <<"text", "id">>, <<"text", "next", "text">>}

Pages ==
    {<<>>, <<"crumb", "id">>, <<"text", "break", "mark", "break", "block", "break", "mark", "text">>} \cup
    {front \o <<"break", "text">> : front \in Fronts} \cup
    {<<"crumb", "break", "date", "text", "break">> \o back : back \in Backs}

ArticlesOfSeed(page) == {Good(page, Days[page], Flat), [Good(page, Days[page], Flat) EXCEPT !.named = None]}

SomeArticles ==
    p0 :> {Good(p0, 0, Flat)} @@
    p1 :> (ArticlesOfSeed(p1) \cup {Good(p1, 1, Questions), [Good(p1, 1, Flat) EXCEPT !.title = "other"]}) @@
    p2 :> (ArticlesOfSeed(p2) \cup {Good(p2, 3, <<"date", "text", "seal">>)}) @@
    p3 :> ({Good(p3, 2, Flat), Good(p3, 2, Questions)} \cup Spoilt(Good(p3, 2, Flat)))

Htmls1 == {[detail |-> <<>>, other |-> <<>>], [detail |-> <<>>, other |-> <<"text">>]}

SomeHtmls ==
    p0 :> Htmls1 @@ p1 :> Htmls1 @@ p2 :> Htmls1 @@
    p3 :> {[detail |-> text, other |-> <<"date", "text">>] : text \in Pages}
=============================================================================
