---------------------------- MODULE AnalysisEngine ----------------------------
(***************************************************************************)
(* The pure functions of analysis/engine.py.                               *)
(*                                                                         *)
(* A token is a number, and the order of numbers stands for the order of   *)
(* words. A text is a sequence of tokens; a document is what is left of    *)
(* it, each token at its place in the text. A Counter remembers the order  *)
(* in which its words came first, because most_common breaks ties by it.   *)
(* Floating point is left out: a tf-idf value and a cosine are the         *)
(* integers they are computed from.                                        *)
(***************************************************************************)
EXTENDS Naturals, Sequences, FiniteSets, Functions

CONSTANTS
    Dropped,   \* tokens too short, digits, punctuation, or stopwords
    TopN       \* settings.analysis.top_words_default

ASSUME EngineAssumption == TopN \in Nat

(* analyze_text: tokenize, then filter_stopwords.                          *)
Analyze(text) == Restrict(text, {i \in DOMAIN text : text[i] \notin Dropped})

-----------------------------------------------------------------------------
(* collections.Counter: how often each word is there, and, as a set of     *)
(* pairs, which word came before which.                                    *)
CounterOf(doc) ==
    [count |-> [w \in Range(doc) |-> Cardinality({i \in DOMAIN doc : doc[i] = w})],
     before |-> {vw \in Range(doc) \X Range(doc) :
                    \E i \in DOMAIN doc : /\ doc[i] = vw[1]
                                          /\ \A j \in DOMAIN doc : doc[j] = vw[2] => i < j}]

(* The first n members of S in the order of the pairs: <<v, w>> says that  *)
(* v comes before w.                                                       *)
Leading(S, pairs, n) ==
    [i \in 1..(IF Cardinality(S) < n THEN Cardinality(S) ELSE n) |->
        CHOOSE w \in S : Cardinality({v \in S : <<v, w>> \in pairs}) = i - 1]

(* The pairs of S ordered by their score, highest first, and then as `before` says. *)
ByScore(S, score, before) ==
    {vw \in S \X S : LET v == vw[1]
                         w == vw[2]
                     IN score[v] > score[w] \/ (score[v] = score[w] /\ vw \in before)}

(* Counter.most_common sorts by the count; the sort is stable.             *)
MostCommon(counter, n) ==
    Leading(DOMAIN counter.count, ByScore(DOMAIN counter.count, counter.count, counter.before), n)

-----------------------------------------------------------------------------
(* The words of a task.                                                    *)

(* compute_tfidf: the frequency of each word of each document, with the    *)
(* document's length and the word's document frequency.                    *)
TfIdf(docs) ==
    LET counters == [d \in DOMAIN docs |-> CounterOf(docs[d])]
        Df(w) == Cardinality({d \in DOMAIN docs : w \in DOMAIN counters[d].count})
    IN [d \in DOMAIN docs |->
           [before |-> counters[d].before,
            map |-> [w \in DOMAIN counters[d].count |->
                        <<counters[d].count[w], SumFunction(counters[d].count), Df(w)>>]]]

(* aggregate_word_totals: the sums of the frequencies, in the order of the *)
(* first document of each word, and of the words of that document.         *)
AggregateWordTotals(maps) ==
    LET all == UNION {DOMAIN maps[d].map : d \in DOMAIN maps}
        With(w) == {d \in DOMAIN maps : w \in DOMAIN maps[d].map}
    IN [count |-> [w \in all |-> SumFunction([d \in With(w) |-> maps[d].map[w][1]])],
        before |-> {vw \in all \X all :
                       \E d \in With(vw[1]) : \A e \in With(vw[2]) :
                           d < e \/ (d = e /\ vw \in maps[d].before)}]

(* top_words_from_totals *)
TopWords(totals) == MostCommon(totals, TopN)

(* compute_cooccurrence: the pairs of top words, lesser word first, and    *)
(* the number of documents that have both.                                 *)
Cooccurrence(docs, top) ==
    LET present == [d \in DOMAIN docs |-> Range(docs[d]) \cap Range(top)]
        Pairs(d) == {pair \in present[d] \X present[d] : pair[1] < pair[2]}
    IN {<<pair[1], pair[2], Cardinality({d \in DOMAIN docs : pair \in Pairs(d)})>> :
           pair \in UNION {Pairs(d) : d \in DOMAIN docs}}

-----------------------------------------------------------------------------
(* The comparison of policies: build_comparison_report.                    *)

(* sorted by the score, highest first, then by the word.                   *)
Ranked(S, score) == Leading(S, ByScore(S, score, {vw \in S \X S : vw[1] < vw[2]}), TopN)

(* _cosine_similarity: its numerator and its norms, squared.               *)
Dot(c, d) == SumFunction([w \in DOMAIN c.count \cap DOMAIN d.count |-> c.count[w] * d.count[w]])

Pair(left, right) ==
    LET L == DOMAIN left.count
        R == DOMAIN right.count
    IN [similarity |-> <<Dot(left, right), Dot(left, left), Dot(right, right)>>,
        shared |-> Ranked(L \cap R, [w \in L \cap R |-> left.count[w] + right.count[w]]),
        left_only |-> Ranked(L \ R, left.count),
        right_only |-> Ranked(R \ L, right.count)]

ComparisonReport(docs) ==
    LET counters == [d \in DOMAIN docs |-> CounterOf(docs[d])]
        everywhere == {w \in UNION {DOMAIN counters[d].count : d \in DOMAIN docs} :
                          \A d \in DOMAIN docs : w \in DOMAIN counters[d].count}
    IN [common |-> Ranked(everywhere, [w \in everywhere |->
                       SumFunction([d \in DOMAIN docs |-> counters[d].count[w]])]),
        keywords |-> [d \in DOMAIN docs |-> MostCommon(counters[d], TopN)],
        pairs |-> [lr \in {p \in (DOMAIN docs) \X (DOMAIN docs) : p[1] < p[2]} |->
                      Pair(counters[lr[1]], counters[lr[2]])]]
===============================================================================
