--------------------------- MODULE MCAnalysisTasks ----------------------------
(* Instances of AnalysisTasks for TLC.                                     *)
EXTENDS AnalysisTasks

(* Texts with a word twice, ties, and a token (0) that is dropped.         *)
SomeTexts == {<<3, 0, 1>>, <<2, 1, 3, 2>>}

(* Requests: one policy named twice, two policies, one of them named twice. *)
SomeSelections == {<<1, 1>>, <<2, 1, 2>>}

(* The functions of engine.py on more texts than the runs use: every one   *)
(* of up to three tokens, alone, in pairs, and some of them in threes.     *)
ShortTexts == UNION {[1..n -> 0..3] : n \in 0..3}

ASSUME EngineCheck ==
    \A X \in [1..1 -> ShortTexts] \cup [1..2 -> ShortTexts]
                \cup [1..3 -> {<<1, 2>>, <<2, 3>>, <<3, 1, 3>>, <<0>>}] \cup [1..2 -> SomeTexts] :
        EngineIsCorrect(X)
=============================================================================
