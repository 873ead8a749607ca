---------------------------- MODULE MCKnowledge ----------------------------
(***************************************************************************)
(* Three kinds of run: every document of four lines at most, and of five   *)
(* if it begins with an h1 or h2, cut; one search of each type over three  *)
(* chunks, with every score; up to three requests at once, over one chunk  *)
(* or none.                                                                *)
(***************************************************************************)
EXTENDS Knowledge

Header(level) == [level |-> level, text |-> <<"w">>]
Untitled == [level |-> 2, text |-> <<"_">>]
Line(text) == [level |-> 0, text |-> text]
Word == Line(<<"w", "w", "_", "w", "w", "w", "w">>)
Blank == Line(<<>>)
Sentence == Line(<<"w", ".", "_", "w">>)
Asked == Line(<<"w", "?", "_", "w", ".", "_", "w">>)

Query1(type, max, min) == [type |-> type, max |-> max, min |-> min]
Nobody == Query1("NONE", 1, 0)
Alone(q) == <<q, Nobody, Nobody>>

Given(document, semantic, keyword, asked) ==
  [document |-> document, semantic |-> semantic, keyword |-> keyword, ask |-> asked]

Lines == {Header(1), Header(2), Header(3), Blank, Word, Sentence, Asked}
Short == UNION {[1 .. n -> Lines] : n \in 0 .. 4}
Titled == {<<Header(level)>> \o d : level \in {1, 2}, d \in [1 .. 4 -> Lines]}
Nameless == UNION {[1 .. n -> {Header(1), Header(2), Header(3), Untitled, Sentence}] :
                     n \in 0 .. 4}
Flat == [n \in 1 .. 5 |-> 0]
Documents == {Given(d, Flat, Flat, Alone(Nobody)) : d \in Short \cup Titled \cup Nameless}

Three == <<Header(2), Sentence, Header(3), Sentence, Header(2), Sentence>>
Scores == [1 .. 3 -> 0 .. Scale]
Rankings == {Given(Three, s, k, Alone(Query1(type, 2, 1))) :
               s \in Scores, k \in Scores, type \in Types}

Hybrid == Query1("HYBRID", 2, 0)
Keywords == Query1("KEYWORD", 2, 0)
Indexer == Query1("INDEX", 1, 0)
Crowds == {Given(<<Header(2), Sentence>>, <<2>>, <<1>>, asked) :
             asked \in {<<Hybrid, Keywords, Keywords>>, <<Hybrid, Hybrid, Nobody>>,
                       <<Hybrid, Keywords, Indexer>>}}
Quiet == {Given(<<Word>>, <<>>, <<>>, asked) :
            asked \in {<<Hybrid, Query1("SEMANTIC", 2, 0), Nobody>>,
                       <<Hybrid, Nobody, Indexer>>}}

MCScenarios == Documents \cup Rankings \cup Crowds \cup Quiet
=============================================================================
