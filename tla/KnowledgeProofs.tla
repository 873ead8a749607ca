--------------------------- MODULE KnowledgeProofs ---------------------------
(***************************************************************************)
(* Proofs about Knowledge and its Chunker, for every document, all scores, *)
(* and any number of searches, runs of the indexer and restarts.           *)
(*                                                                         *)
(* 1. The chunks.  A fold over a sequence is a run: H[0] is where it       *)
(* begins and H[k] what step k makes of H[k - 1] (FoldRuns).  So the pass  *)
(* of chunk_document has a state after every line, and what it knows there *)
(* (SoFar) holds after every line because there is no first line after     *)
(* which it does not: the headers above, the section that is open, the     *)
(* sections that are closed.  What an overlap is follows from what strip   *)
(* and the separators make of an end of a text.                            *)
(*                                                                         *)
(* 2. The rankings.  Sorting and filtering arrange the places of a list    *)
(* (ArrangedLists); what comes out has a chunk only behind those that are  *)
(* better for both rankings (Respecting).                                  *)
(*                                                                         *)
(* 3. The index.  Inv follows the one store of a server that is not raced  *)
(* for: it is opened before there is one (OpensFirst), everybody works     *)
(* with it (OneStore), and its handle is the collection that is there, but *)
(* for the two statements between delete_collection and the assignment     *)
(* (Current).  A search that nobody disturbs keeps what it has found       *)
(* (Seen).                                                                 *)
(*                                                                         *)
(* 4. The answers.  With Inv, every answer respects the rankings           *)
(* (Answers).                                                              *)
(***************************************************************************)
EXTENDS Knowledge, FiniteSetTheorems, SequenceTheorems, TLAPS

-----------------------------------------------------------------------------
(* Induction by a least counterexample. *)

LEMMA LeastNumber ==
  ASSUME NEW X, X \subseteq Nat, X # {}
  PROVE  \E x \in X : \A y \in X : x <= y
<1>1. PICK x \in X : \A y \in X : <<y, x>> \notin OpToRel(<, Nat)
  BY NatLessThanWellFounded, WFMin
<1>2. \A y \in X : ~(y < x)
  BY <1>1 DEF OpToRel
<1> QED BY <1>2

LEMMA MinFacts ==
  ASSUME NEW X, X \subseteq Nat, X # {}
  PROVE  Min(X) \in X /\ \A y \in X : Min(X) <= y
BY LeastNumber DEF Min

LEMMA MaxFacts ==
  ASSUME NEW n \in Nat, NEW X, X \subseteq 0 .. n, X # {}
  PROVE  Max(X) \in X /\ \A y \in X : y <= Max(X)
<1> DEFINE Y == {k \in Nat : n - k \in X}
<1>1. Y # {}
  <2>1. PICK x \in X : TRUE
    OBVIOUS
  <2>2. n - x \in Nat /\ n - (n - x) = x
    BY <2>1
  <2> QED BY <2>1, <2>2
<1>2. PICK k \in Y : \A j \in Y : k <= j
  <2> HIDE DEF Y
  <2>1. Y \subseteq Nat
    BY DEF Y
  <2> QED BY <1>1, <2>1, LeastNumber
<1>3. n - k \in X
  BY <1>2
<1>4. ASSUME NEW y \in X PROVE y <= n - k
  <2>1. n - y \in Nat /\ n - (n - y) = y /\ y \in Nat
    OBVIOUS
  <2>2. n - y \in Y
    BY <2>1
  <2> QED BY <1>2, <2>1, <2>2
<1>5. \E x \in X : \A y \in X : x >= y
  <2>1. \A y \in X : n - k >= y
    BY <1>2, <1>4
  <2> QED BY <1>3, <2>1
<1> QED BY <1>5 DEF Max

-----------------------------------------------------------------------------
(* A fold over a sequence is a run through it. *)

\* h folds by F, from b, over every set of places in V.
Fold(h, V, A, b, F) ==
  /\ h \in [SUBSET V -> A]
  /\ h[{}] = b
  /\ \A s \in SUBSET V : s # {} => h[s] = F[<<h[s \ {Max(s)}], Max(s)>>]

LEMMA LastPlace ==
  ASSUME NEW n \in Nat, NEW s \in SUBSET (1 .. n), s # {}
  PROVE  /\ Max(s) \in s /\ Max(s) \in 1 .. n /\ \A y \in s : y <= Max(s)
         /\ s \ {Max(s)} \in SUBSET (1 .. n) /\ s \ {Max(s)} # s
<1>1. s \subseteq 0 .. n
  OBVIOUS
<1> QED BY <1>1, MaxFacts

LEMMA SmallestSubset ==
  ASSUME NEW S, IsFiniteSet(S), NEW X, X \subseteq SUBSET S, X # {}
  PROVE  \E V \in X : \A W \in X : W \subseteq V => W = V
<1>1. IsWellFoundedOn(StrictSubsetOrdering(S), SUBSET S)
  BY FS_StrictSubsetOrderingWellFounded, FS_FiniteSubsetsOfFinite
<1>2. PICK V \in X : \A W \in X : <<W, V>> \notin StrictSubsetOrdering(S)
  BY <1>1, WFMin
<1> QED BY <1>2 DEF StrictSubsetOrdering

\* Over a set V of places, for which there is a fold over all but the last.
LEMMA FoldOneMore ==
  ASSUME NEW n \in Nat, NEW A, NEW b \in A, NEW F \in [A \X (1 .. n) -> A],
         NEW V \in SUBSET (1 .. n), V # {},
         NEW g, Fold(g, V \ {Max(V)}, A, b, F)
  PROVE  \E h : Fold(h, V, A, b, F)
<1>0. /\ g \in [SUBSET (V \ {Max(V)}) -> A] /\ g[{}] = b
      /\ \A s \in SUBSET (V \ {Max(V)}) :
           s # {} => g[s] = F[<<g[s \ {Max(s)}], Max(s)>>]
  BY DEF Fold
<1> DEFINE m == Max(V)
           h == [s \in SUBSET V |-> IF m \in s THEN F[<<g[s \ {m}], m>>] ELSE g[s]]
<1>1. m \in V /\ m \in 1 .. n /\ \A y \in V : y <= m
  BY LastPlace
<1>2. ASSUME NEW s \in SUBSET V
      PROVE  /\ s \ {m} \in SUBSET (V \ {m})
             /\ m \notin s => s \in SUBSET (V \ {m})
             /\ m \in s => Max(s) = m
             /\ s # {} => Max(s) \in s /\ s \ {Max(s)} \in SUBSET V
  <2>1. s # {} => Max(s) \in s /\ \A y \in s : y <= Max(s)
    BY LastPlace
  <2>2. m \in s => Max(s) = m
    <3> SUFFICES ASSUME m \in s PROVE Max(s) = m
      OBVIOUS
    <3>1. Max(s) \in V /\ m <= Max(s) /\ Max(s) <= m
      BY <1>1, <2>1
    <3>2. \A y \in V : y \in Int
      OBVIOUS
    <3>3. Max(s) \in Int /\ m \in Int
      BY <1>1, <3>1, <3>2
    <3> QED BY <3>1, <3>3
  <2> HIDE DEF m
  <2> QED BY <2>1, <2>2
<1>7. g \in [SUBSET (V \ {m}) -> A]
  BY <1>0
<1> HIDE DEF m
<1>3. ASSUME NEW s \in SUBSET V PROVE h[s] \in A
  <2>1. CASE m \in s
    <3>1. g[s \ {m}] \in A
      BY <1>2, <1>7
    <3>2. <<g[s \ {m}], m>> \in A \X (1 .. n)
      BY <1>1, <3>1, Zenon
    <3>3. F[<<g[s \ {m}], m>>] \in A
      BY <3>2
    <3> QED BY <2>1, <3>3
  <2>2. CASE m \notin s
    <3>1. g[s] \in A
      BY <1>2, <1>7, <2>2
    <3> QED BY <2>2, <3>1
  <2> QED BY <2>1, <2>2
<1>4. h[{}] = b
  BY <1>0
<1>5. ASSUME NEW s \in SUBSET V, s # {} PROVE h[s] = F[<<h[s \ {Max(s)}], Max(s)>>]
  <2>1. CASE m \in s
    <3>1. h[s] = F[<<g[s \ {m}], m>>] /\ Max(s) = m
      BY <1>2, <2>1
    <3>2. s \ {m} \in SUBSET V /\ m \notin s \ {m}
      OBVIOUS
    <3>3. h[s \ {m}] = g[s \ {m}]
      BY <3>2
    <3> QED BY <3>1, <3>3
  <2>2. CASE m \notin s
    <3>1. h[s] = g[s] /\ s \in SUBSET (V \ {m})
      BY <1>2, <2>2
    <3>2. g[s] = F[<<g[s \ {Max(s)}], Max(s)>>]
      BY <1>0, <1>5, <3>1 DEF m
    <3>3. s \ {Max(s)} \in SUBSET V /\ m \notin s \ {Max(s)}
      BY <2>2
    <3>4. h[s \ {Max(s)}] = g[s \ {Max(s)}]
      BY <3>3
    <3> QED BY <3>1, <3>2, <3>4
  <2> QED BY <2>1, <2>2
<1>6. h \in [SUBSET V -> A]
  BY <1>3
<1> HIDE DEF h
<1> QED BY <1>4, <1>5, <1>6 DEF Fold

LEMMA FoldExists ==
  ASSUME NEW n \in Nat, NEW A, NEW b \in A, NEW F \in [A \X (1 .. n) -> A]
  PROVE  \E h : Fold(h, 1 .. n, A, b, F)
<1> DEFINE X == {V \in SUBSET (1 .. n) : ~ \E h : Fold(h, V, A, b, F)}
<1>1. ASSUME X # {} PROVE FALSE
  <2>1. X \subseteq SUBSET (1 .. n)
    OBVIOUS
  <2>2. PICK V \in X : \A W \in X : W \subseteq V => W = V
    <3> DEFINE S == 1 .. n
    <3>1. IsFiniteSet(S) /\ X \subseteq SUBSET S
      BY <2>1, FS_Interval
    <3> HIDE DEF X, S
    <3> QED BY <1>1, <3>1, SmallestSubset
  <2>3. V \in SUBSET (1 .. n) /\ ~ \E h : Fold(h, V, A, b, F)
    BY <2>2
  <2>4. CASE V = {}
    <3> DEFINE h == [s \in SUBSET {} |-> b]
    <3>1. h \in [SUBSET {} -> A] /\ h[{}] = b /\ \A s \in SUBSET {} : s = {}
      OBVIOUS
    <3> HIDE DEF h
    <3>2. Fold(h, {}, A, b, F)
      BY <3>1 DEF Fold
    <3> QED BY <2>3, <2>4, <3>2
  <2>5. CASE V # {}
    <3>1. /\ V \ {Max(V)} \in SUBSET (1 .. n) /\ V \ {Max(V)} # V
          /\ V \ {Max(V)} \subseteq V
      BY <2>3, <2>5, LastPlace
    <3>2. \E g : Fold(g, V \ {Max(V)}, A, b, F)
      BY <2>2, <3>1
    <3> HIDE DEF X
    <3> QED BY <2>3, <2>5, <3>2, FoldOneMore, Zenon
  <2> QED BY <2>4, <2>5
<1> QED BY <1>1

\* it folds by F as long as it stays in A.
Folding(it, n, A, b, F) ==
  /\ n \in Nat /\ b \in A /\ F \in [A \X (1 .. n) -> A]
  /\ it[{}] = b
  /\ \A s \in SUBSET (1 .. n) :
       s # {} /\ it[s \ {Max(s)}] \in A => it[s] = F[<<it[s \ {Max(s)}], Max(s)>>]

\* H[k] is the fold of the first k places.
RunOf(H, it, n, A, b, F) ==
  /\ H \in [0 .. n -> A] /\ H[0] = b /\ H[n] = it[1 .. n]
  /\ \A k \in 1 .. n : H[k] = F[<<H[k - 1], k>>]

LEMMA FoldRuns ==
  ASSUME NEW n, NEW A, NEW b, NEW F, NEW it, Folding(it, n, A, b, F)
  PROVE  \E H : RunOf(H, it, n, A, b, F)
<1>0. /\ n \in Nat /\ b \in A /\ F \in [A \X (1 .. n) -> A] /\ it[{}] = b
      /\ \A s \in SUBSET (1 .. n) :
           s # {} /\ it[s \ {Max(s)}] \in A => it[s] = F[<<it[s \ {Max(s)}], Max(s)>>]
  BY DEF Folding
<1> USE <1>0
<1> DEFINE X == {s \in SUBSET (1 .. n) : it[s] \notin A}
<1>1. ASSUME X # {} PROVE FALSE
  <2>1. X \subseteq SUBSET (1 .. n)
    OBVIOUS
  <2>2. PICK V \in X : \A W \in X : W \subseteq V => W = V
    <3> DEFINE S == 1 .. n
    <3>1. IsFiniteSet(S) /\ X \subseteq SUBSET S
      BY <2>1, FS_Interval
    <3> HIDE DEF X, S
    <3> QED BY <1>1, <3>1, SmallestSubset
  <2>3. V \in SUBSET (1 .. n) /\ it[V] \notin A /\ V # {}
    BY <2>2
  <2>4. /\ V \ {Max(V)} \in SUBSET (1 .. n) /\ V \ {Max(V)} # V /\ Max(V) \in 1 .. n
    BY <2>3, LastPlace
  <2>5. it[V \ {Max(V)}] \in A
    BY <2>2, <2>4
  <2>6. it[V] = F[<<it[V \ {Max(V)}], Max(V)>>]
    BY <2>3, <2>5
  <2> QED BY <2>3, <2>4, <2>5, <2>6
<1>2. \A s \in SUBSET (1 .. n) : it[s] \in A
  BY <1>1
<1> DEFINE H == [k \in 0 .. n |-> it[1 .. k]]
<1>3. \A k \in 0 .. n : 1 .. k \in SUBSET (1 .. n)
  OBVIOUS
<1>4. H \in [0 .. n -> A]
  BY <1>2, <1>3
<1>5. H[0] = b
  OBVIOUS
<1>6. ASSUME NEW k \in 1 .. n PROVE H[k] = F[<<H[k - 1], k>>]
  <2>1. k - 1 \in 0 .. n /\ k \in 0 .. n
    OBVIOUS
  <2>2. 1 .. k \in SUBSET (1 .. n) /\ 1 .. k # {}
    OBVIOUS
  <2>3. Max(1 .. k) = k
    <3>1. Max(1 .. k) \in 1 .. k /\ \A y \in 1 .. k : y <= Max(1 .. k)
      BY <2>2, LastPlace
    <3>2. k \in 1 .. k /\ k \in Int
      OBVIOUS
    <3>3. k <= Max(1 .. k)
      BY <3>1, <3>2
    <3> QED BY <3>1, <3>2, <3>3
  <2>4. (1 .. k) \ {k} = 1 .. k - 1
    OBVIOUS
  <2>5. it[1 .. k] = F[<<it[1 .. k - 1], k>>]
    BY <1>2, <1>3, <2>1, <2>2, <2>3, <2>4
  <2> QED BY <2>1, <2>5
<1>7. H[n] = it[1 .. n]
  OBVIOUS
<1> HIDE DEF H
<1> QED BY <1>4, <1>5, <1>6, <1>7 DEF RunOf

-----------------------------------------------------------------------------
(* The three folds of Chunker. *)

Char == {"w", ".", "?", "!"} \cup White
Text == Seq(Char)

JoinIter(lines, it) ==
  it = [s \in SUBSET DOMAIN lines |->
          IF s = {} THEN <<>>
          ELSE it[s \ {Max(s)}] \o <<Newline>> \o lines[Max(s)]]

LEMMA JoinedIsFolded ==
  ASSUME NEW lines, \E it : JoinIter(lines, it)
  PROVE  \E it : JoinIter(lines, it) /\ Body(lines) = Strip(it[DOMAIN lines])
BY Zenon DEF Body, FoldLeft, MapThenFoldSet, JoinIter

PassIter(document, it) ==
  it = [s \in SUBSET DOMAIN [i \in DOMAIN document |-> i] |->
          IF s = {} THEN [h1 |-> 0, h2 |-> 0, open |-> NoSection, sections |-> <<>>]
          ELSE IF document[[i \in DOMAIN document |-> i][Max(s)]].level = 0
               THEN AfterText(it[s \ {Max(s)}],
                              document[[i \in DOMAIN document |-> i][Max(s)]].text)
               ELSE AfterHeader(it[s \ {Max(s)}],
                                [i \in DOMAIN document |-> i][Max(s)],
                                document[[i \in DOMAIN document |-> i][Max(s)]].level,
                                document[[i \in DOMAIN document |-> i][Max(s)]].text)]

LEMMA SectionsAreFolded ==
  ASSUME NEW document, \E it : PassIter(document, it)
  PROVE  \E it : /\ PassIter(document, it)
                 /\ Sections(document) = Flushed(it[DOMAIN [i \in DOMAIN document |-> i]])
BY Zenon DEF Sections, FoldLeftDomain, FoldLeft, MapThenFoldSet, PassIter

MarkIter(text, it) ==
  LET marked == [n \in 1 .. 3 |-> AfterMark(text, <<".", "?", "!">>[n])] IN
  it = [s \in SUBSET DOMAIN marked |->
          IF s = {} THEN AfterLine(text)
          ELSE IF it[s \ {Max(s)}] # {} THEN it[s \ {Max(s)}] ELSE marked[Max(s)]]

LEMMA SeparatorsAreFolded ==
  ASSUME NEW text, \E it : MarkIter(text, it)
  PROVE  \E it : /\ MarkIter(text, it)
                 /\ AfterSeparator(text) =
                      it[DOMAIN [n \in 1 .. 3 |-> AfterMark(text, <<".", "?", "!">>[n])]]
BY Zenon DEF AfterSeparator, FoldLeft, MapThenFoldSet, MarkIter

-----------------------------------------------------------------------------
(* The lines of a section, joined. *)

LEMMA JoinedRuns ==
  ASSUME NEW lines \in Seq(Text)
  PROVE  \E H \in [0 .. Len(lines) -> Text] :
           /\ H[0] = <<>>
           /\ \A k \in 1 .. Len(lines) : H[k] = H[k - 1] \o <<Newline>> \o lines[k]
           /\ Body(lines) = Strip(H[Len(lines)])
<1> DEFINE n == Len(lines)
           F == [x \in Text \X (1 .. n) |-> x[1] \o <<Newline>> \o lines[x[2]]]
<1>1. n \in Nat /\ DOMAIN lines = 1 .. n /\ \A k \in 1 .. n : lines[k] \in Text
  OBVIOUS
<1>2. <<>> \in Text /\ <<Newline>> \in Text
  <2>1. Newline \in Char
    BY DEF Char, White
  <2> QED BY <2>1 DEF Text
<1>3. \A t \in Text, k \in 1 .. n : /\ t \o <<Newline>> \o lines[k] \in Text
                                    /\ F[<<t, k>>] = t \o <<Newline>> \o lines[k]
  <2> SUFFICES ASSUME NEW t \in Text, NEW k \in 1 .. n
               PROVE  /\ t \o <<Newline>> \o lines[k] \in Text
                      /\ F[<<t, k>>] = t \o <<Newline>> \o lines[k]
    OBVIOUS
  <2>1. t \o <<Newline>> \in Text
    BY <1>2, ConcatProperties DEF Text
  <2>2. (t \o <<Newline>>) \o lines[k] \in Text
    BY <1>1, <2>1, ConcatProperties DEF Text
  <2>3. <<t, k>> \in Text \X (1 .. n)
    OBVIOUS
  <2> QED BY <2>2, <2>3
<1>4. F \in [Text \X (1 .. n) -> Text]
  BY <1>3
<1> HIDE DEF n, F
<1>5. PICK h : Fold(h, 1 .. n, Text, <<>>, F)
  BY <1>1, <1>2, <1>4, FoldExists
<1>6. /\ h \in [SUBSET (1 .. n) -> Text] /\ h[{}] = <<>>
      /\ \A s \in SUBSET (1 .. n) : s # {} => h[s] = F[<<h[s \ {Max(s)}], Max(s)>>]
  BY <1>5 DEF Fold
<1>7. ASSUME NEW s \in SUBSET (1 .. n)
      PROVE  h[s] = IF s = {} THEN <<>>
                    ELSE h[s \ {Max(s)}] \o <<Newline>> \o lines[Max(s)]
  <2>1. CASE s = {}
    BY <1>6, <2>1
  <2>2. CASE s # {}
    <3>1. s \ {Max(s)} \in SUBSET (1 .. n) /\ Max(s) \in 1 .. n
      BY <1>1, <2>2, LastPlace
    <3>2. h[s \ {Max(s)}] \in Text
      BY <1>6, <3>1
    <3> QED BY <1>3, <1>6, <2>2, <3>1, <3>2
  <2> QED BY <2>1, <2>2
<1>8. h = [s \in SUBSET (1 .. n) |->
             IF s = {} THEN <<>> ELSE h[s \ {Max(s)}] \o <<Newline>> \o lines[Max(s)]]
  BY <1>6, <1>7
<1>9. JoinIter(lines, h)
  BY <1>1, <1>8 DEF JoinIter
<1>10. PICK it : JoinIter(lines, it) /\ Body(lines) = Strip(it[1 .. n])
  BY <1>1, <1>9, JoinedIsFolded
<1>11. ASSUME NEW s \in SUBSET (1 .. n)
       PROVE  it[s] = IF s = {} THEN <<>>
                      ELSE it[s \ {Max(s)}] \o <<Newline>> \o lines[Max(s)]
  BY <1>1, <1>10 DEF JoinIter
<1>12. ASSUME NEW s \in SUBSET (1 .. n), s # {}, it[s \ {Max(s)}] \in Text
       PROVE  it[s] = F[<<it[s \ {Max(s)}], Max(s)>>]
  <2>1. Max(s) \in 1 .. n
    BY <1>1, <1>12, LastPlace
  <2> QED BY <1>3, <1>11, <1>12, <2>1
<1>13. it[{}] = <<>>
  BY <1>11
<1>14. PICK H : RunOf(H, it, n, Text, <<>>, F)
  <2>1. \A s \in SUBSET (1 .. n) :
          s # {} /\ it[s \ {Max(s)}] \in Text => it[s] = F[<<it[s \ {Max(s)}], Max(s)>>]
    BY <1>12
  <2>2. Folding(it, n, Text, <<>>, F)
    BY <1>1, <1>2, <1>4, <1>13, <2>1 DEF Folding
  <2> QED BY <2>2, FoldRuns, Zenon
<1>15. H \in [0 .. n -> Text] /\ H[0] = <<>> /\ H[n] = it[1 .. n]
  BY <1>14 DEF RunOf
<1>16. ASSUME NEW k \in 1 .. n PROVE H[k] = H[k - 1] \o <<Newline>> \o lines[k]
  <2>1. H[k - 1] \in Text
    BY <1>1, <1>15
  <2>2. H[k] = F[<<H[k - 1], k>>]
    BY <1>14 DEF RunOf
  <2> QED BY <1>3, <2>1, <2>2
<1> QED BY <1>10, <1>15, <1>16 DEF n

-----------------------------------------------------------------------------
(* strip() *)

LEMMA TextFacts ==
  ASSUME NEW t \in Text
  PROVE  /\ Len(t) \in Nat /\ DOMAIN t = 1 .. Len(t)
         /\ \A i \in 1 .. Len(t) : t[i] \in Char
         /\ t = <<>> <=> Len(t) = 0
BY DEF Text

\* What SubSeq makes of a text.
LEMMA CutFacts ==
  ASSUME NEW t \in Text, NEW m \in 1 .. Len(t) + 1, NEW n \in m - 1 .. Len(t)
  PROVE  /\ SubSeq(t, m, n) \in Text
         /\ Len(SubSeq(t, m, n)) = n - m + 1
         /\ \A i \in 1 .. n - m + 1 : SubSeq(t, m, n)[i] = t[m + i - 1]
<1>1. Len(t) \in Nat /\ m \in Int /\ n \in Int /\ \A i \in m .. n : t[i] \in Char
  BY TextFacts
<1>2. /\ SubSeq(t, m, n) \in Seq(Char)
      /\ Len(SubSeq(t, m, n)) = IF m <= n THEN n - m + 1 ELSE 0
      /\ \A i \in 1 .. n - m + 1 : SubSeq(t, m, n)[i] = t[m + i - 1]
  BY <1>1, SubSeqProperties
<1> QED BY <1>1, <1>2 DEF Text

\* A text that neither begins nor ends with white space.
Stripped(t) == t = <<>> \/ (t[1] \notin White /\ t[Len(t)] \notin White)

LEMMA StripFacts ==
  ASSUME NEW t \in Text
  PROVE  /\ Strip(t) \in Text /\ Stripped(Strip(t))
         /\ \/ Inked(t) = {} /\ Strip(t) = <<>>
            \/ \E m, n \in 1 .. Len(t) :
                 /\ Strip(t) = SubSeq(t, m, n) /\ m <= n
                 /\ Strip(t) # <<>> /\ Len(Strip(t)) = n - m + 1
                 /\ t[m] \notin White /\ t[n] \notin White
                 /\ \A i \in 1 .. Len(t) : t[i] \notin White => m <= i /\ i <= n
<1>1. Len(t) \in Nat /\ DOMAIN t = 1 .. Len(t)
  BY TextFacts
<1>2. CASE Inked(t) = {}
  <2>1. Strip(t) = <<>>
    BY <1>2 DEF Strip
  <2> QED BY <1>2, <2>1 DEF Stripped, Text
<1>3. CASE Inked(t) # {}
  <2> DEFINE m == Min(Inked(t))
             n == Max(Inked(t))
  <2>1. Inked(t) \subseteq 0 .. Len(t) /\ Inked(t) \subseteq Nat /\ Inked(t) \subseteq 1 .. Len(t)
    BY <1>1 DEF Inked
  <2>2. m \in Inked(t) /\ \A i \in Inked(t) : m <= i
    BY <1>3, <2>1, MinFacts
  <2>3. n \in Inked(t) /\ \A i \in Inked(t) : i <= n
    BY <1>1, <1>3, <2>1, MaxFacts
  <2>4. Strip(t) = SubSeq(t, m, n)
    BY <1>3 DEF Strip
  <2> HIDE DEF m, n
  <2>5. /\ m \in 1 .. Len(t) /\ n \in 1 .. Len(t) /\ m <= n
        /\ t[m] \notin White /\ t[n] \notin White
        /\ \A i \in 1 .. Len(t) : t[i] \notin White => m <= i /\ i <= n
    BY <1>1, <2>1, <2>2, <2>3 DEF Inked
  <2>6. /\ SubSeq(t, m, n) \in Text
        /\ Len(SubSeq(t, m, n)) = n - m + 1
        /\ \A i \in 1 .. n - m + 1 : SubSeq(t, m, n)[i] = t[m + i - 1]
    <3>1. m \in 1 .. Len(t) + 1 /\ n \in m - 1 .. Len(t)
      BY <1>1, <2>5
    <3> QED BY <3>1, CutFacts
  <2> DEFINE s == SubSeq(t, m, n)
  <2> HIDE DEF s
  <2>7. s \in Text /\ Len(s) = n - m + 1 /\ Len(s) > 0 /\ s # <<>>
        /\ s[1] = t[m] /\ s[n - m + 1] = t[n]
    <3>1. 1 \in 1 .. n - m + 1 /\ n - m + 1 \in 1 .. n - m + 1 /\ m + 1 - 1 = m
          /\ m + (n - m + 1) - 1 = n /\ n - m + 1 > 0
      BY <1>1, <2>5
    <3>2. s[1] = t[m + 1 - 1] /\ s[n - m + 1] = t[m + (n - m + 1) - 1]
      BY <2>6, <3>1 DEF s
    <3>3. s \in Text /\ Len(s) = n - m + 1
      BY <2>6 DEF s
    <3> QED BY <3>1, <3>2, <3>3, TextFacts
  <2>8. Stripped(s)
    BY <2>5, <2>7 DEF Stripped
  <2> QED BY <2>4, <2>5, <2>7, <2>8 DEF s
<1> QED BY <1>2, <1>3

LEMMA StripAgain ==
  ASSUME NEW t \in Text, Stripped(t)
  PROVE  Strip(t) = t
<1>1. Len(t) \in Nat /\ DOMAIN t = 1 .. Len(t) /\ (t = <<>> <=> Len(t) = 0)
  BY TextFacts
<1>2. CASE t = <<>>
  <2>1. Inked(t) = {}
    BY <1>1, <1>2 DEF Inked
  <2> QED BY <1>2, <2>1 DEF Strip
<1>3. CASE t # <<>>
  <2>1. t[1] \notin White /\ t[Len(t)] \notin White /\ 1 \in 1 .. Len(t) /\ Len(t) \in 1 .. Len(t)
    BY <1>1, <1>3 DEF Stripped
  <2>2. 1 \in Inked(t)
    BY <1>1, <2>1 DEF Inked
  <2>3. PICK m \in 1 .. Len(t), n \in 1 .. Len(t) :
               /\ Strip(t) = SubSeq(t, m, n)
               /\ \A i \in 1 .. Len(t) : t[i] \notin White => m <= i /\ i <= n
    BY <2>2, StripFacts
  <2> DEFINE last == Len(t)
  <2>4. m <= 1 /\ last <= n
    <3>1. last \in 1 .. last /\ 1 \in 1 .. last /\ t[1] \notin White /\ t[last] \notin White
      BY <2>1
    <3>2. \A i \in 1 .. last : t[i] \notin White => m <= i /\ i <= n
      BY <2>3
    <3> HIDE DEF last
    <3> QED BY <3>1, <3>2
  <2>5. m = 1 /\ n = Len(t)
    <3>1. m \in 1 .. last /\ n \in 1 .. last /\ last \in Nat
      BY <1>1, <2>3
    <3> HIDE DEF last
    <3>2. m = 1 /\ n = last
      BY <2>4, <3>1
    <3> QED BY <3>2 DEF last
  <2>6. SubSeq(t, 1, Len(t)) = t
    BY SubSeqFull DEF Text
  <2> QED BY <2>3, <2>5, <2>6
<1> QED BY <1>2, <1>3

LEMMA BodyFacts ==
  ASSUME NEW lines \in Seq(Text)
  PROVE  Body(lines) \in Text /\ Stripped(Body(lines))
<1>1. PICK H \in [0 .. Len(lines) -> Text] : Body(lines) = Strip(H[Len(lines)])
  BY JoinedRuns
<1>2. Len(lines) \in 0 .. Len(lines)
  OBVIOUS
<1>3. H[Len(lines)] \in Text
  BY <1>2
<1> QED BY <1>1, <1>3, StripFacts

-----------------------------------------------------------------------------
(* The pass over the lines of a document, as a run. *)

Line == [level : 0 .. 3, text : Text]
Section == [header : Nat, parent : Nat, level : 0 .. 3, lines : Seq(Text)]
Written == {s \in Section : Body(s.lines) # <<>>}
Pass == [h1 : Nat, h2 : Nat, open : Section, sections : Seq(Written)]

Start == [h1 |-> 0, h2 |-> 0, open |-> NoSection, sections |-> <<>>]
Round(document, pass, i) ==
  IF document[i].level = 0 THEN AfterText(pass, document[i].text)
  ELSE AfterHeader(pass, i, document[i].level, document[i].text)

LEMMA OpenedIsSection ==
  ASSUME NEW header \in Nat, NEW parent \in Nat, NEW level \in 0 .. 3
  PROVE  Opened(header, parent, level) \in Section
<1>1. <<>> \in Seq(Text)
  OBVIOUS
<1> QED BY <1>1 DEF Opened, Section

LEMMA FlushedIsTyped ==
  ASSUME NEW pass \in Pass
  PROVE  Flushed(pass) \in Seq(Written)
<1>1. pass.open \in Section /\ pass.sections \in Seq(Written)
  BY DEF Pass
<1>2. CASE pass.open = NoSection \/ Body(pass.open.lines) = <<>>
  BY <1>1, <1>2 DEF Flushed
<1>3. CASE ~(pass.open = NoSection \/ Body(pass.open.lines) = <<>>)
  <2>1. pass.open \in Written
    BY <1>1, <1>3 DEF Written
  <2>2. Append(pass.sections, pass.open) \in Seq(Written)
    BY <1>1, <2>1, AppendProperties
  <2> QED BY <1>3, <2>2 DEF Flushed
<1> QED BY <1>2, <1>3

LEMMA RoundIsTyped ==
  ASSUME NEW document \in Seq(Line), NEW pass \in Pass, NEW i \in 1 .. Len(document)
  PROVE  Round(document, pass, i) \in Pass
<1>1. document[i] \in Line /\ i \in Nat
  OBVIOUS
<1>2. document[i].level \in 0 .. 3 /\ document[i].text \in Text
  BY <1>1 DEF Line
<1>3. /\ pass.h1 \in Nat /\ pass.h2 \in Nat /\ pass.open \in Section
      /\ pass.sections \in Seq(Written)
  BY DEF Pass
<1>4. CASE document[i].level = 0
  <2>1. CASE pass.open = NoSection
    BY <1>4, <2>1 DEF Round, AfterText
  <2>2. CASE pass.open # NoSection
    <3> DEFINE lines == Append(pass.open.lines, document[i].text)
               open == [pass.open EXCEPT !.lines = lines]
    <3>1. pass.open.lines \in Seq(Text)
      BY <1>3 DEF Section
    <3>2. lines \in Seq(Text)
      BY <1>2, <3>1, AppendProperties
    <3> HIDE DEF lines
    <3>3. open \in Section
      BY <1>3, <3>2 DEF Section
    <3>4. [pass EXCEPT !.open.lines = Append(@, document[i].text)] = [pass EXCEPT !.open = open]
      BY DEF lines, Pass
    <3> HIDE DEF open
    <3>5. [pass EXCEPT !.open = open] \in Pass
      BY <3>3 DEF Pass
    <3> QED BY <1>4, <2>2, <3>4, <3>5 DEF Round, AfterText
  <2> QED BY <2>1, <2>2
<1>5. CASE document[i].level # 0
  <2> DEFINE level == document[i].level
             open == CASE level = 1 -> NoSection
                       [] level = 2 -> Opened(i, pass.h1, 2)
                       [] level = 3 -> Opened(i, IF pass.h2 # 0 THEN pass.h2 ELSE pass.h1, 3)
             flushed == Flushed(pass)
             h1 == IF level = 1 THEN i ELSE pass.h1
             h2 == LastH2(pass, i, level, document[i].text)
  <2>1. level \in {1, 2, 3}
    BY <1>2, <1>5
  <2>2. open \in Section
    <3>1. CASE level = 1
      <4>1. open = NoSection
        BY <3>1
      <4> HIDE DEF open
      <4>2. Opened(0, 0, 0) \in Section
        BY OpenedIsSection
      <4> QED BY <4>1, <4>2 DEF NoSection
    <3>2. CASE level = 2
      <4>1. open = Opened(i, pass.h1, 2)
        BY <3>2
      <4> HIDE DEF open
      <4>2. Opened(i, pass.h1, 2) \in Section
        BY <1>1, <1>3, OpenedIsSection
      <4> QED BY <4>1, <4>2
    <3>3. CASE level = 3
      <4>1. open = Opened(i, IF pass.h2 # 0 THEN pass.h2 ELSE pass.h1, 3)
        BY <3>3
      <4>2. (IF pass.h2 # 0 THEN pass.h2 ELSE pass.h1) \in Nat
        BY <1>3
      <4> HIDE DEF open
      <4>3. Opened(i, IF pass.h2 # 0 THEN pass.h2 ELSE pass.h1, 3) \in Section
        BY <1>1, <4>2, OpenedIsSection
      <4> QED BY <4>1, <4>3
    <3> QED BY <2>1, <3>1, <3>2, <3>3
  <2>3. h1 \in Nat
    BY <1>1, <1>3
  <2>4. h2 \in Nat
    BY <1>1, <1>3, <2>1 DEF LastH2
  <2>5. flushed \in Seq(Written)
    BY FlushedIsTyped
  <2>6. Round(document, pass, i) = [h1 |-> h1, h2 |-> h2, open |-> open, sections |-> flushed]
    BY <1>5 DEF Round, AfterHeader
  <2> HIDE DEF open, h1, h2, flushed
  <2> QED BY <2>2, <2>3, <2>4, <2>5, <2>6 DEF Pass
<1> QED BY <1>4, <1>5

LEMMA PassRuns ==
  ASSUME NEW document \in Seq(Line)
  PROVE  \E H \in [0 .. Len(document) -> Pass] :
           /\ H[0] = Start
           /\ \A k \in 1 .. Len(document) : H[k] = Round(document, H[k - 1], k)
           /\ Sections(document) = Flushed(H[Len(document)])
<1> DEFINE n == Len(document)
           F == [x \in Pass \X (1 .. n) |-> Round(document, x[1], x[2])]
           places == [i \in DOMAIN document |-> i]
<1>1. /\ n \in Nat /\ DOMAIN document = 1 .. n /\ DOMAIN places = 1 .. n
      /\ \A i \in 1 .. n : places[i] = i
  OBVIOUS
<1>2. Start \in Pass
  <2>1. NoSection \in Section /\ <<>> \in Seq(Written)
    BY OpenedIsSection DEF NoSection
  <2> QED BY <2>1 DEF Start, Pass
<1>3. \A p \in Pass, k \in 1 .. n : /\ Round(document, p, k) \in Pass
                                    /\ F[<<p, k>>] = Round(document, p, k)
  BY RoundIsTyped
<1>4. F \in [Pass \X (1 .. n) -> Pass]
  BY <1>3
<1> HIDE DEF n, F, places
<1>5. PICK h : Fold(h, 1 .. n, Pass, Start, F)
  BY <1>1, <1>2, <1>4, FoldExists
<1>6. /\ h \in [SUBSET (1 .. n) -> Pass] /\ h[{}] = Start
      /\ \A s \in SUBSET (1 .. n) : s # {} => h[s] = F[<<h[s \ {Max(s)}], Max(s)>>]
  BY <1>5 DEF Fold
<1>7. ASSUME NEW s \in SUBSET (1 .. n)
      PROVE  h[s] = IF s = {} THEN Start
                    ELSE IF document[places[Max(s)]].level = 0
                         THEN AfterText(h[s \ {Max(s)}], document[places[Max(s)]].text)
                         ELSE AfterHeader(h[s \ {Max(s)}], places[Max(s)],
                                          document[places[Max(s)]].level,
                                          document[places[Max(s)]].text)
  <2>1. CASE s = {}
    BY <1>6, <2>1
  <2>2. CASE s # {}
    <3>1. s \ {Max(s)} \in SUBSET (1 .. n) /\ Max(s) \in 1 .. n
      BY <1>1, <2>2, LastPlace
    <3>2. h[s \ {Max(s)}] \in Pass
      BY <1>6, <3>1
    <3>3. places[Max(s)] = Max(s)
      BY <1>1, <3>1
    <3>4. h[s] = Round(document, h[s \ {Max(s)}], Max(s))
      BY <1>3, <1>6, <2>2, <3>1, <3>2
    <3> QED BY <2>2, <3>3, <3>4 DEF Round
  <2> QED BY <2>1, <2>2
<1>8. h = [s \in SUBSET (1 .. n) |->
             IF s = {} THEN Start
             ELSE IF document[places[Max(s)]].level = 0
                  THEN AfterText(h[s \ {Max(s)}], document[places[Max(s)]].text)
                  ELSE AfterHeader(h[s \ {Max(s)}], places[Max(s)],
                                   document[places[Max(s)]].level,
                                   document[places[Max(s)]].text)]
  BY <1>6, <1>7
<1>9. PassIter(document, h)
  BY <1>1, <1>8 DEF PassIter, places, Start
<1>10. PICK it : PassIter(document, it) /\ Sections(document) = Flushed(it[1 .. n])
  BY <1>1, <1>9, SectionsAreFolded DEF places
<1>11. ASSUME NEW s \in SUBSET (1 .. n)
       PROVE  it[s] = IF s = {} THEN Start
                    ELSE IF document[places[Max(s)]].level = 0
                         THEN AfterText(it[s \ {Max(s)}], document[places[Max(s)]].text)
                         ELSE AfterHeader(it[s \ {Max(s)}], places[Max(s)],
                                          document[places[Max(s)]].level,
                                          document[places[Max(s)]].text)
  BY <1>1, <1>10 DEF PassIter, places, Start
<1>12. ASSUME NEW s \in SUBSET (1 .. n), s # {}, it[s \ {Max(s)}] \in Pass
       PROVE  it[s] = F[<<it[s \ {Max(s)}], Max(s)>>]
  <2>1. Max(s) \in 1 .. n /\ places[Max(s)] = Max(s)
    BY <1>1, <1>12, LastPlace
  <2>2. it[s] = Round(document, it[s \ {Max(s)}], Max(s))
    BY <1>11, <1>12, <2>1 DEF Round
  <2> QED BY <1>3, <1>12, <2>1, <2>2
<1>13. it[{}] = Start
  BY <1>11
<1>14. PICK H : RunOf(H, it, n, Pass, Start, F)
  <2>1. \A s \in SUBSET (1 .. n) :
          s # {} /\ it[s \ {Max(s)}] \in Pass => it[s] = F[<<it[s \ {Max(s)}], Max(s)>>]
    BY <1>12
  <2>2. Folding(it, n, Pass, Start, F)
    BY <1>1, <1>2, <1>4, <1>13, <2>1 DEF Folding
  <2> QED BY <2>2, FoldRuns, Zenon
<1>15. H \in [0 .. n -> Pass] /\ H[0] = Start /\ H[n] = it[1 .. n]
  BY <1>14 DEF RunOf
<1>16. ASSUME NEW k \in 1 .. n PROVE H[k] = Round(document, H[k - 1], k)
  <2>1. H[k - 1] \in Pass
    BY <1>1, <1>15
  <2>2. H[k] = F[<<H[k - 1], k>>]
    BY <1>14 DEF RunOf
  <2> QED BY <1>3, <2>1, <2>2
<1> QED BY <1>10, <1>15, <1>16 DEF n

LEMMA SectionsAreWritten ==
  ASSUME NEW document \in Seq(Line)
  PROVE  Sections(document) \in Seq(Written)
<1>1. PICK H \in [0 .. Len(document) -> Pass] :
             Sections(document) = Flushed(H[Len(document)])
  BY PassRuns
<1>2. Len(document) \in 0 .. Len(document)
  OBVIOUS
<1>3. H[Len(document)] \in Pass
  BY <1>2
<1> QED BY <1>1, <1>3, FlushedIsTyped

-----------------------------------------------------------------------------
(* _overlap_tail *)

\* The first separator that is there decides.
LEMMA SeparatorFacts ==
  ASSUME NEW t \in Text
  PROVE  AfterSeparator(t) = IF AfterLine(t) # {} THEN AfterLine(t)
                             ELSE IF AfterMark(t, ".") # {} THEN AfterMark(t, ".")
                             ELSE IF AfterMark(t, "?") # {} THEN AfterMark(t, "?")
                             ELSE AfterMark(t, "!")
<1> DEFINE Y == {i \in 2 .. Len(t) + 1 : t[i - 1] \in White}
           A == SUBSET Y
           marked == [n \in 1 .. 3 |-> AfterMark(t, <<".", "?", "!">>[n])]
           F == [x \in A \X (1 .. 3) |-> IF x[1] # {} THEN x[1] ELSE marked[x[2]]]
           first == AfterLine(t)
<1>1. Len(t) \in Nat /\ 3 \in Nat
  BY TextFacts
<1>2. first \in A
  BY DEF AfterLine, White
<1>3. \A n \in 1 .. 3 : marked[n] \in A
  <2> SUFFICES ASSUME NEW n \in 1 .. 3, NEW i \in AfterMark(t, <<".", "?", "!">>[n])
               PROVE  i \in Y
    OBVIOUS
  <2>1. i \in 3 .. Len(t) + 1 /\ t[i - 1] = "_"
    BY DEF AfterMark
  <2>2. i \in 2 .. Len(t) + 1
    <3> HIDE DEF Y, A, marked, F
    <3>1. \A l \in Nat : \A j \in 3 .. l + 1 : j \in 2 .. l + 1
      OBVIOUS
    <3> QED BY <1>1, <2>1, <3>1
  <2> QED BY <2>1, <2>2 DEF White
<1>4. DOMAIN marked = 1 .. 3
  OBVIOUS
<1>5. \A x \in A, n \in 1 .. 3 :
        F[<<x, n>>] = IF x # {} THEN x ELSE marked[n]
  OBVIOUS
<1> HIDE DEF A, first
<1>6. F \in [A \X (1 .. 3) -> A]
  BY <1>3
<1> HIDE DEF F, marked
<1>7. PICK h : Fold(h, 1 .. 3, A, first, F)
  BY <1>1, <1>2, <1>6, FoldExists
<1>8. /\ h \in [SUBSET (1 .. 3) -> A] /\ h[{}] = first
      /\ \A s \in SUBSET (1 .. 3) : s # {} => h[s] = F[<<h[s \ {Max(s)}], Max(s)>>]
  BY <1>7 DEF Fold
<1>9. ASSUME NEW s \in SUBSET (1 .. 3)
      PROVE  h[s] = IF s = {} THEN first
                    ELSE IF h[s \ {Max(s)}] # {} THEN h[s \ {Max(s)}] ELSE marked[Max(s)]
  <2>1. CASE s = {}
    BY <1>8, <2>1
  <2>2. CASE s # {}
    <3>1. s \ {Max(s)} \in SUBSET (1 .. 3) /\ Max(s) \in 1 .. 3
      BY <1>1, <2>2, LastPlace
    <3>2. h[s \ {Max(s)}] \in A
      BY <1>8, <3>1
    <3> QED BY <1>5, <1>8, <2>2, <3>1, <3>2
  <2> QED BY <2>1, <2>2
<1>10. h = [s \in SUBSET (1 .. 3) |->
              IF s = {} THEN first
              ELSE IF h[s \ {Max(s)}] # {} THEN h[s \ {Max(s)}] ELSE marked[Max(s)]]
  <2> DEFINE step(s) == IF s = {} THEN first
                        ELSE IF h[s \ {Max(s)}] # {} THEN h[s \ {Max(s)}]
                             ELSE marked[Max(s)]
             g == [s \in SUBSET (1 .. 3) |-> step(s)]
  <2>1. \A s \in SUBSET (1 .. 3) : h[s] = step(s)
    BY <1>9
  <2> HIDE DEF step
  <2>2. h = g
    BY <1>8, <2>1
  <2> QED BY <2>2 DEF step
<1>11. MarkIter(t, h)
  BY <1>4, <1>10 DEF MarkIter, marked, first
<1>12. PICK it : MarkIter(t, it) /\ AfterSeparator(t) = it[1 .. 3]
  BY <1>4, <1>11, SeparatorsAreFolded DEF marked
<1>13. ASSUME NEW s \in SUBSET (1 .. 3)
       PROVE  it[s] = IF s = {} THEN first
                    ELSE IF it[s \ {Max(s)}] # {} THEN it[s \ {Max(s)}] ELSE marked[Max(s)]
  BY <1>4, <1>12 DEF MarkIter, marked, first
<1>14. ASSUME NEW s \in SUBSET (1 .. 3), s # {}, it[s \ {Max(s)}] \in A
       PROVE  it[s] = F[<<it[s \ {Max(s)}], Max(s)>>]
  <2>1. Max(s) \in 1 .. 3
    BY <1>1, <1>14, LastPlace
  <2> QED BY <1>5, <1>13, <1>14, <2>1
<1>15. PICK H : RunOf(H, it, 3, A, first, F)
  <2>1. \A s \in SUBSET (1 .. 3) :
          s # {} /\ it[s \ {Max(s)}] \in A => it[s] = F[<<it[s \ {Max(s)}], Max(s)>>]
    BY <1>14
  <2>2. it[{}] = first
    BY <1>13
  <2>3. Folding(it, 3, A, first, F)
    BY <1>1, <1>2, <1>6, <2>1, <2>2 DEF Folding
  <2> QED BY <2>3, FoldRuns, Zenon
<1>16. /\ H \in [0 .. 3 -> A] /\ H[0] = first /\ H[3] = it[1 .. 3]
       /\ \A k \in 1 .. 3 : H[k] = F[<<H[k - 1], k>>]
  BY <1>15 DEF RunOf
<1>17. ASSUME NEW k \in 1 .. 3
       PROVE  H[k] = IF H[k - 1] # {} THEN H[k - 1] ELSE marked[k]
  <2>1. H[k - 1] \in A
    BY <1>16
  <2>2. H[k] = F[<<H[k - 1], k>>]
    BY <1>16
  <2>3. F[<<H[k - 1], k>>] = IF H[k - 1] # {} THEN H[k - 1] ELSE marked[k]
    BY <1>5, <2>1
  <2> QED BY <2>2, <2>3
<1>18. /\ H[1] = (IF first # {} THEN first ELSE marked[1])
       /\ H[2] = (IF H[1] # {} THEN H[1] ELSE marked[2])
       /\ H[3] = (IF H[2] # {} THEN H[2] ELSE marked[3])
  BY <1>16, <1>17
<1>19. /\ marked[1] = AfterMark(t, ".") /\ marked[2] = AfterMark(t, "?")
       /\ marked[3] = AfterMark(t, "!")
  BY DEF marked
<1> QED BY <1>12, <1>16, <1>18, <1>19 DEF first

\* A text that ends in ink is cut where Starts allows it.
LEMMA CutIsAllowed ==
  ASSUME NEW t \in Text, Len(t) > 0, t[Len(t)] \notin White
  PROVE  LET X == AfterSeparator(t)
         IN IF X = {} THEN 1 \in Starts(t)
            ELSE Min(X) \in Starts(t) /\ Min(X) \in 1 .. Len(t)
<1> DEFINE l == Len(t)
           X == AfterSeparator(t)
           lines == LineStarts(t)
           sentences == SentenceStarts(t)
<1>1. l \in Nat /\ l > 0
  BY TextFacts
<1>2. \A i \in 2 .. l + 1 : t[i - 1] \in White => i \in 2 .. l
  <2> SUFFICES ASSUME NEW i \in 2 .. l + 1, t[i - 1] \in White, i = l + 1 PROVE FALSE
    BY <1>1
  <2>1. i - 1 = l
    BY <1>1
  <2> QED BY <2>1
<1>3. AfterLine(t) = lines
  <2> HIDE DEF l
  <2>1. AfterLine(t) = {i \in 2 .. l + 1 : t[i - 1] = Newline}
    BY DEF AfterLine, l
  <2>2. lines = {i \in 2 .. l : t[i - 1] = Newline}
    BY DEF LineStarts, l
  <2>3. \A i \in 2 .. l : i \in 2 .. l + 1
    BY <1>1
  <2> HIDE DEF lines
  <2> QED BY <1>2, <2>1, <2>2, <2>3 DEF White
<1>4. ASSUME NEW mark \in {".", "?", "!"}
      PROVE  AfterMark(t, mark) = {i \in 3 .. l : t[i - 2] = mark /\ t[i - 1] = "_"}
  <2> HIDE DEF l
  <2>1. AfterMark(t, mark) = {i \in 3 .. l + 1 : t[i - 2] = mark /\ t[i - 1] = "_"}
    BY DEF AfterMark, l
  <2>2. \A i \in 3 .. l : i \in 3 .. l + 1
    BY <1>1
  <2>3. \A i \in 3 .. l + 1 : t[i - 1] = "_" => i \in 3 .. l
    <3>1. \A i \in 3 .. l + 1 : i \in 2 .. l + 1 /\ (i \in 2 .. l => i \in 3 .. l)
      BY <1>1
    <3> QED BY <1>2, <3>1 DEF White
  <2> QED BY <2>1, <2>2, <2>3
<1>5. /\ \A mark \in {".", "?", "!"} : AfterMark(t, mark) \subseteq sentences
      /\ sentences # {} => \E mark \in {".", "?", "!"} : AfterMark(t, mark) # {}
  BY <1>4 DEF SentenceStarts
<1>6. /\ lines # {} => X = lines
      /\ lines = {} => X \subseteq sentences /\ (sentences # {} => X # {})
  BY <1>3, <1>5, SeparatorFacts
<1>7. lines \subseteq 1 .. l /\ sentences \subseteq 1 .. l
  <2> HIDE DEF l
  <2>1. \A i \in 2 .. l : i \in 1 .. l
    BY <1>1
  <2>2. \A i \in 3 .. l : i \in 1 .. l
    BY <1>1
  <2> QED BY <2>1, <2>2 DEF LineStarts, SentenceStarts, l
<1> HIDE DEF lines, sentences, X
<1>8. Starts(t) = IF lines # {} THEN {Min(lines)} ELSE IF sentences # {} THEN sentences
                  ELSE {1}
  BY DEF Starts, lines, sentences
<1>9. CASE X = {}
  <2>1. lines = {} /\ sentences = {}
    BY <1>6, <1>9
  <2> QED BY <1>8, <1>9, <2>1 DEF X
<1>10. CASE X # {}
  <2>1. X \subseteq 1 .. l
    BY <1>6, <1>7
  <2>2. X \subseteq Nat
    BY <1>1, <2>1
  <2>3. Min(X) \in X
    BY <1>10, <2>2, MinFacts
  <2>4. Min(X) \in Starts(t)
    BY <1>6, <1>8, <1>10, <2>3
  <2> QED BY <1>10, <2>1, <2>3, <2>4 DEF X
<1> QED BY <1>9, <1>10

\* An end of an end is an end.
LEMMA CutAgain ==
  ASSUME NEW t \in Text, NEW a \in 1 .. Len(t), NEW b \in 1 .. Len(t) - a + 1
  PROVE  SubSeq(SubSeq(t, a, Len(t)), b, Len(t) - a + 1) = SubSeq(t, a + b - 1, Len(t))
<1>1. Len(t) \in Nat
  BY TextFacts
<1>2. t \in Seq(Char)
  BY DEF Text
<1> DEFINE l == Len(t)
           n == l - a + 1
<1>3. /\ l \in 1 .. Len(t) /\ n \in 1 .. l - a + 1 /\ b \in 1 .. l - a + 1
      /\ a + n - 1 = l
  BY <1>1
<1>4. SubSeq(SubSeq(t, a, l), b, n) = SubSeq(t, a + b - 1, a + n - 1)
  <2> HIDE DEF n, l
  <2> QED BY <1>2, <1>3, SubSeqOfSubSeq
<1> QED BY <1>3, <1>4

\* An end of a text, from place p.
LEMMA EndFacts ==
  ASSUME NEW t \in Text, NEW p \in 1 .. Len(t)
  PROVE  LET o == SubSeq(t, p, Len(t))
         IN /\ o \in Text /\ o # <<>> /\ Len(o) = Len(t) - p + 1
            /\ LastOf(t, Len(t) - p + 1) = o
            /\ \A i \in 1 .. Len(o) : o[i] = t[p + i - 1]
<1>1. Len(t) \in Nat
  BY TextFacts
<1>2. p \in 1 .. Len(t) + 1 /\ Len(t) \in p - 1 .. Len(t)
  BY <1>1
<1> DEFINE o == SubSeq(t, p, Len(t))
<1>3. /\ o \in Text /\ Len(o) = Len(t) - p + 1
      /\ \A i \in 1 .. Len(t) - p + 1 : o[i] = t[p + i - 1]
  BY <1>2, CutFacts
<1>4. o # <<>>
  <2>1. Len(o) # 0
    BY <1>1, <1>3
  <2> HIDE DEF o
  <2> QED BY <1>3, <2>1, TextFacts
<1>5. LastOf(t, Len(t) - p + 1) = o
  <2>1. Len(t) - (Len(t) - p + 1) + 1 = p
    BY <1>1
  <2> QED BY <2>1 DEF LastOf
<1> QED BY <1>3, <1>4, <1>5

\* strip() of a text that ends in ink cuts only what is white in front.
LEMMA StripFront ==
  ASSUME NEW s \in Text, Len(s) > 0, s[Len(s)] \notin White
  PROVE  \E m \in 1 .. Len(s) : /\ Strip(s) = SubSeq(s, m, Len(s))
                                /\ \A j \in 1 .. m - 1 : s[j] \in White
<1> DEFINE l == Len(s)
<1>1. l \in Nat /\ DOMAIN s = 1 .. l /\ l \in 1 .. l
  BY TextFacts
<1>2. l \in Inked(s)
  BY <1>1 DEF Inked
<1>3. PICK m \in 1 .. l, n \in 1 .. l :
             /\ Strip(s) = SubSeq(s, m, n)
             /\ \A i \in 1 .. l : s[i] \notin White => m <= i /\ i <= n
  BY <1>2, StripFacts
<1>4. n = l
  <2>1. l <= n
    BY <1>1, <1>3
  <2> HIDE DEF l
  <2> QED BY <1>1, <1>3, <2>1
<1>5. ASSUME NEW j \in 1 .. m - 1 PROVE s[j] \in White
  <2>1. j \in 1 .. l /\ ~(m <= j)
    BY <1>1, <1>3
  <2> HIDE DEF l
  <2> QED BY <1>3, <2>1
<1> QED BY <1>3, <1>4, <1>5

\* What the overlap of a chunk must be.
IsOverlap(before, overlap) ==
  LET limit == LastOf(before, OverlapChars)
      begin == OverlapChars - Len(overlap) + 1
  IN IF Len(before) <= OverlapChars THEN overlap = before
     ELSE /\ overlap # <<>> /\ Len(overlap) <= OverlapChars
          /\ overlap = LastOf(before, Len(overlap))
          /\ \E i \in Starts(limit) :
               i <= begin /\ \A j \in i .. begin - 1 : limit[j] \in White

LEMMA TailIsOverlap ==
  ASSUME NEW t \in Text, Stripped(t), t # <<>>
  PROVE  IsOverlap(t, OverlapTail(t))
<1> DEFINE l == Len(t)
           c == OverlapChars
<1>1. l \in Nat /\ l > 0 /\ t[l] \notin White /\ c \in Nat /\ c > 0
  BY TextFacts, OverlapIsPositive DEF Stripped
<1>2. Strip(t) = t
  BY StripAgain
<1>3. CASE l <= c
  <2>1. OverlapTail(t) = t
    BY <1>2, <1>3 DEF OverlapTail
  <2> QED BY <1>3, <2>1 DEF IsOverlap
<1>4. CASE ~(l <= c)
  <2> DEFINE p == l - c + 1
             tail == SubSeq(t, p, l)
             X == AfterSeparator(tail)
  <2>1. p \in 1 .. l /\ p \in Int /\ l - p + 1 = c
    BY <1>1, <1>4
  <2>2. /\ tail \in Text /\ Len(tail) = c /\ LastOf(t, c) = tail
        /\ \A i \in 1 .. c : tail[i] = t[p + i - 1]
    <3> HIDE DEF p
    <3> QED BY <2>1, EndFacts
  <2>3. OverlapTail(t) = Strip(IF X = {} THEN tail ELSE SubSeq(tail, Min(X), c))
    BY <1>2, <1>4, <2>2 DEF OverlapTail
  <2>4. c \in 1 .. c /\ tail[c] = t[l]
    <3>1. c \in 1 .. c /\ p + c - 1 = l
      BY <1>1
    <3>2. tail[c] = t[p + c - 1]
      BY <2>2, <3>1
    <3> QED BY <3>1, <3>2
  <2> HIDE DEF tail, X, p
  <2>5. PICK i \in 1 .. c :
               OverlapTail(t) = Strip(SubSeq(tail, i, c)) /\ i \in Starts(tail)
    <3>0. /\ X = {} => 1 \in Starts(tail)
          /\ X # {} => Min(X) \in Starts(tail) /\ Min(X) \in 1 .. c
      <4>1. Len(tail) > 0 /\ tail[Len(tail)] \notin White
        BY <1>1, <2>2, <2>4
      <4>2. Len(tail) = c
        BY <2>2
      <4> QED BY <2>2, <4>1, <4>2, CutIsAllowed DEF X
    <3>1. CASE X = {}
      <4>1. 1 \in 1 .. c
        BY <1>1
      <4>2. SubSeq(tail, 1, c) = tail
        BY <2>2, SubSeqFull DEF Text
      <4> QED BY <2>3, <3>0, <3>1, <4>1, <4>2
    <3>2. CASE X # {}
      BY <2>3, <3>0, <3>2
    <3> QED BY <3>1, <3>2
  <2> DEFINE cut == SubSeq(tail, i, c)
  <2>6. /\ cut \in Text /\ cut # <<>> /\ Len(cut) = c - i + 1
        /\ \A j \in 1 .. c - i + 1 : cut[j] = tail[i + j - 1]
    BY <2>2, EndFacts
  <2>7. cut = SubSeq(t, p + i - 1, l)
    <3>1. i \in 1 .. Len(t) - p + 1 /\ Len(t) - p + 1 = c
      BY <2>1
    <3>2. SubSeq(SubSeq(t, p, l), i, l - p + 1) = SubSeq(t, p + i - 1, l)
      BY <2>1, <3>1, CutAgain
    <3> QED BY <2>1, <3>2 DEF tail
  <2> HIDE DEF cut
  <2> DEFINE d == c - i + 1
             q == p + i - 1
  <2>8. d \in Nat /\ d > 0 /\ d \in 1 .. d /\ i + d - 1 = c /\ q \in 1 .. l /\ l - q + 1 = d
        /\ q \in Int
    BY <1>1, <2>1
  <2>9. cut[d] = t[l]
    BY <2>4, <2>6, <2>8
  <2>10. PICK m \in 1 .. d : /\ Strip(cut) = SubSeq(cut, m, d)
                             /\ \A j \in 1 .. m - 1 : cut[j] \in White
    <3>1. Len(cut) = d /\ cut[Len(cut)] \notin White
      BY <1>1, <2>6, <2>9
    <3> HIDE DEF d
    <3> QED BY <2>6, <2>8, <3>1, StripFront
  <2> DEFINE r == q + m - 1
             o == SubSeq(t, r, l)
  <2>11. OverlapTail(t) = o
    <3>1. SubSeq(SubSeq(t, q, l), m, l - q + 1) = SubSeq(t, q + m - 1, l)
      <4>1. m \in 1 .. Len(t) - q + 1
        BY <2>8
      <4> HIDE DEF q
      <4> QED BY <2>8, <4>1, CutAgain
    <3> HIDE DEF q, d
    <3> QED BY <2>5, <2>7, <2>8, <2>10, <3>1 DEF cut, q
  <2>12. r \in 1 .. l /\ r \in Int /\ l - r + 1 <= c /\ r >= q
    BY <1>1, <2>1, <2>8
  <2>13. o # <<>> /\ Len(o) = l - r + 1 /\ LastOf(t, Len(o)) = o
    <3> HIDE DEF r
    <3> QED BY <2>12, EndFacts
  <2>14. c - Len(o) + 1 = i + m - 1
    <3>1. c - (l - r + 1) + 1 = i + m - 1
      BY <1>1, <2>1, <2>8
    <3> HIDE DEF o, r
    <3> QED BY <2>13, <3>1
  <2>15. i <= i + m - 1 /\ i \in Int /\ m \in Int
    BY <2>8
  <2>16. ASSUME NEW j \in i .. i + m - 1 - 1 PROVE tail[j] \in White
    <3> DEFINE e == j - i + 1
    <3>1. e \in 1 .. m - 1 /\ e \in 1 .. d /\ i + e - 1 = j
      BY <2>8, <2>10, <2>15
    <3> HIDE DEF e, d
    <3>2. cut[e] \in White
      BY <2>10, <3>1
    <3>3. cut[e] = tail[i + e - 1]
      BY <2>6, <3>1 DEF d
    <3> QED BY <3>1, <3>2, <3>3
  <2>17. Len(o) <= c
    BY <2>12, <2>13
  <2> HIDE DEF o, r, d, q
  <2> DEFINE begin == c - Len(o) + 1
  <2>18. i <= begin /\ \A j \in i .. begin - 1 : tail[j] \in White
    BY <2>14, <2>15, <2>16
  <2>19. \E a \in Starts(tail) : a <= begin /\ \A j \in a .. begin - 1 : tail[j] \in White
    <3> HIDE DEF begin
    <3> QED BY <2>5, <2>18
  <2>20. LastOf(t, c) = tail /\ o # <<>> /\ o = LastOf(t, Len(o)) /\ OverlapTail(t) = o
    BY <2>2, <2>11, <2>13
  <2> QED BY <1>4, <2>17, <2>19, <2>20 DEF IsOverlap
<1> QED BY <1>3, <1>4

\* The chunks of a document, one for each of its sections.
LEMMA ChunksAreSections ==
  ASSUME NEW document \in Seq(Line)
  PROVE  LET sections == Sections(document)
             pieces == Chunks(document)
         IN /\ sections \in Seq(Written) /\ pieces \in Seq(Range(pieces))
            /\ DOMAIN pieces = 1 .. Len(sections) /\ DOMAIN sections = 1 .. Len(sections)
            /\ \A n \in DOMAIN pieces :
                 /\ pieces[n].header = sections[n].header
                 /\ pieces[n].parent = sections[n].parent
                 /\ pieces[n].level = sections[n].level
                 /\ pieces[n].content = Body(sections[n].lines)
                 /\ pieces[n].overlap =
                      IF n = 1 THEN <<>> ELSE OverlapTail(Body(sections[n - 1].lines))
<1> DEFINE sections == Sections(document)
           pieces == Chunks(document)
           body == [n \in DOMAIN sections |-> Body(sections[n].lines)]
<1>1. sections \in Seq(Written)
  BY SectionsAreWritten
<1>2. DOMAIN sections = 1 .. Len(sections) /\ Len(sections) \in Nat
  <2> HIDE DEF sections
  <2> QED BY <1>1
<1>3. pieces = [n \in DOMAIN sections |->
        [header |-> sections[n].header, parent |-> sections[n].parent,
         level |-> sections[n].level, content |-> body[n],
         overlap |-> IF n = 1 THEN <<>> ELSE OverlapTail(body[n - 1])]]
  BY DEF Chunks
<1> HIDE DEF sections, pieces
<1>4. DOMAIN pieces = 1 .. Len(sections)
  BY <1>2, <1>3
<1>5. pieces \in Seq(Range(pieces))
  <2>1. pieces \in [1 .. Len(sections) -> Range(pieces)]
    BY <1>3, <1>4 DEF Range
  <2> QED BY <1>2, <2>1, SeqDef
<1>6. ASSUME NEW n \in DOMAIN pieces
      PROVE  /\ pieces[n].header = sections[n].header
             /\ pieces[n].parent = sections[n].parent
             /\ pieces[n].level = sections[n].level
             /\ pieces[n].content = Body(sections[n].lines)
             /\ pieces[n].overlap =
                  IF n = 1 THEN <<>> ELSE OverlapTail(Body(sections[n - 1].lines))
  <2>1. n \in DOMAIN sections /\ body[n] = Body(sections[n].lines)
    BY <1>3
  <2>2. n # 1 => body[n - 1] = Body(sections[n - 1].lines)
    BY <1>2, <2>1
  <2> HIDE DEF body
  <2> QED BY <1>3, <2>1, <2>2
<1> QED BY <1>1, <1>2, <1>4, <1>5, <1>6 DEF sections, pieces

LEMMA ChunksOverlap ==
  ASSUME NEW document \in Seq(Line)
  PROVE  OverlapsThePrevious(Chunks(document))
<1> DEFINE sections == Sections(document)
           pieces == Chunks(document)
<1>1. /\ sections \in Seq(Written) /\ DOMAIN sections = 1 .. Len(sections)
      /\ DOMAIN pieces = 1 .. Len(sections)
      /\ \A n \in DOMAIN pieces :
           /\ pieces[n].content = Body(sections[n].lines)
           /\ pieces[n].overlap =
                IF n = 1 THEN <<>> ELSE OverlapTail(Body(sections[n - 1].lines))
  BY ChunksAreSections
<1> HIDE DEF sections, pieces
<1>2. ASSUME NEW n \in DOMAIN pieces \ {1}
      PROVE  IsOverlap(pieces[n - 1].content, pieces[n].overlap)
  <2>1. n - 1 \in DOMAIN pieces /\ n - 1 \in DOMAIN sections
    BY <1>1
  <2>2. sections[n - 1] \in Written
    BY <1>1, <2>1
  <2> DEFINE t == Body(sections[n - 1].lines)
  <2>3. t \in Text /\ Stripped(t) /\ t # <<>>
    BY <2>2, BodyFacts DEF Written, Section
  <2>4. pieces[n - 1].content = t /\ pieces[n].overlap = OverlapTail(t)
    BY <1>1, <2>1
  <2> HIDE DEF t
  <2> QED BY <2>3, <2>4, TailIsOverlap
<1> QED BY <1>2 DEF OverlapsThePrevious, IsOverlap, pieces

-----------------------------------------------------------------------------
(* The pass cuts at the headers. *)

\* x is the last header of a level in L up to line k, 0 if there is none.
IsLast(document, k, L, x) ==
  /\ x \in 0 .. k
  /\ x # 0 => document[x].level \in L
  /\ \A j \in 1 .. k : document[j].level \in L => j <= x

\* x is the header after line i, or the end of the document.
IsNext(document, i, x) ==
  /\ x \in i + 1 .. Len(document) + 1
  /\ x <= Len(document) => document[x].level # 0
  /\ \A j \in i + 1 .. Len(document) : document[j].level # 0 => x <= j

LEMMA LastHeaderIsLast ==
  ASSUME NEW document \in Seq(Line), NEW i \in 1 .. Len(document), NEW L, NEW x,
         IsLast(document, i - 1, L, x)
  PROVE  LastHeader(document, i, L) = x
<1> DEFINE X == {0} \cup {j \in 1 .. i - 1 : document[j].level \in L}
<1>1. i - 1 \in Nat /\ X \subseteq 0 .. i - 1 /\ X # {}
  OBVIOUS
<1>2. LastHeader(document, i, L) = Max(X)
  BY DEF LastHeader
<1>3. x \in X /\ \A j \in X : j <= x
  BY DEF IsLast
<1> DEFINE k == i - 1
<1> HIDE DEF X
<1>4. Max(X) \in X /\ \A j \in X : j <= Max(X)
  <2>1. k \in Nat /\ X \subseteq 0 .. k
    BY <1>1
  <2> HIDE DEF k
  <2> QED BY <1>1, <2>1, MaxFacts
<1>5. x <= Max(X) /\ Max(X) <= x /\ x \in Int /\ Max(X) \in Int
  <2>1. x <= Max(X) /\ Max(X) <= x
    BY <1>3, <1>4
  <2>2. \A j \in X : j \in Int
    BY <1>1
  <2> QED BY <1>3, <1>4, <2>1, <2>2
<1> QED BY <1>2, <1>5

LEMMA NextHeaderIsNext ==
  ASSUME NEW document \in Seq(Line), NEW i \in 1 .. Len(document)
  PROVE  /\ IsNext(document, i, NextHeader(document, i))
         /\ \A x : IsNext(document, i, x) => x = NextHeader(document, i)
<1> DEFINE n == Len(document)
           X == {n + 1} \cup {j \in i + 1 .. n : document[j].level # 0}
           y == NextHeader(document, i)
<1>1. n \in Nat /\ X \subseteq i + 1 .. n + 1 /\ X \subseteq Nat /\ X # {}
  OBVIOUS
<1>2. y = Min(X)
  BY DEF NextHeader
<1>3. y \in X /\ \A j \in X : y <= j
  <2> HIDE DEF X, y
  <2> QED BY <1>1, <1>2, MinFacts
<1> HIDE DEF y
<1>4. IsNext(document, i, y)
  <2>1. y \in i + 1 .. n + 1 /\ y \in Int /\ n + 1 > n
    BY <1>1, <1>3
  <2>2. y <= n => document[y].level # 0
    BY <1>1, <1>3, <2>1
  <2>3. \A j \in i + 1 .. n : document[j].level # 0 => y <= j
    BY <1>3
  <2> QED BY <2>1, <2>2, <2>3 DEF IsNext
<1>5. ASSUME NEW x, IsNext(document, i, x) PROVE x = y
  <2>1. /\ x \in i + 1 .. n + 1
        /\ x <= n => document[x].level # 0
        /\ \A j \in i + 1 .. n : document[j].level # 0 => x <= j
    BY <1>5 DEF IsNext
  <2>2. /\ y \in i + 1 .. n + 1
        /\ y <= n => document[y].level # 0
        /\ \A j \in i + 1 .. n : document[j].level # 0 => y <= j
    BY <1>4 DEF IsNext
  <2> HIDE DEF n, X
  <2>0. i \in Int /\ n \in Int /\ x \in Int /\ y \in Int
    BY <1>1, <2>1, <2>2
  <2>3. y <= x
    <3>1. CASE x <= n
      BY <2>0, <2>1, <2>2, <3>1
    <3>2. CASE ~(x <= n)
      BY <2>0, <2>1, <2>2, <3>2
    <3> QED BY <3>1, <3>2
  <2>4. x <= y
    <3>1. CASE y <= n
      BY <2>0, <2>1, <2>2, <3>1
    <3>2. CASE ~(y <= n)
      BY <2>0, <2>1, <2>2, <3>2
    <3> QED BY <3>1, <3>2
  <2> QED BY <2>0, <2>3, <2>4
<1> QED BY <1>4, <1>5 DEF y

\* The section of header j as it must be, closed or still open at line k.
SectionAt(document, s, j) ==
  /\ s.header = j /\ s.level = document[j].level /\ s.parent = ParentOf(document, j)
  /\ Body(s.lines) = BodyUnder(document, j)
OpenAt(document, s, j, k) ==
  /\ s.header = j /\ s.level = document[j].level /\ s.parent = ParentOf(document, j)
  /\ s.lines = [m \in 1 .. k - j |-> document[j + m].text]

\* The headers of the chunks that line i, or one before it, has closed.
Closed(document, i) ==
  {j \in DOMAIN document : /\ document[j].level \in {2, 3}
                           /\ BodyUnder(document, j) # <<>>
                           /\ NextHeader(document, j) <= i}
Done(document, sections, i) ==
  /\ \A n \in DOMAIN sections :
       /\ sections[n].header \in Closed(document, i)
       /\ SectionAt(document, sections[n], sections[n].header)
       /\ n > 1 => sections[n].header > sections[n - 1].header
  /\ \A j \in Closed(document, i) : \E n \in DOMAIN sections : sections[n].header = j

\* What an h3 belongs to: x, the last h1 or h2, if it has a title.
Over(document, x, h1) ==
  IF x # 0 /\ document[x].level = 2 /\ Inked(document[x].text) = {} THEN h1 ELSE x

\* What the pass knows after line k.
Above(document, pass, k) ==
  /\ IsLast(document, k, 1 .. 1, pass.h1)
  /\ \E x : /\ IsLast(document, k, 1 .. 2, x)
            /\ Over(document, x, pass.h1) = IF pass.h2 # 0 THEN pass.h2 ELSE pass.h1
Under(document, pass, k) ==
  \E o : /\ IsLast(document, k, 1 .. 3, o)
         /\ IF o # 0 /\ document[o].level # 1 THEN OpenAt(document, pass.open, o, k)
            ELSE pass.open = NoSection
SoFar(document, pass, k) ==
  Above(document, pass, k) /\ Under(document, pass, k) /\ Done(document, pass.sections, k)

LEMMA LineFacts ==
  ASSUME NEW document \in Seq(Line)
  PROVE  /\ Len(document) \in Nat /\ DOMAIN document = 1 .. Len(document)
         /\ \A i \in 1 .. Len(document) :
              /\ document[i].level \in 0 .. 3 /\ document[i].text \in Text /\ i \in Int
<1>1. Len(document) \in Nat /\ DOMAIN document = 1 .. Len(document)
  OBVIOUS
<1>2. ASSUME NEW i \in 1 .. Len(document)
      PROVE  document[i].level \in 0 .. 3 /\ document[i].text \in Text /\ i \in Int
  <2>1. document[i] \in Line
    OBVIOUS
  <2> QED BY <2>1 DEF Line
<1> QED BY <1>1, <1>2

LEMMA StartSoFar ==
  ASSUME NEW document \in Seq(Line)
  PROVE  SoFar(document, Start, 0)
<1>1. Above(document, Start, 0)
  <2>1. IsLast(document, 0, 1 .. 1, 0) /\ IsLast(document, 0, 1 .. 2, 0)
    BY DEF IsLast
  <2>2. Over(document, 0, 0) = 0 /\ Start.h1 = 0 /\ Start.h2 = 0
    BY DEF Over, Start
  <2> QED BY <2>1, <2>2 DEF Above
<1>2. Under(document, Start, 0)
  <2>1. IsLast(document, 0, 1 .. 3, 0)
    BY DEF IsLast
  <2> QED BY <2>1 DEF Under, Start
<1>3. Closed(document, 0) = {}
  <2> SUFFICES ASSUME NEW j \in DOMAIN document, NextHeader(document, j) <= 0 PROVE FALSE
    BY DEF Closed
  <2>1. j \in 1 .. Len(document) /\ Len(document) \in Nat
    BY LineFacts
  <2>2. NextHeader(document, j) \in j + 1 .. Len(document) + 1
    BY <2>1, NextHeaderIsNext DEF IsNext
  <2> QED BY <2>1, <2>2
<1>4. DOMAIN Start.sections = {}
  BY DEF Start
<1>5. Done(document, Start.sections, 0)
  BY <1>3, <1>4 DEF Done
<1> QED BY <1>1, <1>2, <1>5 DEF SoFar

\* A line of text closes nothing.
LEMMA TextClosesNothing ==
  ASSUME NEW document \in Seq(Line), NEW k \in 1 .. Len(document),
         document[k].level = 0
  PROVE  Closed(document, k) = Closed(document, k - 1)
<1> SUFFICES ASSUME NEW j \in 1 .. Len(document)
             PROVE  NextHeader(document, j) <= k <=> NextHeader(document, j) <= k - 1
  BY LineFacts DEF Closed
<1>1. Len(document) \in Nat /\ k \in Int
  BY LineFacts
<1> DEFINE x == NextHeader(document, j)
<1>2. /\ x \in j + 1 .. Len(document) + 1
      /\ x <= Len(document) => document[x].level # 0
  BY NextHeaderIsNext DEF IsNext
<1> HIDE DEF x
<1>3. x # k
  BY <1>1, <1>2
<1>4. x <= k <=> x <= k - 1
  BY <1>1, <1>2, <1>3
<1> QED BY <1>4 DEF x

\* The end of a section: line i is a header, or the document has ended.
LEMMA FlushedAtHeader ==
  ASSUME NEW document \in Seq(Line), NEW pass \in Pass, NEW i \in 1 .. Len(document) + 1,
         i <= Len(document) => document[i].level # 0,
         SoFar(document, pass, i - 1)
  PROVE  Done(document, Flushed(pass), i)
<1> DEFINE n == Len(document)
           k == i - 1
<1>1. /\ n \in Nat /\ DOMAIN document = 1 .. n /\ i \in Int /\ k \in 0 .. n /\ k < i
      /\ \A j \in 1 .. n : document[j].level \in 0 .. 3 /\ j \in Int
  BY LineFacts
<1>2. PICK o : /\ IsLast(document, k, 1 .. 3, o)
               /\ IF o # 0 /\ document[o].level # 1 THEN OpenAt(document, pass.open, o, k)
                  ELSE pass.open = NoSection
  BY DEF SoFar, Under
<1>3. /\ o \in 0 .. k /\ o \in Int
      /\ o # 0 => document[o].level \in 1 .. 3
      /\ \A j \in 1 .. k : document[j].level \in 1 .. 3 => j <= o
  BY <1>1, <1>2 DEF IsLast
<1>4. Done(document, pass.sections, k)
  BY DEF SoFar
<1>5. o # 0 => o \in 1 .. n /\ NextHeader(document, o) = i
  <2> SUFFICES ASSUME o # 0 PROVE o \in 1 .. n /\ NextHeader(document, o) = i
    OBVIOUS
  <2>1. o \in 1 .. n
    BY <1>1, <1>3
  <2>2. IsNext(document, o, i)
    <3>1. i \in o + 1 .. n + 1
      BY <1>1, <1>3, <2>1
    <3>2. ASSUME NEW j \in o + 1 .. n, document[j].level # 0 PROVE i <= j
      <4>1. j \in 1 .. n /\ document[j].level \in 1 .. 3 /\ ~(j <= o) /\ j \in Int
        BY <1>1, <1>3, <2>1, <3>2
      <4>2. j \notin 1 .. k
        BY <1>3, <4>1
      <4> QED BY <1>1, <4>1, <4>2
    <3> QED BY <3>1, <3>2 DEF IsNext
  <2> QED BY <2>1, <2>2, NextHeaderIsNext
\* Line i closes the section that is open, and no other.
<1>6. ASSUME NEW j \in 1 .. n, j # o, document[j].level \in 1 .. 3
      PROVE  NextHeader(document, j) <= i <=> NextHeader(document, j) <= k
  <2> DEFINE x == NextHeader(document, j)
  <2>1. /\ x \in j + 1 .. n + 1
        /\ \A y \in j + 1 .. n : document[y].level # 0 => x <= y
    BY NextHeaderIsNext DEF IsNext
  <2> HIDE DEF x
  <2>2. x # i
    <3> SUFFICES ASSUME x = i PROVE FALSE
      OBVIOUS
    <3>1. j \in 1 .. k
      BY <1>1, <2>1
    <3>2. j <= o
      BY <1>3, <1>6, <3>1
    <3>3. o \in j + 1 .. n /\ o \in 1 .. n /\ o # 0
      BY <1>1, <1>3, <1>6, <3>1, <3>2
    <3>4. document[o].level # 0
      BY <1>3, <3>3
    <3>5. x <= o
      BY <2>1, <3>3, <3>4
    <3> QED BY <1>1, <1>3, <3>5
  <2>3. x <= i <=> x <= k
    BY <1>1, <2>1, <2>2
  <2> QED BY <2>3 DEF x
<1> DEFINE opened == o # 0 /\ document[o].level # 1 /\ BodyUnder(document, o) # <<>>
<1>7. opened => document[o].level \in {2, 3}
  BY <1>3
<1>8. Closed(document, i) = Closed(document, k) \cup (IF opened THEN {o} ELSE {})
  <2>1. ASSUME NEW j \in Closed(document, i), j # o PROVE j \in Closed(document, k)
    <3>1. /\ j \in 1 .. n /\ document[j].level \in {2, 3} /\ BodyUnder(document, j) # <<>>
          /\ NextHeader(document, j) <= i
      BY <1>1, <2>1 DEF Closed
    <3>2. document[j].level \in 1 .. 3
      BY <3>1
    <3> QED BY <1>1, <1>6, <2>1, <3>1, <3>2 DEF Closed
  <2>2. ASSUME o \in Closed(document, i) PROVE opened
    <3>1. o \in 1 .. n /\ document[o].level \in {2, 3} /\ BodyUnder(document, o) # <<>>
      BY <1>1, <2>2 DEF Closed
    <3> QED BY <3>1
  <2>3. ASSUME opened PROVE o \in Closed(document, i)
    <3>1. NextHeader(document, o) <= i
      BY <1>1, <1>5, <2>3
    <3> QED BY <1>1, <1>5, <1>7, <2>3, <3>1 DEF Closed
  <2>4. ASSUME NEW j \in Closed(document, k) PROVE j \in Closed(document, i)
    <3>1. j \in 1 .. n /\ NextHeader(document, j) <= k
      BY <1>1, <2>4 DEF Closed
    <3>2. NextHeader(document, j) \in Int
      BY <1>1, <3>1, NextHeaderIsNext DEF IsNext
    <3>3. NextHeader(document, j) <= i
      BY <1>1, <3>1, <3>2
    <3> QED BY <2>4, <3>3 DEF Closed
  <2> QED BY <2>1, <2>2, <2>3, <2>4
<1>9. \A j \in Closed(document, k) : j < o
  <2> SUFFICES ASSUME NEW j \in Closed(document, k) PROVE j < o
    OBVIOUS
  <2>1. j \in 1 .. n /\ document[j].level \in 1 .. 3 /\ NextHeader(document, j) <= k
    BY <1>1 DEF Closed
  <2>2. NextHeader(document, j) \in j + 1 .. n + 1
    BY <2>1, NextHeaderIsNext DEF IsNext
  <2>3. j \in 1 .. k
    BY <1>1, <2>1, <2>2
  <2>4. j <= o
    BY <1>3, <2>1, <2>3
  <2>5. j # o
    <3> SUFFICES ASSUME j = o PROVE FALSE
      OBVIOUS
    <3>1. NextHeader(document, j) = i
      BY <1>5, <2>1
    <3> QED BY <1>1, <2>1, <3>1
  <2> QED BY <1>3, <2>1, <2>4, <2>5
<1>10. o # 0 /\ document[o].level # 1 =>
         /\ OpenAt(document, pass.open, o, k) /\ pass.open # NoSection
         /\ Body(pass.open.lines) = BodyUnder(document, o)
  <2> SUFFICES ASSUME o # 0 /\ document[o].level # 1
               PROVE  /\ OpenAt(document, pass.open, o, k) /\ pass.open # NoSection
                      /\ Body(pass.open.lines) = BodyUnder(document, o)
    OBVIOUS
  <2>1. /\ OpenAt(document, pass.open, o, k) /\ pass.open.header = o
        /\ pass.open.lines = [m \in 1 .. k - o |-> document[o + m].text]
    BY <1>2 DEF OpenAt
  <2>2. pass.open # NoSection
    BY <2>1 DEF NoSection, Opened
  <2>3. BodyUnder(document, o) = Body([m \in 1 .. k - o |-> document[o + m].text])
    <3>1. NextHeader(document, o) - o - 1 = k - o
      BY <1>1, <1>3, <1>5
    <3> QED BY <3>1 DEF BodyUnder
  <2> QED BY <2>1, <2>2, <2>3
<1>11. CASE ~opened
  <2>1. Flushed(pass) = pass.sections
    <3>1. CASE o # 0 /\ document[o].level # 1
      BY <1>10, <1>11, <3>1 DEF Flushed
    <3>2. CASE ~(o # 0 /\ document[o].level # 1)
      BY <1>2, <3>2 DEF Flushed
    <3> QED BY <3>1, <3>2
  <2> QED BY <1>4, <1>8, <1>11, <2>1 DEF Done
<1>12. CASE opened
  <2> DEFINE s == pass.sections
             t == Append(s, pass.open)
             l == Len(s)
  <2>1. Flushed(pass) = t
    BY <1>10, <1>12 DEF Flushed
  <2>2. pass.sections \in Seq(Written) /\ pass.open \in Section
    BY DEF Pass
  <2>3. /\ l \in Nat /\ DOMAIN s = 1 .. l /\ DOMAIN t = 1 .. l + 1
        /\ \A m \in 1 .. l : t[m] = s[m]
        /\ t[l + 1] = pass.open
    BY <2>2
  <2>4. pass.open.header = o /\ SectionAt(document, pass.open, o)
    BY <1>10, <1>12 DEF OpenAt, SectionAt
  <2>5. Closed(document, i) = Closed(document, k) \cup {o}
    BY <1>8, <1>12
  <2> HIDE DEF t, s, l, opened
  <2>6. /\ \A m \in 1 .. l : /\ s[m].header \in Closed(document, k)
                             /\ SectionAt(document, s[m], s[m].header)
                             /\ m > 1 => s[m].header > s[m - 1].header
        /\ \A j \in Closed(document, k) : \E m \in 1 .. l : s[m].header = j
    BY <1>4, <2>3 DEF Done, s
  <2>7. ASSUME NEW m \in 1 .. l + 1
        PROVE  /\ t[m].header \in Closed(document, i)
               /\ SectionAt(document, t[m], t[m].header)
               /\ m > 1 => t[m].header > t[m - 1].header
    <3>1. CASE m \in 1 .. l
      <4>1. m > 1 => m - 1 \in 1 .. l
        BY <2>3, <3>1
      <4> QED BY <2>3, <2>5, <2>6, <3>1, <4>1
    <3>2. CASE m = l + 1
      <4>1. t[m] = pass.open
        BY <2>3, <3>2
      <4>2. m > 1 => m - 1 \in 1 .. l /\ t[m - 1] = s[m - 1]
        BY <2>3, <3>2
      <4>3. m > 1 => s[m - 1].header < o
        BY <1>9, <2>6, <4>2
      <4>4. m > 1 => s[m - 1].header \in Int
        BY <1>1, <2>6, <4>2 DEF Closed
      <4>5. m > 1 => o > t[m - 1].header
        BY <1>3, <4>2, <4>3, <4>4
      <4> QED BY <2>4, <2>5, <4>1, <4>5
    <3> QED BY <2>3, <3>1, <3>2
  <2>8. ASSUME NEW j \in Closed(document, i) PROVE \E m \in 1 .. l + 1 : t[m].header = j
    <3>1. CASE j = o
      <4>1. l + 1 \in 1 .. l + 1
        BY <2>3
      <4> QED BY <2>3, <2>4, <3>1, <4>1
    <3>2. CASE j # o
      <4>1. PICK m \in 1 .. l : s[m].header = j
        BY <2>5, <2>6, <3>2
      <4>2. m \in 1 .. l + 1
        BY <2>3
      <4> QED BY <2>3, <4>1, <4>2
    <3> QED BY <3>1, <3>2
  <2> QED BY <2>1, <2>3, <2>7, <2>8 DEF Done
<1> QED BY <1>11, <1>12

LEMMA LastStays ==
  ASSUME NEW document \in Seq(Line), NEW k \in 1 .. Len(document), NEW L, NEW x,
         IsLast(document, k - 1, L, x), document[k].level \notin L
  PROVE  IsLast(document, k, L, x)
<1>1. k \in Int /\ k - 1 \in Int
  BY LineFacts
<1>2. x \in 0 .. k
  BY <1>1 DEF IsLast
<1>3. ASSUME NEW j \in 1 .. k, document[j].level \in L PROVE j <= x
  <2>1. j \in 1 .. k - 1
    BY <1>1, <1>3
  <2> QED BY <1>3, <2>1 DEF IsLast
<1> QED BY <1>2, <1>3 DEF IsLast

LEMMA LastMoves ==
  ASSUME NEW document \in Seq(Line), NEW k \in 1 .. Len(document), NEW L,
         document[k].level \in L
  PROVE  IsLast(document, k, L, k)
BY LineFacts DEF IsLast

LEMMA TextSoFar ==
  ASSUME NEW document \in Seq(Line), NEW k \in 1 .. Len(document), NEW pass \in Pass,
         document[k].level = 0, SoFar(document, pass, k - 1)
  PROVE  SoFar(document, AfterText(pass, document[k].text), k)
<1> DEFINE text == document[k].text
           next == AfterText(pass, text)
<1>1. k \in Int /\ k - 1 \in Int /\ 0 \notin 1 .. 1 /\ 0 \notin 1 .. 2 /\ 0 \notin 1 .. 3
  BY LineFacts
<1>2. /\ next.h1 = pass.h1 /\ next.h2 = pass.h2 /\ next.sections = pass.sections
      /\ pass.open = NoSection => next.open = pass.open
      /\ pass.open # NoSection =>
           next.open = [pass.open EXCEPT !.lines = Append(pass.open.lines, text)]
  BY DEF AfterText, Pass
<1> HIDE DEF next
<1>3. Above(document, next, k)
  <2>1. PICK x : /\ IsLast(document, k - 1, 1 .. 1, pass.h1)
                 /\ IsLast(document, k - 1, 1 .. 2, x)
                 /\ Over(document, x, pass.h1) = IF pass.h2 # 0 THEN pass.h2 ELSE pass.h1
    BY DEF SoFar, Above
  <2>2. IsLast(document, k, 1 .. 1, pass.h1) /\ IsLast(document, k, 1 .. 2, x)
    BY <1>1, <2>1, LastStays
  <2> QED BY <1>2, <2>1, <2>2 DEF Above
<1>4. Done(document, next.sections, k)
  BY <1>2, TextClosesNothing DEF SoFar, Done
<1>5. PICK o : /\ IsLast(document, k - 1, 1 .. 3, o)
               /\ IF o # 0 /\ document[o].level # 1 THEN OpenAt(document, pass.open, o, k - 1)
                  ELSE pass.open = NoSection
  BY DEF SoFar, Under
<1>6. IsLast(document, k, 1 .. 3, o)
  BY <1>1, <1>5, LastStays
<1>7. CASE o # 0 /\ document[o].level # 1
  <2>1. OpenAt(document, pass.open, o, k - 1)
    BY <1>5, <1>7
  <2>2. /\ pass.open.header = o /\ pass.open.level = document[o].level
        /\ pass.open.parent = ParentOf(document, o)
        /\ pass.open.lines = [m \in 1 .. k - 1 - o |-> document[o + m].text]
    BY <2>1 DEF OpenAt
  <2>3. pass.open \in Section /\ pass.open # NoSection
    BY <1>7, <2>2 DEF Pass, NoSection, Opened
  <2> DEFINE lines == Append(pass.open.lines, text)
  <2>4. /\ next.open.header = pass.open.header /\ next.open.level = pass.open.level
        /\ next.open.parent = pass.open.parent /\ next.open.lines = lines
    BY <1>2, <2>3 DEF Section
  <2>5. lines = [m \in 1 .. k - o |-> document[o + m].text]
    <3> DEFINE old == pass.open.lines
               new == [m \in 1 .. k - o |-> document[o + m].text]
    <3>1. /\ o \in 0 .. k - 1 /\ o \in Int
      BY <1>1, <1>5 DEF IsLast
    <3>2. /\ old \in Seq(Text) /\ DOMAIN old = 1 .. k - 1 - o
          /\ \A m \in 1 .. k - 1 - o : old[m] = document[o + m].text
      BY <2>2, <2>3 DEF Section
    <3>3. Len(old) = k - 1 - o
      BY <1>1, <3>1, <3>2
    <3>4. document[k].text \in Text
      BY LineFacts
    <3> HIDE DEF old
    <3>5. /\ Append(old, text) \in Seq(Text) /\ Len(Append(old, text)) = k - o
          /\ \A m \in 1 .. k - 1 - o : Append(old, text)[m] = old[m]
          /\ Append(old, text)[k - o] = text
      <4> DEFINE l == k - 1 - o
      <4>1. l + 1 = k - o
        BY <1>1, <3>1
      <4> HIDE DEF l
      <4>2. Len(old) = l
        BY <3>3 DEF l
      <4>3. /\ Append(old, text) \in Seq(Text) /\ Len(Append(old, text)) = l + 1
            /\ \A m \in 1 .. l : Append(old, text)[m] = old[m]
            /\ Append(old, text)[l + 1] = text
        BY <3>2, <3>4, <4>2, AppendProperties
      <4> QED BY <4>1, <4>3 DEF l
    <3>6. DOMAIN Append(old, text) = 1 .. k - o
      BY <3>5
    <3>7. ASSUME NEW m \in 1 .. k - o PROVE Append(old, text)[m] = document[o + m].text
      <4>1. CASE m \in 1 .. k - 1 - o
        BY <3>2, <3>5, <4>1
      <4>2. CASE m = k - o
        <5>1. o + m = k
          BY <1>1, <3>1, <4>2
        <5> QED BY <3>5, <4>2, <5>1
      <4>3. \A a, b \in Int : \A c \in 1 .. a - b : c \in 1 .. a - 1 - b \/ c = a - b
        OBVIOUS
      <4>4. m \in 1 .. k - 1 - o \/ m = k - o
        BY <1>1, <3>1, <4>3
      <4> QED BY <4>1, <4>2, <4>4
    <3>8. Append(old, text) = new
      <4> DEFINE u == Append(old, text)
      <4>1. u = [m \in DOMAIN u |-> u[m]]
        BY <3>5
      <4> HIDE DEF u
      <4> QED BY <3>6, <3>7, <4>1 DEF u
    <3> QED BY <3>8 DEF old
  <2>6. OpenAt(document, next.open, o, k)
    BY <2>2, <2>4, <2>5 DEF OpenAt
  <2>7. Under(document, next, k)
    BY <1>6, <1>7, <2>6 DEF Under
  <2> QED BY <1>3, <1>4, <2>7 DEF SoFar, next
<1>8. CASE ~(o # 0 /\ document[o].level # 1)
  <2>1. next.open = NoSection
    BY <1>2, <1>5, <1>8
  <2>2. Under(document, next, k)
    BY <1>6, <1>8, <2>1 DEF Under
  <2> QED BY <1>3, <1>4, <2>2 DEF SoFar, next
<1> QED BY <1>7, <1>8

LEMMA HeaderSoFar ==
  ASSUME NEW document \in Seq(Line), NEW k \in 1 .. Len(document), NEW pass \in Pass,
         document[k].level # 0, SoFar(document, pass, k - 1)
  PROVE  SoFar(document, AfterHeader(pass, k, document[k].level, document[k].text), k)
<1> DEFINE level == document[k].level
           title == document[k].text
           next == AfterHeader(pass, k, level, title)
<1>1. /\ k \in Int /\ k # 0 /\ level \in {1, 2, 3} /\ k \in 1 .. Len(document) + 1
      /\ pass.h2 \in Nat
  BY LineFacts DEF Pass
<1>2. PICK x : /\ IsLast(document, k - 1, 1 .. 1, pass.h1)
               /\ IsLast(document, k - 1, 1 .. 2, x)
               /\ Over(document, x, pass.h1) = IF pass.h2 # 0 THEN pass.h2 ELSE pass.h1
  BY DEF SoFar, Above
<1>3. /\ next.h1 = (IF level = 1 THEN k ELSE pass.h1)
      /\ next.h2 = LastH2(pass, k, level, title)
      /\ next.sections = Flushed(pass)
  BY DEF AfterHeader
<1>4. Above(document, next, k)
  <2>1. CASE level = 1
    <3>1. next.h1 = k /\ next.h2 = 0
      BY <1>3, <2>1 DEF LastH2
    <3>2. IsLast(document, k, 1 .. 1, k) /\ IsLast(document, k, 1 .. 2, k)
      BY <2>1, LastMoves
    <3>3. Over(document, k, k) = k
      BY DEF Over
    <3> HIDE DEF next
    <3> QED BY <3>1, <3>2, <3>3 DEF Above
  <2>2. CASE level = 2
    <3>1. next.h1 = pass.h1 /\ next.h2 = (IF Inked(title) = {} THEN 0 ELSE k)
      BY <1>3, <2>2 DEF LastH2
    <3>2. IsLast(document, k, 1 .. 1, pass.h1) /\ IsLast(document, k, 1 .. 2, k)
      BY <1>2, <2>2, LastMoves, LastStays
    <3>3. Over(document, k, pass.h1) = IF Inked(title) = {} THEN pass.h1 ELSE k
      BY <1>1, <2>2 DEF Over
    <3> HIDE DEF next, title
    <3>4. Over(document, k, next.h1) = IF next.h2 # 0 THEN next.h2 ELSE next.h1
      BY <1>1, <3>1, <3>3
    <3> QED BY <3>1, <3>2, <3>4 DEF Above
  <2>3. CASE level = 3
    <3>1. next.h1 = pass.h1 /\ next.h2 = pass.h2
      BY <1>3, <2>3 DEF LastH2
    <3>2. IsLast(document, k, 1 .. 1, pass.h1) /\ IsLast(document, k, 1 .. 2, x)
      BY <1>2, <2>3, LastStays
    <3> HIDE DEF next
    <3> QED BY <1>2, <3>1, <3>2 DEF Above
  <2> QED BY <1>1, <2>1, <2>2, <2>3
<1>5. Done(document, next.sections, k)
  <2>1. Done(document, Flushed(pass), k)
    BY <1>1, FlushedAtHeader
  <2> QED BY <1>3, <2>1
<1>6. Under(document, next, k)
  <2>1. IsLast(document, k, 1 .. 3, k)
    BY <1>1, LastMoves
  <2>2. k - k = 0 /\ <<>> = [m \in 1 .. k - k |-> document[k + m].text]
    BY <1>1
  <2>3. CASE level = 1
    <3>1. next.open = NoSection
      BY <2>3 DEF AfterHeader
    <3> QED BY <2>1, <2>3, <3>1 DEF Under
  <2>4. CASE level = 2
    <3>1. next.open = Opened(k, pass.h1, 2)
      BY <2>4 DEF AfterHeader
    <3>2. ParentOf(document, k) = pass.h1
      <4>1. LastHeader(document, k, 1 .. 1) = pass.h1
        BY <1>2, LastHeaderIsLast
      <4>2. pass.h1 # 0 => document[pass.h1].level # 2
        BY <1>2 DEF IsLast
      <4>3. level - 1 = 1
        BY <2>4
      <4> HIDE DEF next
      <4> QED BY <4>1, <4>2, <4>3 DEF ParentOf
    <3> HIDE DEF next
    <3>3. OpenAt(document, next.open, k, k)
      BY <2>2, <2>4, <3>1, <3>2 DEF OpenAt, Opened
    <3> QED BY <1>1, <2>1, <2>4, <3>3 DEF Under
  <2>5. CASE level = 3
    <3> DEFINE parent == IF pass.h2 # 0 THEN pass.h2 ELSE pass.h1
    <3>1. next.open = Opened(k, parent, 3)
      BY <2>5 DEF AfterHeader
    <3>2. ParentOf(document, k) = parent
      <4>1. LastHeader(document, k, 1 .. 2) = x /\ LastHeader(document, k, 1 .. 1) = pass.h1
        BY <1>2, LastHeaderIsLast
      <4>2. level - 1 = 2 /\ 1 .. 1 = {1}
        BY <2>5
      <4> HIDE DEF next
      <4>3. ParentOf(document, k) = Over(document, x, pass.h1)
        BY <4>1, <4>2 DEF ParentOf, Over
      <4> QED BY <1>2, <4>3
    <3> HIDE DEF next, parent
    <3>3. OpenAt(document, next.open, k, k)
      BY <2>2, <2>5, <3>1, <3>2 DEF OpenAt, Opened
    <3> QED BY <1>1, <2>1, <2>5, <3>3 DEF Under
  <2> QED BY <1>1, <2>3, <2>4, <2>5
<1> QED BY <1>4, <1>5, <1>6 DEF SoFar

LEMMA SectionsAreDone ==
  ASSUME NEW document \in Seq(Line)
  PROVE  Done(document, Sections(document), Len(document) + 1)
<1> DEFINE n == Len(document)
<1>1. n \in Nat
  BY LineFacts
<1>2. PICK H \in [0 .. n -> Pass] :
             /\ H[0] = Start
             /\ \A k \in 1 .. n : H[k] = Round(document, H[k - 1], k)
             /\ Sections(document) = Flushed(H[n])
  BY PassRuns
<1> DEFINE Bad == {k \in 0 .. n : ~SoFar(document, H[k], k)}
<1>3. ASSUME Bad # {} PROVE FALSE
  <2>1. Bad \subseteq Nat
    BY <1>1
  <2>2. PICK k \in Bad : \A j \in Bad : k <= j
    <3> HIDE DEF Bad
    <3> QED BY <1>3, <2>1, LeastNumber
  <2>3. k \in 0 .. n /\ ~SoFar(document, H[k], k)
    BY <2>2
  <2>4. k # 0
    BY <1>2, <2>3, StartSoFar
  <2>5. k \in 1 .. n /\ k - 1 \in 0 .. n /\ ~(k <= k - 1)
    BY <1>1, <2>3, <2>4
  <2>6. SoFar(document, H[k - 1], k - 1) /\ H[k - 1] \in Pass
    BY <1>2, <2>2, <2>5
  <2>7. H[k] = Round(document, H[k - 1], k)
    BY <1>2, <2>5
  <2> HIDE DEF Bad
  <2>8. CASE document[k].level = 0
    BY <2>3, <2>5, <2>6, <2>7, <2>8, TextSoFar DEF Round
  <2>9. CASE document[k].level # 0
    BY <2>3, <2>5, <2>6, <2>7, <2>9, HeaderSoFar DEF Round
  <2> QED BY <2>8, <2>9
<1>4. n \in 0 .. n /\ n + 1 - 1 = n /\ n + 1 \in 1 .. n + 1 /\ ~(n + 1 <= n)
  BY <1>1
<1>5. SoFar(document, H[n], n) /\ H[n] \in Pass
  BY <1>2, <1>3, <1>4
<1> DEFINE i == n + 1
<1>6. i \in 1 .. Len(document) + 1 /\ ~(i <= Len(document)) /\ SoFar(document, H[n], i - 1)
  BY <1>4, <1>5
<1> HIDE DEF i
<1>7. Done(document, Flushed(H[n]), i)
  BY <1>5, <1>6, FlushedAtHeader
<1> QED BY <1>2, <1>7 DEF i

LEMMA ChunksAreCut ==
  ASSUME NEW document \in Seq(Line)
  PROVE  CutAtHeaders(document, Chunks(document))
<1> DEFINE sections == Sections(document)
           pieces == Chunks(document)
           end == Len(document) + 1
           wanted == {i \in DOMAIN document : /\ document[i].level \in {2, 3}
                                              /\ BodyUnder(document, i) # <<>>}
<1>1. /\ DOMAIN pieces = 1 .. Len(sections) /\ DOMAIN sections = 1 .. Len(sections)
      /\ \A n \in DOMAIN pieces :
           /\ pieces[n].header = sections[n].header
           /\ pieces[n].parent = sections[n].parent
           /\ pieces[n].level = sections[n].level
           /\ pieces[n].content = Body(sections[n].lines)
  BY ChunksAreSections
<1>2. Done(document, sections, end)
  BY SectionsAreDone
<1>3. wanted = Closed(document, end)
  <2>1. ASSUME NEW j \in 1 .. Len(document) PROVE NextHeader(document, j) <= end
    <3>1. NextHeader(document, j) \in j + 1 .. Len(document) + 1
      BY NextHeaderIsNext DEF IsNext
    <3> QED BY <3>1, LineFacts
  <2> QED BY <2>1, LineFacts DEF Closed
<1> HIDE DEF sections, pieces, end, wanted
<1>4. /\ \A n \in DOMAIN sections :
           /\ sections[n].header \in wanted
           /\ SectionAt(document, sections[n], sections[n].header)
           /\ n > 1 => sections[n].header > sections[n - 1].header
      /\ \A j \in wanted : \E n \in DOMAIN sections : sections[n].header = j
  BY <1>2, <1>3 DEF Done
<1>5. {pieces[n].header : n \in DOMAIN pieces} = wanted
  BY <1>1, <1>4
<1>6. ASSUME NEW n \in DOMAIN pieces
      PROVE  LET i == pieces[n].header IN
             /\ n > 1 => i > pieces[n - 1].header
             /\ pieces[n].level = document[i].level
             /\ pieces[n].content = BodyUnder(document, i)
             /\ pieces[n].parent = ParentOf(document, i)
  <2>1. n > 1 => n - 1 \in DOMAIN pieces
    BY <1>1
  <2> QED BY <1>1, <1>4, <2>1 DEF SectionAt
<1> QED BY <1>5, <1>6 DEF CutAtHeaders, pieces, wanted

-----------------------------------------------------------------------------
(* Arranged puts a finite set of places in order. *)

StrictOrder(R, P) ==
  /\ \A i \in P : <<i, i>> \notin R
  /\ \A i, j \in P : i # j => <<i, j>> \in R \/ <<j, i>> \in R
  /\ \A i, j, k \in P : <<i, j>> \in R /\ <<j, k>> \in R => <<i, k>> \in R

\* f lists P as R has it.
Lists(f, P, R) ==
  /\ f \in [1 .. Cardinality(P) -> P]
  /\ \A i \in P : \E k \in 1 .. Cardinality(P) : f[k] = i
  /\ \A k, l \in 1 .. Cardinality(P) : <<f[k], f[l]>> \in R <=> k < l

LEMMA ArrangedLists ==
  ASSUME NEW list, NEW P, IsFiniteSet(P), NEW R, StrictOrder(R, P)
  PROVE  \E f : /\ Lists(f, P, R)
                /\ Arranged(list, P, R) = [k \in 1 .. Cardinality(P) |-> list[f[k]]]
<1> DEFINE Below(i) == {j \in P : <<j, i>> \in R}
           Rank(i) == Cardinality(Below(i))
           n == Cardinality(P)
<1>1. n \in Nat
  BY FS_CardinalityType
<1>2. ASSUME NEW i \in P PROVE Rank(i) \in 0 .. n - 1
  <2>1. Below(i) \subseteq P \ {i}
    BY DEF StrictOrder
  <2>2. IsFiniteSet(P \ {i}) /\ Cardinality(P \ {i}) = n - 1
    BY FS_RemoveElement
  <2> HIDE DEF Below, n
  <2>3. IsFiniteSet(Below(i)) /\ Cardinality(Below(i)) <= n - 1
    BY <2>1, <2>2, FS_Subset
  <2>4. Cardinality(Below(i)) \in Nat
    BY <2>3, FS_CardinalityType
  <2> QED BY <1>1, <2>3, <2>4
<1>3. ASSUME NEW i \in P, NEW j \in P, <<i, j>> \in R PROVE Rank(i) < Rank(j)
  <2>1. Below(i) \subseteq Below(j) /\ i \in Below(j) /\ i \notin Below(i)
    BY <1>3 DEF StrictOrder
  <2>2. Below(j) \subseteq P
    OBVIOUS
  <2>3. Rank(i) \in Nat /\ Rank(j) \in Nat
    BY <1>2, <1>1
  <2> HIDE DEF Below
  <2>4. IsFiniteSet(Below(j))
    BY <2>2, FS_Subset
  <2>5. /\ Cardinality(Below(i)) <= Cardinality(Below(j))
        /\ Cardinality(Below(j)) = Cardinality(Below(i)) => Below(j) = Below(i)
    BY <2>1, <2>4, FS_Subset
  <2> QED BY <2>1, <2>3, <2>5
<1>4. \A i, j \in P : i # j => Rank(i) # Rank(j)
  <2> HIDE DEF Rank
  <2> SUFFICES ASSUME NEW i \in P, NEW j \in P, i # j PROVE Rank(i) # Rank(j)
    OBVIOUS
  <2>1. Rank(i) \in Int /\ Rank(j) \in Int
    BY <1>1, <1>2
  <2>2. <<i, j>> \in R \/ <<j, i>> \in R
    BY DEF StrictOrder
  <2>3. <<i, j>> \in R => Rank(i) < Rank(j)
    BY <1>3
  <2>4. <<j, i>> \in R => Rank(j) < Rank(i)
    BY <1>3
  <2> QED BY <2>1, <2>2, <2>3, <2>4
<1> HIDE DEF Rank, n
<1>5. ASSUME NEW k \in 1 .. n PROVE \E i \in P : Rank(i) = k - 1
  <2> SUFFICES ASSUME \A i \in P : Rank(i) # k - 1 PROVE FALSE
    OBVIOUS
  <2> DEFINE T == (0 .. n - 1) \ {k - 1}
             g == [i \in P |-> Rank(i)]
  <2>1. IsFiniteSet(0 .. n - 1) /\ Cardinality(0 .. n - 1) = n
    BY <1>1, <1>5, FS_Interval
  <2>2. k - 1 \in 0 .. n - 1
    BY <1>1, <1>5
  <2>3. IsFiniteSet(T) /\ Cardinality(T) = n - 1
    BY <2>1, <2>2, FS_RemoveElement
  <2>4. g \in [P -> T]
    BY <1>2
  <2>5. Cardinality(T) < Cardinality(P)
    BY <1>1, <2>3 DEF n
  <2> HIDE DEF T, g
  <2>6. PICK i, j \in P : i # j /\ g[i] = g[j]
    BY <2>3, <2>4, <2>5, FS_PigeonHole
  <2> QED BY <1>4, <2>6 DEF g
<1> DEFINE f == [k \in 1 .. n |-> CHOOSE i \in P : Rank(i) = k - 1]
<1>6. \A k \in 1 .. n : f[k] \in P /\ Rank(f[k]) = k - 1
  BY <1>5
<1>7. ASSUME NEW i \in P PROVE \E k \in 1 .. n : f[k] = i
  <2>1. PICK k \in 1 .. n : k - 1 = Rank(i)
    BY <1>1, <1>2
  <2> HIDE DEF f
  <2>2. f[k] \in P /\ Rank(f[k]) = Rank(i)
    BY <1>6, <2>1
  <2> QED BY <1>4, <2>2
<1>8. ASSUME NEW k \in 1 .. n, NEW l \in 1 .. n
      PROVE  <<f[k], f[l]>> \in R <=> k < l
  <2> HIDE DEF f
  <2>1. /\ f[k] \in P /\ f[l] \in P /\ Rank(f[k]) = k - 1 /\ Rank(f[l]) = l - 1
        /\ k \in Int /\ l \in Int
    BY <1>6
  <2>2. CASE <<f[k], f[l]>> \in R
    BY <1>3, <2>1, <2>2
  <2>3. CASE <<f[l], f[k]>> \in R
    BY <1>3, <2>1, <2>3, <2>2
  <2>4. CASE f[k] = f[l]
    BY <2>1, <2>4 DEF StrictOrder
  <2> QED BY <2>1, <2>2, <2>3, <2>4 DEF StrictOrder
<1>9. f \in [1 .. n -> P]
  BY <1>6
<1>10. Lists(f, P, R)
  BY <1>7, <1>8, <1>9 DEF Lists, n
<1>11. Arranged(list, P, R) = [k \in 1 .. n |-> list[f[k]]]
  BY DEF Arranged, Rank, n
<1> QED BY <1>10, <1>11 DEF n

-----------------------------------------------------------------------------
(* Lists of chunk numbers: none occurs twice. *)

IsList(s) == s \in Seq(Nat) /\ IsInjective(s)

\* x stands before y.
Ahead(s, x, y) == \E i, j \in DOMAIN s : i < j /\ s[i] = x /\ s[j] = y

LEMMA ListFacts ==
  ASSUME NEW s, IsList(s)
  PROVE  /\ Len(s) \in Nat /\ DOMAIN s = 1 .. Len(s) /\ IsFiniteSet(DOMAIN s)
         /\ \A i \in DOMAIN s : s[i] \in Nat /\ i \in Int
         /\ \A i, j \in DOMAIN s : s[i] = s[j] => i = j
<1>1. Len(s) \in Nat /\ DOMAIN s = 1 .. Len(s) /\ \A i \in DOMAIN s : s[i] \in Nat
  BY DEF IsList
<1>2. \A i, j \in DOMAIN s : s[i] = s[j] => i = j
  BY DEF IsList, IsInjective
<1> QED BY <1>1, <1>2, FS_Interval

\* What Arranged makes of a list.
LEMMA ArrangedIsList ==
  ASSUME NEW list, IsList(list), NEW P, P \subseteq DOMAIN list,
         NEW R, StrictOrder(R, P)
  PROVE  LET s == Arranged(list, P, R)
         IN /\ IsList(s)
            /\ ToSet(s) = {list[i] : i \in P}
            /\ \A i, j \in P : <<i, j>> \in R => Ahead(s, list[i], list[j])
<1> DEFINE n == Cardinality(P)
           s == Arranged(list, P, R)
<1>1. /\ IsFiniteSet(P) /\ n \in Nat
      /\ \A i \in P : list[i] \in Nat
      /\ \A i, j \in P : list[i] = list[j] => i = j
  BY ListFacts, FS_Subset, FS_CardinalityType
<1>2. PICK f : Lists(f, P, R) /\ s = [k \in 1 .. n |-> list[f[k]]]
  BY <1>1, ArrangedLists
<1>3. /\ f \in [1 .. n -> P]
      /\ \A i \in P : \E k \in 1 .. n : f[k] = i
      /\ \A k, l \in 1 .. n : <<f[k], f[l]>> \in R <=> k < l
  BY <1>2 DEF Lists
<1>4. /\ DOMAIN s = 1 .. n
      /\ \A k \in 1 .. n : s[k] = list[f[k]] /\ f[k] \in P
  BY <1>2, <1>3
<1>5. s \in Seq(Nat)
  <2>1. s \in [1 .. n -> Nat]
    BY <1>1, <1>2, <1>3
  <2> QED BY <1>1, <2>1, SeqDef
<1> HIDE DEF s, n
<1>6. IsInjective(s)
  <2> SUFFICES ASSUME NEW k \in 1 .. n, NEW l \in 1 .. n, s[k] = s[l] PROVE k = l
    BY <1>4 DEF IsInjective
  <2>1. f[k] = f[l] /\ f[k] \in P
    BY <1>1, <1>4
  <2>2. <<f[k], f[k]>> \notin R
    BY <2>1 DEF StrictOrder
  <2>3. ~(k < l) /\ ~(l < k)
    BY <1>3, <2>1, <2>2
  <2> QED BY <1>1, <2>3
<1>7. ToSet(s) = {list[i] : i \in P}
  BY <1>3, <1>4 DEF ToSet
<1>8. ASSUME NEW i \in P, NEW j \in P, <<i, j>> \in R
      PROVE  Ahead(s, list[i], list[j])
  <2>1. PICK k \in 1 .. n : f[k] = i
    BY <1>3
  <2>2. PICK l \in 1 .. n : f[l] = j
    BY <1>3
  <2>3. k < l /\ s[k] = list[i] /\ s[l] = list[j]
    BY <1>3, <1>4, <1>8, <2>1, <2>2
  <2> QED BY <1>4, <2>3 DEF Ahead
<1> QED BY <1>5, <1>6, <1>7, <1>8 DEF IsList, s

LEMMA KeptIsList ==
  ASSUME NEW list, IsList(list), NEW keep
  PROVE  LET s == Kept(list, keep)
         IN /\ IsList(s)
            /\ ToSet(s) = ToSet(list) \cap keep
            /\ \A x, y \in keep : Ahead(list, x, y) => Ahead(s, x, y)
<1> DEFINE P == {i \in DOMAIN list : list[i] \in keep}
           R == {p \in P \X P : p[1] < p[2]}
<1>1. \A i, j \in P : (<<i, j>> \in R <=> i < j) /\ i \in Int /\ j \in Int
  BY ListFacts
<1>2. P \subseteq DOMAIN list /\ Kept(list, keep) = Arranged(list, P, R)
  BY DEF Kept
<1>3. {list[i] : i \in P} = ToSet(list) \cap keep
  BY DEF ToSet
<1>4. \A x, y \in keep : Ahead(list, x, y) =>
        \E i, j \in P : i < j /\ list[i] = x /\ list[j] = y
  BY DEF Ahead
<1> HIDE DEF P, R
<1>5. StrictOrder(R, P)
  BY <1>1 DEF StrictOrder
<1>6. /\ IsList(Arranged(list, P, R))
      /\ ToSet(Arranged(list, P, R)) = {list[i] : i \in P}
      /\ \A i, j \in P : <<i, j>> \in R => Ahead(Arranged(list, P, R), list[i], list[j])
  BY <1>2, <1>5, ArrangedIsList
<1>7. \A x, y \in keep : Ahead(list, x, y) => Ahead(Arranged(list, P, R), x, y)
  <2> SUFFICES ASSUME NEW x \in keep, NEW y \in keep, Ahead(list, x, y)
               PROVE  Ahead(Arranged(list, P, R), x, y)
    OBVIOUS
  <2>1. PICK i \in P, j \in P : i < j /\ list[i] = x /\ list[j] = y
    BY <1>4
  <2> QED BY <1>1, <1>6, <2>1
<1> QED BY <1>2, <1>3, <1>6, <1>7

LEMMA ByScoreIsList ==
  ASSUME NEW list, IsList(list), NEW score, \A x \in ToSet(list) : score[x] \in Nat
  PROVE  LET s == ByScore(list, score)
         IN /\ IsList(s)
            /\ ToSet(s) = ToSet(list)
            /\ \A x, y \in ToSet(list) :
                 score[x] > score[y] \/ (score[x] = score[y] /\ Ahead(list, x, y))
                   => Ahead(s, x, y)
<1> DEFINE P == DOMAIN list
           Before(i, j) == \/ score[list[i]] > score[list[j]]
                           \/ score[list[i]] = score[list[j]] /\ i < j
           R == {p \in P \X P : Before(p[1], p[2])}
           g == [i \in P |-> score[list[i]]]
           s == Arranged(list, P, R)
<1>1. \A i \in P : g[i] \in Nat /\ i \in Int /\ g[i] = score[list[i]]
  BY ListFacts DEF ToSet
<1>2. \A i, j \in P : <<i, j>> \in R <=> (g[i] > g[j] \/ (g[i] = g[j] /\ i < j))
  BY <1>1
<1>3. ByScore(list, score) = s
  BY DEF ByScore
<1>4. {list[i] : i \in P} = ToSet(list)
  BY DEF ToSet
<1> HIDE DEF R, g, s
<1>5. StrictOrder(R, P)
  BY <1>1, <1>2 DEF StrictOrder
<1>6. /\ IsList(s) /\ ToSet(s) = {list[i] : i \in P}
      /\ \A i, j \in P : <<i, j>> \in R => Ahead(s, list[i], list[j])
  BY <1>5, ArrangedIsList DEF s
<1>7. ASSUME NEW x \in ToSet(list), NEW y \in ToSet(list),
             score[x] > score[y] \/ (score[x] = score[y] /\ Ahead(list, x, y))
      PROVE  Ahead(s, x, y)
  <2>1. CASE score[x] > score[y]
    <3>1. PICK i \in P : list[i] = x
      BY <1>4
    <3>2. PICK j \in P : list[j] = y
      BY <1>4
    <3>3. <<i, j>> \in R
      BY <1>1, <1>2, <2>1, <3>1, <3>2
    <3> QED BY <1>6, <3>1, <3>2, <3>3
  <2>2. CASE score[x] = score[y] /\ Ahead(list, x, y)
    <3>1. PICK i \in P, j \in P : i < j /\ list[i] = x /\ list[j] = y
      BY <2>2 DEF Ahead
    <3>2. <<i, j>> \in R
      BY <1>1, <1>2, <2>2, <3>1
    <3> QED BY <1>6, <3>1, <3>2
  <2> QED BY <1>7, <2>1, <2>2
<1> QED BY <1>3, <1>4, <1>6, <1>7

LEMMA TopIsList ==
  ASSUME NEW list, IsList(list), NEW k \in Nat
  PROVE  LET s == Top(list, k)
         IN /\ IsList(s) /\ Len(s) <= k
            /\ ToSet(s) \subseteq ToSet(list)
            /\ \A x, y : Ahead(list, x, y) /\ y \in ToSet(s) => Ahead(s, x, y)
<1> DEFINE n == Lowest(k, Len(list))
           s == Top(list, k)
<1>1. /\ Len(list) \in Nat /\ DOMAIN list = 1 .. Len(list) /\ list \in Seq(Nat)
      /\ \A i \in DOMAIN list : list[i] \in Nat /\ i \in Int
      /\ \A i, j \in DOMAIN list : list[i] = list[j] => i = j
  BY ListFacts DEF IsList
<1>2. n \in Nat /\ n <= k /\ n <= Len(list) /\ s = SubSeq(list, 1, n)
  BY <1>1 DEF Lowest, Top
<1> HIDE DEF n, s
<1>3. /\ s \in Seq(Nat) /\ Len(s) = n /\ DOMAIN s = 1 .. n
      /\ \A i \in 1 .. n : s[i] = list[i] /\ i \in DOMAIN list
  <2>1. \A i \in 1 .. n : i \in 1 .. Len(list)
    BY <1>1, <1>2
  <2>2. s = [i \in 1 .. n |-> list[i]]
    BY <1>1, <1>2
  <2>3. s \in [1 .. n -> Nat]
    BY <1>1, <2>1, <2>2
  <2>4. s \in Seq(Nat)
    BY <1>2, <2>3, SeqDef
  <2>5. DOMAIN s = 1 .. n
    BY <2>2
  <2>6. Len(s) = n
    BY <1>2, <2>4, <2>5
  <2> QED BY <1>1, <2>1, <2>2, <2>4, <2>5, <2>6
<1>4. IsList(s)
  BY <1>1, <1>3 DEF IsList, IsInjective
<1>5. ToSet(s) \subseteq ToSet(list)
  BY <1>3 DEF ToSet
<1>6. ASSUME NEW x, NEW y, Ahead(list, x, y), y \in ToSet(s)
      PROVE  Ahead(s, x, y)
  <2>1. PICK i \in DOMAIN list, j \in DOMAIN list : i < j /\ list[i] = x /\ list[j] = y
    BY <1>6 DEF Ahead
  <2>2. PICK l \in 1 .. n : s[l] = y
    BY <1>3, <1>6 DEF ToSet
  <2>3. l = j
    BY <1>1, <1>3, <2>1, <2>2
  <2>4. i \in 1 .. n /\ j \in 1 .. n
    BY <1>1, <1>2, <2>1, <2>3
  <2> QED BY <1>3, <2>1, <2>4 DEF Ahead
<1> QED BY <1>2, <1>3, <1>4, <1>5, <1>6 DEF s

LEMMA JoinedIsList ==
  ASSUME NEW s, IsList(s), NEW t, IsList(t), ToSet(s) \cap ToSet(t) = {}
  PROVE  /\ IsList(s \o t)
         /\ ToSet(s \o t) = ToSet(s) \cup ToSet(t)
         /\ \A x, y : Ahead(s, x, y) \/ Ahead(t, x, y) => Ahead(s \o t, x, y)
         /\ \A x \in ToSet(s), y \in ToSet(t) : Ahead(s \o t, x, y)
<1> DEFINE u == s \o t
           m == Len(s)
           n == Len(t)
<1>1. /\ m \in Nat /\ DOMAIN s = 1 .. m /\ s \in Seq(Nat)
      /\ \A i \in DOMAIN s : s[i] \in Nat /\ i \in Int
      /\ \A i, j \in DOMAIN s : s[i] = s[j] => i = j
  BY ListFacts DEF IsList
<1>2. /\ n \in Nat /\ DOMAIN t = 1 .. n /\ t \in Seq(Nat)
      /\ \A i \in DOMAIN t : t[i] \in Nat /\ i \in Int
      /\ \A i, j \in DOMAIN t : t[i] = t[j] => i = j
  BY ListFacts DEF IsList
<1>3. /\ u \in Seq(Nat) /\ DOMAIN u = 1 .. m + n
      /\ \A i \in 1 .. m : u[i] = s[i]
      /\ \A i \in 1 .. n : u[m + i] = t[i]
  BY <1>1, <1>2
<1> HIDE DEF u, m, n
<1>4. \A i \in DOMAIN u : \/ i \in DOMAIN s /\ u[i] = s[i]
                          \/ \E j \in DOMAIN t : i = m + j /\ u[i] = t[j]
  <2> SUFFICES ASSUME NEW i \in DOMAIN u, i \notin DOMAIN s
               PROVE  \E j \in DOMAIN t : i = m + j /\ u[i] = t[j]
    BY <1>1, <1>3
  <2>1. i - m \in 1 .. n /\ i = m + (i - m)
    BY <1>1, <1>2, <1>3
  <2> QED BY <1>2, <1>3, <2>1
<1>5. \A i \in DOMAIN s : i \in DOMAIN u /\ u[i] = s[i]
  BY <1>1, <1>2, <1>3
<1>6. \A j \in DOMAIN t : m + j \in DOMAIN u /\ u[m + j] = t[j]
  BY <1>1, <1>2, <1>3
<1>7. ToSet(u) = ToSet(s) \cup ToSet(t)
  BY <1>4, <1>5, <1>6 DEF ToSet
<1>8. IsInjective(u)
  <2> SUFFICES ASSUME NEW i \in DOMAIN u, NEW j \in DOMAIN u, u[i] = u[j] PROVE i = j
    BY DEF IsInjective
  <2>1. \A k \in DOMAIN s, l \in DOMAIN t : s[k] # t[l]
    BY DEF ToSet
  <2>2. CASE i \in DOMAIN s /\ u[i] = s[i]
    BY <1>1, <1>4, <2>1, <2>2
  <2>3. CASE \E k \in DOMAIN t : i = m + k /\ u[i] = t[k]
    BY <1>2, <1>4, <2>1, <2>3
  <2> QED BY <1>4, <2>2, <2>3
<1>9. \A x, y : Ahead(s, x, y) => Ahead(u, x, y)
  BY <1>5 DEF Ahead
<1>10. \A x, y : Ahead(t, x, y) => Ahead(u, x, y)
  <2> SUFFICES ASSUME NEW x, NEW y, Ahead(t, x, y) PROVE Ahead(u, x, y)
    OBVIOUS
  <2>1. PICK i \in DOMAIN t, j \in DOMAIN t : i < j /\ t[i] = x /\ t[j] = y
    BY DEF Ahead
  <2>2. m + i < m + j
    BY <1>1, <1>2, <2>1
  <2> QED BY <1>6, <2>1, <2>2 DEF Ahead
<1>11. \A x \in ToSet(s), y \in ToSet(t) : Ahead(u, x, y)
  <2> SUFFICES ASSUME NEW i \in DOMAIN s, NEW j \in DOMAIN t PROVE Ahead(u, s[i], t[j])
    BY DEF ToSet
  <2>1. i < m + j
    BY <1>1, <1>2
  <2> QED BY <1>5, <1>6, <2>1 DEF Ahead
<1>12. IsList(u)
  BY <1>3, <1>8 DEF IsList
<1> QED BY <1>7, <1>9, <1>10, <1>11, <1>12 DEF u

-----------------------------------------------------------------------------
(* The vector index and the searches. *)

Typed ==
  /\ created \in Nat
  /\ collection \in [id : Nat, filled : BOOLEAN]
  /\ handle \in [Requests -> Nat]
  /\ global \in Requests \cup {None}
  /\ pc \in [Requests -> Steps \cup Ends]
  /\ store \in [Requests -> Requests \cup {None}]
  /\ made \in [Requests -> Nat]
  /\ calm \in [Requests -> BOOLEAN] /\ raced \in BOOLEAN

\* A request in one of these has a store of the server.
Served == {"count", "rank", "fetch", "search", "query"} \cup Rebuilding

FilledExists == collection.filled => collection.id # 0

NobodyBeside == ~raced => \A r \in Requests : pc[r] \in Opening \cup Rebuilding =>
  /\ ~IsIndexer(r)
  /\ \A q \in Requests \ {r} : pc[q] \notin Opening \cup Rebuilding

ServerOpen ==
  \A r \in Requests : ~IsIndexer(r) /\ pc[r] \in Served => global # None

OpensFirst ==
  ~raced => \A r \in Requests : pc[r] \in Opening => global = None

OneStore ==
  ~raced => \A r \in Requests : ~IsIndexer(r) /\ pc[r] \in Served => store[r] = global

Between == \E r \in Requests : pc[r] \in {"create", "assign"}

Current ==
  ~raced =>
    /\ global # None /\ ~Between => handle[global] = collection.id /\ collection.id # 0
    /\ \A r \in Requests :
         /\ pc[r] = "assign" => made[r] = collection.id /\ collection.id # 0
         /\ pc[r] = "publish" => handle[r] = collection.id /\ collection.id # 0

Calm ==
  \A r \in Requests : calm[r] /\ pc[r] \notin Ends \cup {"idle"} =>
    ~raced /\ \A q \in Requests \ {r} : pc[q] \notin Rebuilding

Seen ==
  \A r \in Requests :
    ~IsIndexer(r) /\ chunks # <<>> /\ calm[r] /\ pc[r] \in {"fetch", "search", "query"}
      => collection.filled

\* A store that somebody works with has been opened; the indexer does not search.
Built ==
  /\ global # None => handle[global] # 0
  /\ \A r \in Requests :
       /\ pc[r] = "publish" => handle[r] # 0
       /\ pc[r] = "assign" => made[r] # 0
       /\ pc[r] \in Served => store[r] # None /\ handle[store[r]] # 0
       /\ IsIndexer(r) => pc[r] \notin {"publish", "refetch"} \cup (Served \ Rebuilding)

Inv == /\ Typed /\ FilledExists /\ Built /\ NobodyBeside /\ ServerOpen /\ OpensFirst
       /\ OneStore /\ Current /\ Calm /\ Seen /\ UndisturbedSearchesAnswer

-----------------------------------------------------------------------------
\* A collection is created without chunks.
LEMMA EmptyCollection ==
  \A n \in Nat : [id |-> n, filled |-> FALSE] \in [id : Nat, filled : BOOLEAN]
  OBVIOUS

(* What every step of a request does to its place and to the history.      *)

Moved(r) ==
  /\ pc[r] \notin Ends
  /\ \E s \in (Steps \cup Ends) \ {"idle"} : pc' = [pc EXCEPT ![r] = s]
  /\ given' = given /\ chunks' = chunks /\ restarts' = restarts

HistoryMoved(r) ==
  /\ pc' \in [Requests -> Steps \cup Ends] /\ pc'[r] # "idle"
  /\ calm' \in [Requests -> BOOLEAN] /\ raced' \in BOOLEAN
  /\ \A q \in Requests \ {r} : pc'[q] = pc[q]
  /\ \A q \in Requests : IsIndexer(q)' <=> IsIndexer(q)
  /\ chunks' = chunks
  /\ ~raced' => ~raced
  /\ \A q \in Requests : calm'[q] => calm[q]
  /\ NobodyBeside' /\ Calm'

\* The store of a server that is not raced for is good where nobody rebuilds it.
LEMMA LiveStore ==
  ASSUME Inv, NEW r \in Requests, calm[r], ~IsIndexer(r),
         pc[r] \in Served \ {"create", "assign"}
  PROVE  ~Dead(r) /\ collection.id # 0
<1>1. ~raced /\ \A q \in Requests \ {r} : pc[q] \notin Rebuilding
  BY DEF Inv, Calm, Served, Rebuilding, Ends
<1>2. ~Between
  BY <1>1 DEF Between, Rebuilding
<1>3. global # None /\ store[r] = global
  BY <1>1 DEF Inv, ServerOpen, OneStore, Served
<1>. QED BY <1>1, <1>2, <1>3 DEF Inv, Current, Dead, Handle

\* Whoever moves, the histories only grow, and say who was beside whom.
LEMMA HistoryStep ==
  ASSUME Inv, NEW r \in Requests, Moved(r), Observe
  PROVE  HistoryMoved(r)
<1>1. PICK s \in (Steps \cup Ends) \ {"idle"} : pc' = [pc EXCEPT ![r] = s]
  BY DEF Moved
<1>2. /\ pc' \in [Requests -> Steps \cup Ends] /\ pc'[r] = s /\ s # "idle"
      /\ \A q \in Requests \ {r} : pc'[q] = pc[q]
  BY <1>1 DEF Inv, Typed
<1>3. given' = given /\ chunks' = chunks /\ restarts' = restarts /\ pc[r] \notin Ends
  BY DEF Moved
<1>4. \A q \in Requests : IsIndexer(q)' <=> IsIndexer(q)
  BY <1>3 DEF IsIndexer, ask
<1>5. raced' \in BOOLEAN /\ calm' \in [Requests -> BOOLEAN]
  BY DEF Observe, Inv, Typed
<1>6. ~raced' => ~raced
  BY <1>3 DEF Observe
<1>7. \A q \in Requests : calm'[q] => calm[q]
  BY DEF Observe
<1>8. NobodyBeside'
  BY <1>4 DEF Observe, NobodyBeside, Busy
<1>9. Calm'
  <2>1. SUFFICES ASSUME NEW q \in Requests, calm'[q], pc'[q] \notin Ends \cup {"idle"}
                 PROVE  ~raced' /\ \A p \in Requests \ {q} : pc'[p] \notin Rebuilding
    BY DEF Calm
  <2>2. pc[q] \notin Ends
    BY <1>2, <1>3, <2>1
  <2>. QED BY <2>1, <2>2 DEF Observe
<1>. QED BY <1>2, <1>3, <1>4, <1>5, <1>6, <1>7, <1>8, <1>9 DEF HistoryMoved

\* A search finds the store or sets out to build one; nothing shared changes.
LEMMA GetStoreKeeps ==
  ASSUME Inv, NEW r \in Requests, GetStore(r), Observe
  PROVE  Inv'
<1>1. Moved(r)
  BY DEF Moved, GetStore, Goto, database, stores, Steps, Ends, Opening, Rebuilding,
       Inv, Typed
<1>2. HistoryMoved(r)
  BY <1>1, HistoryStep
<1>3. Typed'
  BY <1>2 DEF HistoryMoved, Typed, Inv, GetStore, Goto, database, stores, Steps,
       Ends, Opening, Rebuilding
<1>4. FilledExists'
  BY <1>3 DEF FilledExists, Typed, Inv, GetStore, Goto, Raise, Answer, database, stores
<1>5. Built'
  BY <1>2, NoneIsNoRequest DEF HistoryMoved, Built, ServerOpen, Typed, Inv,
       GetStore, Goto, database, stores, Steps, Ends, Opening, Rebuilding, Served
<1>6. ServerOpen'
  BY <1>2, NoneIsNoRequest DEF HistoryMoved, ServerOpen, Inv, Typed, GetStore, Goto,
       database, stores, Steps, Ends, Opening, Rebuilding, Served
<1>7. OpensFirst'
  BY <1>2 DEF HistoryMoved, OpensFirst, NobodyBeside, Inv, Typed, GetStore, Goto,
       database, stores, Steps, Ends, Opening, Rebuilding
<1>8. OneStore'
  BY <1>2 DEF HistoryMoved, OneStore, OpensFirst, NobodyBeside, ServerOpen, Inv,
       Typed, GetStore, Goto, database, stores, Steps, Ends, Opening, Rebuilding,
       Served
<1>9. Current'
  BY <1>2, NoneIsNoRequest DEF HistoryMoved, Current, Between, OneStore, OpensFirst,
       NobodyBeside, ServerOpen, Inv, Typed, GetStore, Goto, database, stores,
       Steps, Ends, Opening, Rebuilding, Served
<1>10. Seen'
  BY <1>2, NoneIsNoRequest DEF HistoryMoved, Seen, Calm, FilledExists, Inv, Typed,
       GetStore, Goto, database, stores, Steps, Ends, Opening, Rebuilding
<1>11. UndisturbedSearchesAnswer'
  BY <1>2, LiveStore DEF HistoryMoved, UndisturbedSearchesAnswer, Calm, Seen, Inv,
       Typed, GetStore, Goto, database, stores, Steps, Ends, Opening, Rebuilding,
       Served
<1>. QED BY <1>2, <1>3, <1>4, <1>5, <1>6, <1>7, <1>8, <1>9, <1>10, <1>11 DEF Inv,
     HistoryMoved

\* Not raced for, the index is opened by one who finds no store: the new handle
\* is the collection that is there.
LEMMA OpenKeeps ==
  ASSUME Inv, NEW r \in Requests, Open(r), Observe
  PROVE  Inv'
<1>1. Moved(r)
  BY DEF Moved, Open, Goto, database, GetOrCreate, Steps, Ends, Opening, Rebuilding,
       Inv, Typed
<1>2. HistoryMoved(r)
  BY <1>1, HistoryStep
<1>3. Typed'
  <2>1. PICK id \in 1 .. created + 1 :
                  GetOrCreate(id) /\ handle' = [handle EXCEPT ![r] = id]
    BY DEF Open
  <2>2. id \in Nat /\ created \in Nat /\ collection \in [id : Nat, filled : BOOLEAN]
    BY DEF Inv, Typed
  <2>3. created' \in Nat /\ collection' \in [id : Nat, filled : BOOLEAN]
    BY <2>1, <2>2, EmptyCollection DEF GetOrCreate, database
  <2>. QED BY <1>2, <2>1, <2>2, <2>3 DEF HistoryMoved, Typed, Inv, Open, Goto, stores
<1>4. FilledExists'
  BY <1>3 DEF FilledExists, Typed, Inv, Open, Goto, database, GetOrCreate
<1>5. Built'
  BY <1>2, NoneIsNoRequest DEF HistoryMoved, Built, ServerOpen, Typed, Inv, Open,
       Goto, database, GetOrCreate, Steps, Ends, Opening, Rebuilding, Served
<1>6. ServerOpen'
  BY <1>2, NoneIsNoRequest DEF HistoryMoved, ServerOpen, Inv, Typed, Open, Goto,
       database, GetOrCreate, Steps, Ends, Opening, Rebuilding, Served
<1>7. OpensFirst'
  BY <1>2 DEF HistoryMoved, OpensFirst, NobodyBeside, Inv, Typed, Open, Goto,
       database, GetOrCreate, Steps, Ends, Opening, Rebuilding
<1>8. OneStore'
  BY <1>2 DEF HistoryMoved, OneStore, OpensFirst, NobodyBeside, ServerOpen, Inv,
       Typed, Open, Goto, database, GetOrCreate, Steps, Ends, Opening, Rebuilding,
       Served
<1>9. Current'
  BY <1>2, NoneIsNoRequest DEF HistoryMoved, Current, Between, OneStore, OpensFirst,
       NobodyBeside, ServerOpen, Inv, Typed, Open, Goto, database, GetOrCreate,
       Steps, Ends, Opening, Rebuilding, Served
<1>10. Seen'
  BY <1>2, NoneIsNoRequest DEF HistoryMoved, Seen, Calm, FilledExists, Inv, Typed,
       Open, Goto, database, GetOrCreate, Steps, Ends, Opening, Rebuilding
<1>11. UndisturbedSearchesAnswer'
  BY <1>2, LiveStore DEF HistoryMoved, UndisturbedSearchesAnswer, Calm, Seen, Inv,
       Typed, Open, Goto, database, GetOrCreate, Steps, Ends, Opening, Rebuilding,
       Served
<1>. QED BY <1>2, <1>3, <1>4, <1>5, <1>6, <1>7, <1>8, <1>9, <1>10, <1>11 DEF Inv,
     HistoryMoved

\* The store that is published is the only one in the making, and it is live.
LEMMA PublishKeeps ==
  ASSUME Inv, NEW r \in Requests, Publish(r), Observe
  PROVE  Inv'
<1>1. Moved(r)
  BY DEF Moved, Publish, Goto, database, Steps, Ends, Opening, Rebuilding, Inv,
       Typed
<1>2. HistoryMoved(r)
  BY <1>1, HistoryStep
<1>3. Typed'
  BY <1>2 DEF HistoryMoved, Typed, Inv, Publish, Goto, database, Steps, Ends,
       Opening, Rebuilding
<1>4. FilledExists'
  BY <1>3 DEF FilledExists, Typed, Inv, Publish, Goto, Raise, Answer, database, stores
<1>5. Built'
  BY <1>2, NoneIsNoRequest DEF HistoryMoved, Built, ServerOpen, Typed, Inv, Publish,
       Goto, database, Steps, Ends, Opening, Rebuilding, Served
<1>6. ServerOpen'
  BY <1>2, NoneIsNoRequest DEF HistoryMoved, ServerOpen, Inv, Typed, Publish, Goto,
       database, Steps, Ends, Opening, Rebuilding, Served
<1>7. OpensFirst'
  BY <1>2 DEF HistoryMoved, OpensFirst, NobodyBeside, Inv, Typed, Publish, Goto,
       database, Steps, Ends, Opening, Rebuilding
<1>8. OneStore'
  BY <1>2 DEF HistoryMoved, OneStore, OpensFirst, NobodyBeside, ServerOpen, Inv,
       Typed, Publish, Goto, database, Steps, Ends, Opening, Rebuilding, Served
<1>9. Current'
  BY <1>2, NoneIsNoRequest DEF HistoryMoved, Current, Between, OneStore, OpensFirst,
       NobodyBeside, ServerOpen, Inv, Typed, Publish, Goto, database, Steps, Ends,
       Opening, Rebuilding, Served
<1>10. Seen'
  BY <1>2, NoneIsNoRequest DEF HistoryMoved, Seen, Calm, FilledExists, Inv, Typed,
       Publish, Goto, database, Steps, Ends, Opening, Rebuilding
<1>11. UndisturbedSearchesAnswer'
  BY <1>2, LiveStore DEF HistoryMoved, UndisturbedSearchesAnswer, Calm, Seen, Inv,
       Typed, Publish, Goto, database, Steps, Ends, Opening, Rebuilding, Served
<1>. QED BY <1>2, <1>3, <1>4, <1>5, <1>6, <1>7, <1>8, <1>9, <1>10, <1>11 DEF Inv,
     HistoryMoved

\* The store may only be another one after a race.
LEMMA GetStoreAgainKeeps ==
  ASSUME Inv, NEW r \in Requests, GetStoreAgain(r), Observe
  PROVE  Inv'
<1>1. Moved(r)
  BY DEF Moved, GetStoreAgain, Goto, database, stores, Steps, Ends, Opening,
       Rebuilding, Inv, Typed
<1>2. HistoryMoved(r)
  BY <1>1, HistoryStep
<1>3. Typed'
  BY <1>2 DEF HistoryMoved, Typed, Inv, GetStoreAgain, Goto, database, stores,
       Steps, Ends, Opening, Rebuilding
<1>4. FilledExists'
  BY <1>3 DEF FilledExists, Typed, Inv, GetStoreAgain, Goto, database, stores
<1>5. Built'
  BY <1>2, NoneIsNoRequest DEF HistoryMoved, Built, ServerOpen, Typed, Inv,
       GetStoreAgain, Goto, database, stores, Steps, Ends, Opening, Rebuilding,
       Served
<1>6. ServerOpen'
  BY <1>2, NoneIsNoRequest DEF HistoryMoved, ServerOpen, Inv, Typed, GetStoreAgain,
       Goto, database, stores, Steps, Ends, Opening, Rebuilding, Served
<1>7. OpensFirst'
  BY <1>2 DEF HistoryMoved, OpensFirst, NobodyBeside, Inv, Typed, GetStoreAgain,
       Goto, database, stores, Steps, Ends, Opening, Rebuilding
<1>8. OneStore'
  BY <1>2 DEF HistoryMoved, OneStore, OpensFirst, NobodyBeside, ServerOpen, Inv,
       Typed, GetStoreAgain, Goto, database, stores, Steps, Ends, Opening,
       Rebuilding, Served
<1>9. Current'
  BY <1>2, NoneIsNoRequest DEF HistoryMoved, Current, Between, OneStore, OpensFirst,
       NobodyBeside, ServerOpen, Inv, Typed, GetStoreAgain, Goto, database, stores,
       Steps, Ends, Opening, Rebuilding, Served
<1>10. Seen'
  BY <1>2, NoneIsNoRequest DEF HistoryMoved, Seen, Calm, FilledExists, Inv, Typed,
       GetStoreAgain, Goto, database, stores, Steps, Ends, Opening, Rebuilding
<1>11. UndisturbedSearchesAnswer'
  BY <1>2, LiveStore DEF HistoryMoved, UndisturbedSearchesAnswer, Calm, Seen, Inv,
       Typed, GetStoreAgain, Goto, database, stores, Steps, Ends, Opening,
       Rebuilding, Served
<1>. QED BY <1>2, <1>3, <1>4, <1>5, <1>6, <1>7, <1>8, <1>9, <1>10, <1>11 DEF Inv,
     HistoryMoved

\* A dead handle at the count is the work of a race or of a rebuild beside it.
LEMMA CountKeeps ==
  ASSUME Inv, NEW r \in Requests, Count(r), Observe
  PROVE  Inv'
<1>1. Moved(r)
  BY DEF Moved, Count, Goto, Raise, database, stores, Ranking, Steps, Ends, Opening,
       Rebuilding, Inv, Typed
<1>2. HistoryMoved(r)
  BY <1>1, HistoryStep
<1>3. Typed'
  BY <1>2 DEF HistoryMoved, Typed, Inv, Count, Goto, Raise, database, stores,
       Ranking, Steps, Ends, Opening, Rebuilding
<1>4. FilledExists'
  BY <1>3 DEF FilledExists, Typed, Inv, Count, Goto, Raise, database, stores,
       Ranking
<1>5. Built'
  BY <1>2, NoneIsNoRequest DEF HistoryMoved, Built, ServerOpen, Typed, Inv, Count,
       Goto, Raise, database, stores, Ranking, Steps, Ends, Opening, Rebuilding,
       Served
<1>6. ServerOpen'
  BY <1>2, NoneIsNoRequest DEF HistoryMoved, ServerOpen, Inv, Typed, Count, Goto,
       Raise, database, stores, Ranking, Steps, Ends, Opening, Rebuilding, Served
<1>7. OpensFirst'
  BY <1>2 DEF HistoryMoved, OpensFirst, NobodyBeside, Inv, Typed, Count, Goto,
       Raise, database, stores, Ranking, Steps, Ends, Opening, Rebuilding
<1>8. OneStore'
  BY <1>2 DEF HistoryMoved, OneStore, OpensFirst, NobodyBeside, ServerOpen, Inv,
       Typed, Count, Goto, Raise, database, stores, Ranking, Steps, Ends, Opening,
       Rebuilding, Served
<1>9. Current'
  BY <1>2, NoneIsNoRequest DEF HistoryMoved, Current, Between, OneStore, OpensFirst,
       NobodyBeside, ServerOpen, Inv, Typed, Count, Goto, Raise, database, stores,
       Ranking, Steps, Ends, Opening, Rebuilding, Served
<1>10. Seen'
  BY <1>2, NoneIsNoRequest DEF HistoryMoved, Seen, Calm, FilledExists, Inv, Typed,
       Count, Goto, Raise, database, stores, Ranking, Steps, Ends, Opening,
       Rebuilding
<1>11. UndisturbedSearchesAnswer'
  BY <1>2, LiveStore DEF HistoryMoved, UndisturbedSearchesAnswer, Calm, Seen, Inv,
       Typed, Count, Goto, Raise, database, stores, Ranking, Steps, Ends, Opening,
       Rebuilding, Served
<1>. QED BY <1>2, <1>3, <1>4, <1>5, <1>6, <1>7, <1>8, <1>9, <1>10, <1>11 DEF Inv,
     HistoryMoved

\* A keyword search ranks without the index.
LEMMA KeywordSearchKeeps ==
  ASSUME Inv, NEW r \in Requests, KeywordSearch(r), Observe
  PROVE  Inv'
<1>1. Moved(r)
  BY DEF Moved, KeywordSearch, Goto, Answer, database, stores, Steps, Ends, Opening,
       Rebuilding, Inv, Typed
<1>2. HistoryMoved(r)
  BY <1>1, HistoryStep
<1>3. Typed'
  BY <1>2 DEF HistoryMoved, Typed, Inv, KeywordSearch, Goto, Answer, database,
       stores, Steps, Ends, Opening, Rebuilding
<1>4. FilledExists'
  BY <1>3 DEF FilledExists, Typed, Inv, KeywordSearch, Goto, Answer, database,
       stores
<1>5. Built'
  BY <1>2, NoneIsNoRequest DEF HistoryMoved, Built, ServerOpen, Typed, Inv,
       KeywordSearch, Goto, Answer, database, stores, Steps, Ends, Opening,
       Rebuilding, Served
<1>6. ServerOpen'
  BY <1>2, NoneIsNoRequest DEF HistoryMoved, ServerOpen, Inv, Typed, KeywordSearch,
       Goto, Answer, database, stores, Steps, Ends, Opening, Rebuilding, Served
<1>7. OpensFirst'
  BY <1>2 DEF HistoryMoved, OpensFirst, NobodyBeside, Inv, Typed, KeywordSearch,
       Goto, Answer, database, stores, Steps, Ends, Opening, Rebuilding
<1>8. OneStore'
  BY <1>2 DEF HistoryMoved, OneStore, OpensFirst, NobodyBeside, ServerOpen, Inv,
       Typed, KeywordSearch, Goto, Answer, database, stores, Steps, Ends, Opening,
       Rebuilding, Served
<1>9. Current'
  BY <1>2, NoneIsNoRequest DEF HistoryMoved, Current, Between, OneStore, OpensFirst,
       NobodyBeside, ServerOpen, Inv, Typed, KeywordSearch, Goto, Answer, database,
       stores, Steps, Ends, Opening, Rebuilding, Served
<1>10. Seen'
  BY <1>2, NoneIsNoRequest DEF HistoryMoved, Seen, Calm, FilledExists, Inv, Typed,
       KeywordSearch, Goto, Answer, database, stores, Steps, Ends, Opening,
       Rebuilding
<1>11. UndisturbedSearchesAnswer'
  BY <1>2, LiveStore DEF HistoryMoved, UndisturbedSearchesAnswer, Calm, Seen, Inv,
       Typed, KeywordSearch, Goto, Answer, database, stores, Steps, Ends, Opening,
       Rebuilding, Served
<1>. QED BY <1>2, <1>3, <1>4, <1>5, <1>6, <1>7, <1>8, <1>9, <1>10, <1>11 DEF Inv,
     HistoryMoved

\* An undisturbed search finds the index as full as when it counted it.
LEMMA CountAgainKeeps ==
  ASSUME Inv, NEW r \in Requests, CountAgain(r), Observe
  PROVE  Inv'
<1>1. Moved(r)
  BY DEF Moved, CountAgain, Goto, Raise, Answer, database, stores, Steps, Ends,
       Opening, Rebuilding, Inv, Typed
<1>2. HistoryMoved(r)
  BY <1>1, HistoryStep
<1>3. Typed'
  BY <1>2 DEF HistoryMoved, Typed, Inv, CountAgain, Goto, Raise, Answer, database,
       stores, Steps, Ends, Opening, Rebuilding
<1>4. FilledExists'
  BY <1>3 DEF FilledExists, Typed, Inv, CountAgain, Goto, Raise, Answer, database,
       stores
<1>5. Built'
  BY <1>2, NoneIsNoRequest DEF HistoryMoved, Built, ServerOpen, Typed, Inv,
       CountAgain, Goto, Raise, Answer, database, stores, Steps, Ends, Opening,
       Rebuilding, Served
<1>6. ServerOpen'
  BY <1>2, NoneIsNoRequest DEF HistoryMoved, ServerOpen, Inv, Typed, CountAgain,
       Goto, Raise, Answer, database, stores, Steps, Ends, Opening, Rebuilding,
       Served
<1>7. OpensFirst'
  BY <1>2 DEF HistoryMoved, OpensFirst, NobodyBeside, Inv, Typed, CountAgain, Goto,
       Raise, Answer, database, stores, Steps, Ends, Opening, Rebuilding
<1>8. OneStore'
  BY <1>2 DEF HistoryMoved, OneStore, OpensFirst, NobodyBeside, ServerOpen, Inv,
       Typed, CountAgain, Goto, Raise, Answer, database, stores, Steps, Ends,
       Opening, Rebuilding, Served
<1>9. Current'
  BY <1>2, NoneIsNoRequest DEF HistoryMoved, Current, Between, OneStore, OpensFirst,
       NobodyBeside, ServerOpen, Inv, Typed, CountAgain, Goto, Raise, Answer,
       database, stores, Steps, Ends, Opening, Rebuilding, Served
<1>10. Seen'
  BY <1>2, NoneIsNoRequest DEF HistoryMoved, Seen, Calm, FilledExists, Inv, Typed,
       CountAgain, Goto, Raise, Answer, database, stores, Steps, Ends, Opening,
       Rebuilding
<1>11. UndisturbedSearchesAnswer'
  BY <1>2, LiveStore DEF HistoryMoved, UndisturbedSearchesAnswer, Calm, Seen, Inv,
       Typed, CountAgain, Goto, Raise, Answer, database, stores, Steps, Ends,
       Opening, Rebuilding, Served
<1>. QED BY <1>2, <1>3, <1>4, <1>5, <1>6, <1>7, <1>8, <1>9, <1>10, <1>11 DEF Inv,
     HistoryMoved

\* No chunk goes away between the count and the query of an undisturbed search.
LEMMA QueryKeeps ==
  ASSUME Inv, NEW r \in Requests, Query(r), Observe
  PROVE  Inv'
<1>1. Moved(r)
  BY DEF Moved, Query, Goto, Raise, Answer, database, stores, Steps, Ends, Opening,
       Rebuilding, Inv, Typed
<1>2. HistoryMoved(r)
  BY <1>1, HistoryStep
<1>3. Typed'
  BY <1>2 DEF HistoryMoved, Typed, Inv, Query, Goto, Raise, Answer, database,
       stores, Steps, Ends, Opening, Rebuilding
<1>4. FilledExists'
  BY <1>3 DEF FilledExists, Typed, Inv, Query, Goto, Raise, Answer, database, stores
<1>5. Built'
  BY <1>2, NoneIsNoRequest DEF HistoryMoved, Built, ServerOpen, Typed, Inv, Query,
       Goto, Raise, Answer, database, stores, Steps, Ends, Opening, Rebuilding,
       Served
<1>6. ServerOpen'
  BY <1>2, NoneIsNoRequest DEF HistoryMoved, ServerOpen, Inv, Typed, Query, Goto,
       Raise, Answer, database, stores, Steps, Ends, Opening, Rebuilding, Served
<1>7. OpensFirst'
  BY <1>2 DEF HistoryMoved, OpensFirst, NobodyBeside, Inv, Typed, Query, Goto,
       Raise, Answer, database, stores, Steps, Ends, Opening, Rebuilding
<1>8. OneStore'
  BY <1>2 DEF HistoryMoved, OneStore, OpensFirst, NobodyBeside, ServerOpen, Inv,
       Typed, Query, Goto, Raise, Answer, database, stores, Steps, Ends, Opening,
       Rebuilding, Served
<1>9. Current'
  BY <1>2, NoneIsNoRequest DEF HistoryMoved, Current, Between, OneStore, OpensFirst,
       NobodyBeside, ServerOpen, Inv, Typed, Query, Goto, Raise, Answer, database,
       stores, Steps, Ends, Opening, Rebuilding, Served
<1>10. Seen'
  BY <1>2, NoneIsNoRequest DEF HistoryMoved, Seen, Calm, FilledExists, Inv, Typed,
       Query, Goto, Raise, Answer, database, stores, Steps, Ends, Opening,
       Rebuilding
<1>11. UndisturbedSearchesAnswer'
  BY <1>2, LiveStore DEF HistoryMoved, UndisturbedSearchesAnswer, Calm, Seen, Inv,
       Typed, Query, Goto, Raise, Answer, database, stores, Steps, Ends, Opening,
       Rebuilding, Served
<1>. QED BY <1>2, <1>3, <1>4, <1>5, <1>6, <1>7, <1>8, <1>9, <1>10, <1>11 DEF Inv,
     HistoryMoved

\* Between this step and the assignment the handle of the store is dead.
LEMMA DeleteKeeps ==
  ASSUME Inv, NEW r \in Requests, Delete(r), Observe
  PROVE  Inv'
<1>1. Moved(r)
  BY DEF Moved, Delete, Goto, Raise, database, stores, Steps, Ends, Opening,
       Rebuilding, Inv, Typed
<1>2. HistoryMoved(r)
  BY <1>1, HistoryStep
<1>3. Typed'
  <2>1. collection' \in [id : Nat, filled : BOOLEAN]
    BY EmptyCollection DEF Delete, Raise, database, Inv, Typed
  <2>. QED BY <1>2, <2>1 DEF HistoryMoved, Typed, Inv, Delete, Raise, Goto,
       database, stores
<1>4. FilledExists'
  BY <1>3 DEF FilledExists, Typed, Inv, Delete, Goto, Raise, Answer, database, stores
<1>5. Built'
  BY <1>2, NoneIsNoRequest DEF HistoryMoved, Built, ServerOpen, Typed, Inv, Delete,
       Goto, Raise, database, stores, Steps, Ends, Opening, Rebuilding, Served
<1>6. ServerOpen'
  BY <1>2, NoneIsNoRequest DEF HistoryMoved, ServerOpen, Inv, Typed, Delete, Goto,
       Raise, database, stores, Steps, Ends, Opening, Rebuilding, Served
<1>7. OpensFirst'
  BY <1>2 DEF HistoryMoved, OpensFirst, NobodyBeside, Inv, Typed, Delete, Goto,
       Raise, database, stores, Steps, Ends, Opening, Rebuilding
<1>8. OneStore'
  BY <1>2 DEF HistoryMoved, OneStore, OpensFirst, NobodyBeside, ServerOpen, Inv,
       Typed, Delete, Goto, Raise, database, stores, Steps, Ends, Opening,
       Rebuilding, Served
<1>9. Current'
  BY <1>2, NoneIsNoRequest DEF HistoryMoved, Current, Between, OneStore, OpensFirst,
       NobodyBeside, ServerOpen, Inv, Typed, Delete, Goto, Raise, database, stores,
       Steps, Ends, Opening, Rebuilding, Served
<1>10. Seen'
  BY <1>2, NoneIsNoRequest DEF HistoryMoved, Seen, Calm, FilledExists, Inv, Typed,
       Delete, Goto, Raise, database, stores, Steps, Ends, Opening, Rebuilding
<1>11. UndisturbedSearchesAnswer'
  BY <1>2, LiveStore DEF HistoryMoved, UndisturbedSearchesAnswer, Calm, Seen, Inv,
       Typed, Delete, Goto, Raise, database, stores, Steps, Ends, Opening,
       Rebuilding, Served
<1>. QED BY <1>2, <1>3, <1>4, <1>5, <1>6, <1>7, <1>8, <1>9, <1>10, <1>11 DEF Inv,
     HistoryMoved

\* The rebuild that is alone gets the collection it will assign.
LEMMA CreateKeeps ==
  ASSUME Inv, NEW r \in Requests, Create(r), Observe
  PROVE  Inv'
<1>1. Moved(r)
  BY DEF Moved, Create, Goto, database, stores, GetOrCreate, Steps, Ends, Opening,
       Rebuilding, Inv, Typed
<1>2. HistoryMoved(r)
  BY <1>1, HistoryStep
<1>3. Typed'
  <2>1. PICK id \in 1 .. created + 1 :
                  GetOrCreate(id) /\ made' = [made EXCEPT ![r] = id]
    BY DEF Create
  <2>2. id \in Nat /\ created \in Nat /\ collection \in [id : Nat, filled : BOOLEAN]
    BY DEF Inv, Typed
  <2>3. created' \in Nat /\ collection' \in [id : Nat, filled : BOOLEAN]
    BY <2>1, <2>2, EmptyCollection DEF GetOrCreate, database
  <2>. QED BY <1>2, <2>1, <2>2, <2>3 DEF HistoryMoved, Typed, Inv, Create, Goto, stores
<1>4. FilledExists'
  BY <1>3 DEF FilledExists, Typed, Inv, Create, Goto, database, stores, GetOrCreate
<1>5. Built'
  BY <1>2, NoneIsNoRequest DEF HistoryMoved, Built, ServerOpen, Typed, Inv, Create,
       Goto, database, stores, GetOrCreate, Steps, Ends, Opening, Rebuilding, Served
<1>6. ServerOpen'
  BY <1>2, NoneIsNoRequest DEF HistoryMoved, ServerOpen, Inv, Typed, Create, Goto,
       database, stores, GetOrCreate, Steps, Ends, Opening, Rebuilding, Served
<1>7. OpensFirst'
  BY <1>2 DEF HistoryMoved, OpensFirst, NobodyBeside, Inv, Typed, Create, Goto,
       database, stores, GetOrCreate, Steps, Ends, Opening, Rebuilding
<1>8. OneStore'
  BY <1>2 DEF HistoryMoved, OneStore, OpensFirst, NobodyBeside, ServerOpen, Inv,
       Typed, Create, Goto, database, stores, GetOrCreate, Steps, Ends, Opening,
       Rebuilding, Served
<1>9. Current'
  BY <1>2, NoneIsNoRequest DEF HistoryMoved, Current, Between, OneStore, OpensFirst,
       NobodyBeside, ServerOpen, Inv, Typed, Create, Goto, database, stores,
       GetOrCreate, Steps, Ends, Opening, Rebuilding, Served
<1>10. Seen'
  BY <1>2, NoneIsNoRequest DEF HistoryMoved, Seen, Calm, FilledExists, Inv, Typed,
       Create, Goto, database, stores, GetOrCreate, Steps, Ends, Opening, Rebuilding
<1>11. UndisturbedSearchesAnswer'
  BY <1>2, LiveStore DEF HistoryMoved, UndisturbedSearchesAnswer, Calm, Seen, Inv,
       Typed, Create, Goto, database, stores, GetOrCreate, Steps, Ends, Opening,
       Rebuilding, Served
<1>. QED BY <1>2, <1>3, <1>4, <1>5, <1>6, <1>7, <1>8, <1>9, <1>10, <1>11 DEF Inv,
     HistoryMoved

\* The handle of the server's store is again the collection that is there.
LEMMA AssignKeeps ==
  ASSUME Inv, NEW r \in Requests, Assign(r), Observe
  PROVE  Inv'
<1>1. Moved(r)
  BY DEF Moved, Assign, Goto, database, Rebuilt, Ranking, Steps, Ends, Opening,
       Rebuilding, Inv, Typed
<1>2. HistoryMoved(r)
  BY <1>1, HistoryStep
<1>3. Typed'
  BY <1>2 DEF HistoryMoved, Typed, Inv, Assign, Goto, database, Rebuilt, Ranking,
       Steps, Ends, Opening, Rebuilding
<1>4. FilledExists'
  BY <1>3 DEF FilledExists, Typed, Inv, Assign, Goto, database, Rebuilt, Ranking
<1>5. Built'
  BY <1>2, NoneIsNoRequest DEF HistoryMoved, Built, ServerOpen, Typed, Inv, Assign,
       Goto, database, Rebuilt, Ranking, Steps, Ends, Opening, Rebuilding, Served
<1>6. ServerOpen'
  BY <1>2, NoneIsNoRequest DEF HistoryMoved, ServerOpen, Inv, Typed, Assign, Goto,
       database, Rebuilt, Ranking, Steps, Ends, Opening, Rebuilding, Served
<1>7. OpensFirst'
  BY <1>2 DEF HistoryMoved, OpensFirst, NobodyBeside, Inv, Typed, Assign, Goto,
       database, Rebuilt, Ranking, Steps, Ends, Opening, Rebuilding
<1>8. OneStore'
  BY <1>2 DEF HistoryMoved, OneStore, OpensFirst, NobodyBeside, ServerOpen, Inv,
       Typed, Assign, Goto, database, Rebuilt, Ranking, Steps, Ends, Opening,
       Rebuilding, Served
<1>9. Current'
  BY <1>2, NoneIsNoRequest DEF HistoryMoved, Current, Between, OneStore, OpensFirst,
       NobodyBeside, ServerOpen, Inv, Typed, Assign, Goto, database, Rebuilt,
       Ranking, Steps, Ends, Opening, Rebuilding, Served
<1>10. Seen'
  BY <1>2, NoneIsNoRequest DEF HistoryMoved, Seen, Calm, FilledExists, Inv, Typed,
       Assign, Goto, database, Rebuilt, Ranking, Steps, Ends, Opening, Rebuilding
<1>11. UndisturbedSearchesAnswer'
  BY <1>2, LiveStore DEF HistoryMoved, UndisturbedSearchesAnswer, Calm, Seen, Inv,
       Typed, Assign, Goto, database, Rebuilt, Ranking, Steps, Ends, Opening,
       Rebuilding, Served
<1>. QED BY <1>2, <1>3, <1>4, <1>5, <1>6, <1>7, <1>8, <1>9, <1>10, <1>11 DEF Inv,
     HistoryMoved

\* The chunks go into the collection of the store.
LEMMA AddKeeps ==
  ASSUME Inv, NEW r \in Requests, Add(r), Observe
  PROVE  Inv'
<1>1. Moved(r)
  BY DEF Moved, Add, Goto, Raise, database, stores, Rebuilt, Ranking, Steps, Ends,
       Opening, Rebuilding, Inv, Typed
<1>2. HistoryMoved(r)
  BY <1>1, HistoryStep
<1>3. Typed'
  BY <1>2 DEF HistoryMoved, Typed, Inv, Add, Goto, Raise, database, stores, Rebuilt,
       Ranking, Steps, Ends, Opening, Rebuilding
<1>4. FilledExists'
  BY <1>3 DEF FilledExists, Typed, Inv, Add, Goto, Raise, database, stores, Rebuilt,
       Ranking, Dead, Handle, Built, Steps, Ends, Opening, Rebuilding, Served
<1>5. Built'
  BY <1>2, NoneIsNoRequest DEF HistoryMoved, Built, ServerOpen, Typed, Inv, Add,
       Goto, Raise, database, stores, Rebuilt, Ranking, Steps, Ends, Opening,
       Rebuilding, Served
<1>6. ServerOpen'
  BY <1>2, NoneIsNoRequest DEF HistoryMoved, ServerOpen, Inv, Typed, Add, Goto,
       Raise, database, stores, Rebuilt, Ranking, Steps, Ends, Opening, Rebuilding,
       Served
<1>7. OpensFirst'
  BY <1>2 DEF HistoryMoved, OpensFirst, NobodyBeside, Inv, Typed, Add, Goto, Raise,
       database, stores, Rebuilt, Ranking, Steps, Ends, Opening, Rebuilding
<1>8. OneStore'
  BY <1>2 DEF HistoryMoved, OneStore, OpensFirst, NobodyBeside, ServerOpen, Inv,
       Typed, Add, Goto, Raise, database, stores, Rebuilt, Ranking, Steps, Ends,
       Opening, Rebuilding, Served
<1>9. Current'
  BY <1>2, NoneIsNoRequest DEF HistoryMoved, Current, Between, OneStore, OpensFirst,
       NobodyBeside, ServerOpen, Inv, Typed, Add, Goto, Raise, database, stores,
       Rebuilt, Ranking, Steps, Ends, Opening, Rebuilding, Served
<1>10. Seen'
  BY <1>2, NoneIsNoRequest DEF HistoryMoved, Seen, Calm, FilledExists, Inv, Typed,
       Add, Goto, Raise, database, stores, Rebuilt, Ranking, Steps, Ends, Opening,
       Rebuilding
<1>11. UndisturbedSearchesAnswer'
  BY <1>2, LiveStore DEF HistoryMoved, UndisturbedSearchesAnswer, Calm, Seen, Inv,
       Typed, Add, Goto, Raise, database, stores, Rebuilt, Ranking, Steps, Ends,
       Opening, Rebuilding, Served
<1>. QED BY <1>2, <1>3, <1>4, <1>5, <1>6, <1>7, <1>8, <1>9, <1>10, <1>11 DEF Inv,
     HistoryMoved

-----------------------------------------------------------------------------
\* A restart leaves no store, and no search under way.
LEMMA RestartKeeps ==
  ASSUME Inv, Restart, Observe
  PROVE  Inv'
<1>. USE DEF Restart, database
<1>1. \A q \in Requests :
        /\ IsIndexer(q)' <=> IsIndexer(q)
        /\ pc'[q] = IF IsIndexer(q) \/ pc[q] \in Ends \cup {"idle"} THEN pc[q] ELSE "lost"
  BY DEF IsIndexer, ask
<1>2. pc' \in [Requests -> Steps \cup Ends]
  BY DEF Inv, Typed, Ends
<1>3. /\ raced' \in BOOLEAN /\ calm' \in [Requests -> BOOLEAN]
      /\ \A q \in Requests : calm'[q] => calm[q]
  BY DEF Observe, Inv, Typed
<1>4. \A q \in Requests : ~IsIndexer(q) => pc'[q] \in Ends \cup {"idle"}
  BY <1>1 DEF Ends
<1>5. Typed'
  BY <1>2, <1>3 DEF Inv, Typed
<1>6. FilledExists'
  BY DEF Inv, FilledExists
<1>7. Built'
  BY <1>1, <1>4, NoneIsNoRequest DEF Inv, Built, Served, Rebuilding, Ends
<1>8. NobodyBeside'
  BY <1>1 DEF Observe, NobodyBeside, Busy
<1>9. Calm'
  <2>1. SUFFICES ASSUME NEW q \in Requests, calm'[q], pc'[q] \notin Ends \cup {"idle"}
                 PROVE  ~raced' /\ \A p \in Requests \ {q} : pc'[p] \notin Rebuilding
    BY DEF Calm
  <2>2. pc[q] \notin Ends
    BY <1>1, <2>1 DEF Ends
  <2>. QED BY <2>1, <2>2 DEF Observe
<1>10. ServerOpen' /\ OpensFirst' /\ OneStore' /\ Seen'
  BY <1>1, <1>4 DEF ServerOpen, OpensFirst, OneStore, Seen, Served, Ends, Rebuilding
<1>11. Current'
  <2>1. ~raced' => \A q \in Requests : pc'[q] \notin {"assign", "publish"}
    BY <1>1, <1>4, <1>8 DEF NobodyBeside, Opening, Rebuilding, Ends
  <2>. QED BY <2>1 DEF Current
<1>12. UndisturbedSearchesAnswer'
  BY <1>1, <1>3 DEF Inv, UndisturbedSearchesAnswer, Ends
<1>. QED BY <1>5, <1>6, <1>7, <1>8, <1>9, <1>10, <1>11, <1>12 DEF Inv

\* Inv holds before the index is first opened.
LEMMA InitInv == Init => Inv
<1>1. SUFFICES ASSUME Init PROVE Inv
  OBVIOUS
<1>2. \A q \in Requests : pc[q] \in {"answered", "idle"}
  BY <1>1 DEF Init
<1>3. Typed
  BY <1>1, EmptyCollection DEF Init, Typed, Steps, Ends
<1>4. FilledExists /\ Built /\ OneStore /\ ServerOpen /\ Seen /\ UndisturbedSearchesAnswer
  BY <1>1, <1>2 DEF Init, FilledExists, Built, OneStore, ServerOpen, Seen,
                    UndisturbedSearchesAnswer, Served, Rebuilding
<1>5. NobodyBeside /\ OpensFirst /\ Current /\ Calm
  BY <1>1, <1>2 DEF Init, NobodyBeside, OpensFirst, Current, Calm, Opening,
       Rebuilding, Ends
<1>. QED BY <1>3, <1>4, <1>5 DEF Inv

\* Inv is inductive.
LEMMA NextInv == Inv /\ [Next]_vars => Inv'
<1>1. ASSUME Inv, UNCHANGED vars
      PROVE  Inv'
  BY <1>1 DEF vars, Inv, Typed, FilledExists, Built, NobodyBeside, ServerOpen,
       OpensFirst,
              OneStore, Current, Between, Calm, Seen, UndisturbedSearchesAnswer, IsIndexer, ask
<1>2. ASSUME Inv, Observe, Restart
      PROVE  Inv'
  BY <1>2, RestartKeeps
<1>3. ASSUME Inv, Observe, NEW r \in Requests, Search(r)
      PROVE  Inv'
  BY <1>3, GetStoreKeeps, OpenKeeps, PublishKeeps, GetStoreAgainKeeps, CountKeeps,
     KeywordSearchKeeps, CountAgainKeeps, QueryKeeps, DeleteKeeps, CreateKeeps,
     AssignKeeps, AddKeeps DEF Search
<1>. QED BY <1>1, <1>2, <1>3 DEF Next, Finished

\* The store of the server and the histories of the searches are as Inv says.
THEOREM Invariant == Spec => []Inv
BY InitInv, NextInv, PTL DEF Spec

\* A search that no rebuild and no race has disturbed neither fails nor answers
\* without the index (vector_store.py:25-30, :92-96).
THEOREM UndisturbedSearches == Spec => []UndisturbedSearchesAnswer
<1>1. Inv => UndisturbedSearchesAnswer
  BY DEF Inv
<1>. QED BY <1>1, Invariant, PTL

\* The store of the server holds the collection that is there, but in a rebuild
\* or after a race (vector_store.py:99-106).
THEOREM OutagesNeedARace == Spec => []OutageNeedsRace
<1>1. Inv => OutageNeedsRace
  BY NoneIsNoRequest DEF Inv, Current, Between, Rebuilding, OutageNeedsRace
<1>. QED BY <1>1, Invariant, PTL

\* Whatever a search does, it goes on from a place where it had not ended.
LEMMA SearchMoves ==
  ASSUME Inv, NEW r \in Requests, Search(r)
  PROVE  Moved(r)
BY DEF Moved, Search, Inv, Typed, GetStore, Open, Publish, GetStoreAgain, Count,
     KeywordSearch, CountAgain, Query, Delete, Create, Assign, Add, Goto, Raise,
     Answer, Ranking, Rebuilt, Steps, Ends, Opening, Rebuilding

\* An index that has its chunks keeps them through searches and restarts, once
\* nobody is left who found them missing (semantic_search.py, search_knowledge).
THEOREM WarmIndexes == Spec => WarmIndexStays
<1>1. ASSUME Inv, Warm, Restart
      PROVE  Warm'
  <2>1. \A r \in Requests : IsIndexer(r)' <=> IsIndexer(r)
    BY <1>1 DEF Restart, IsIndexer, ask
  <2>. QED BY <1>1, <2>1 DEF Warm, Restart, database, Rebuilding, Ends
<1>2. ASSUME Inv, Warm, Observe, NEW r \in Requests, Search(r)
      PROVE  Warm'
  <2>1. Moved(r)
    BY <1>2, SearchMoves
  <2>2. HistoryMoved(r) /\ ~IsIndexer(r) /\ pc[r] \notin Rebuilding
    BY <1>2, <2>1, HistoryStep DEF Warm, Moved
  <2>3. collection' = collection /\ pc'[r] \notin Rebuilding
    BY <1>2, <2>2 DEF Search, Warm, Inv, Typed, FilledExists, GetStore, Open,
         GetOrCreate,
          Publish, GetStoreAgain, Count, KeywordSearch, CountAgain, Query, Delete, Create,
          Assign, Add, Goto, Raise, Answer, Ranking, database, stores, Rebuilding, Ends
  <2>. QED BY <1>2, <2>2, <2>3 DEF Warm, HistoryMoved
<1>3. Inv /\ [Next]_vars => (Warm => Warm')
  BY <1>1, <1>2 DEF Next, Finished, vars, Warm, IsIndexer, ask
<1>. QED BY <1>3, Invariant, PTL DEF Spec, WarmIndexStays

-----------------------------------------------------------------------------
(* What a search returns. *)

Known == given \in Scenarios /\ chunks = Chunks(given.document)

LEMMA SeqGrows ==
  ASSUME NEW S, NEW T, S \subseteq T, NEW s \in Seq(S)
  PROVE  s \in Seq(T)
<1>1. Len(s) \in Nat /\ s \in [1 .. Len(s) -> S]
  BY LenProperties
<1>2. s \in [1 .. Len(s) -> T]
  BY <1>1
<1> QED BY <1>1, <1>2, SeqDef

LEMMA DocumentIsTyped ==
  ASSUME NEW s \in Scenarios
  PROVE  s.document \in Seq(Line)
<1> DEFINE Plain == {"w", ".", "?", "!", "_"}
           PlainLine == [level : 0 .. 3, text : Seq(Plain)]
<1>1. s.document \in Seq(PlainLine)
  BY ScenariosTyped DEF Scenario
<1>2. Plain \subseteq Char
  BY DEF Char, White
<1> HIDE DEF Plain
<1>3. Seq(Plain) \subseteq Text
  BY <1>2, SeqGrows DEF Text
<1>4. PlainLine \subseteq Line
  BY <1>3 DEF Line
<1> HIDE DEF PlainLine
<1> QED BY <1>1, <1>4, SeqGrows

LEMMA KnownFacts ==
  ASSUME Known
  PROVE  /\ \E m \in Nat : ChunkIds = 1 .. m
         /\ \A n \in ChunkIds : /\ given.semantic[n] \in Nat
                                /\ given.keyword[n] \in Nat
         /\ \A r \in Requests : ask(r) \in Ask
         /\ given.document \in Seq(Line)
<1>1. /\ given \in Scenario /\ given \in Scenarios
      /\ DOMAIN Chunks(given.document) \subseteq DOMAIN given.semantic \cap DOMAIN given.keyword
  BY ScenariosTyped, EveryChunkHasScores DEF Known
<1>2. given.document \in Seq(Line)
  BY <1>1, DocumentIsTyped
<1>3. Sections(given.document) \in Seq(Written)
      /\ DOMAIN Chunks(given.document) = 1 .. Len(Sections(given.document))
  BY <1>2, ChunksAreSections
<1>4. \E m \in Nat : ChunkIds = 1 .. m
  <2>1. Len(Sections(given.document)) \in Nat
    BY <1>3, LenProperties
  <2> QED BY <1>3, <2>1 DEF Known, ChunkIds
<1>5. given.semantic \in Seq(0 .. Scale) /\ given.keyword \in Seq(0 .. Scale)
      /\ given.ask \in [Requests -> Ask]
  BY <1>1 DEF Scenario
<1>6. ASSUME NEW n \in ChunkIds
      PROVE  given.semantic[n] \in Nat /\ given.keyword[n] \in Nat
  <2>1. n \in DOMAIN given.semantic /\ n \in DOMAIN given.keyword
    BY <1>1 DEF Known, ChunkIds
  <2>2. \A t \in Seq(0 .. Scale) : \A k \in DOMAIN t : t[k] \in Nat
    BY ScaleIsPositive
  <2> QED BY <1>5, <2>1, <2>2
<1>7. \A r \in Requests : ask(r) \in Ask
  BY <1>5 DEF ask
<1> QED BY <1>2, <1>4, <1>6, <1>7

\* A list of chunks that never has a chunk without those that are better for
\* both rankings, nor before them.
Respecting(s) ==
  /\ IsList(s) /\ ToSet(s) \subseteq ChunkIds
  /\ \A n, m \in ChunkIds : BetterForBoth(n, m) /\ m \in ToSet(s) => Ahead(s, n, m)

LEMMA AheadIsIn ==
  ASSUME NEW s, NEW x, NEW y, Ahead(s, x, y)
  PROVE  x \in ToSet(s) /\ y \in ToSet(s)
BY DEF Ahead, ToSet

LEMMA TopRespects ==
  ASSUME NEW s, Respecting(s), NEW k \in Nat
  PROVE  Respecting(Top(s, k)) /\ Len(Top(s, k)) <= k
<1>1. IsList(s)
  BY DEF Respecting
<1>2. /\ IsList(Top(s, k)) /\ Len(Top(s, k)) <= k
      /\ ToSet(Top(s, k)) \subseteq ToSet(s)
      /\ \A x, y : Ahead(s, x, y) /\ y \in ToSet(Top(s, k)) => Ahead(Top(s, k), x, y)
  BY <1>1, TopIsList
<1> QED BY <1>2 DEF Respecting

LEMMA KeptRespects ==
  ASSUME NEW s, Respecting(s), NEW keep,
         \A n, m \in ChunkIds : BetterForBoth(n, m) /\ m \in keep => n \in keep
  PROVE  Respecting(Kept(s, keep))
<1>1. IsList(s)
  BY DEF Respecting
<1>2. /\ IsList(Kept(s, keep))
      /\ ToSet(Kept(s, keep)) = ToSet(s) \cap keep
      /\ \A x, y \in keep : Ahead(s, x, y) => Ahead(Kept(s, keep), x, y)
  BY <1>1, KeptIsList
<1> QED BY <1>2 DEF Respecting

LEMMA SortedRespects ==
  ASSUME NEW s, IsList(s), ToSet(s) \subseteq ChunkIds, NEW score,
         \A x \in ToSet(s) : score[x] \in Nat,
         \A n, m \in ChunkIds : BetterForBoth(n, m) /\ m \in ToSet(s) =>
           /\ n \in ToSet(s)
           /\ score[n] > score[m] \/ (score[n] = score[m] /\ Ahead(s, n, m))
  PROVE  Respecting(ByScore(s, score))
<1>1. /\ IsList(ByScore(s, score))
      /\ ToSet(ByScore(s, score)) = ToSet(s)
      /\ \A x, y \in ToSet(s) :
           score[x] > score[y] \/ (score[x] = score[y] /\ Ahead(s, x, y))
             => Ahead(ByScore(s, score), x, y)
  BY ByScoreIsList
<1> QED BY <1>1 DEF Respecting

LEMMA AllIsList ==
  ASSUME Known
  PROVE  IsList(All) /\ ToSet(All) = ChunkIds
<1>1. PICK m \in Nat : ChunkIds = 1 .. m
  BY KnownFacts
<1>2. All \in [1 .. m -> Nat] /\ DOMAIN All = 1 .. m /\ \A n \in 1 .. m : All[n] = n
  BY <1>1 DEF All
<1>3. All \in Seq(Nat)
  BY <1>2, SeqDef
<1>4. ToSet(All) = ChunkIds
  BY <1>1, <1>2 DEF ToSet
<1> QED BY <1>2, <1>3, <1>4 DEF IsList, IsInjective

LEMMA SemanticRespects ==
  ASSUME Known, NEW k \in Nat
  PROVE  Respecting(Semantic(k)) /\ Len(Semantic(k)) <= k
<1> DEFINE score == given.semantic
<1>1. /\ IsList(All) /\ ToSet(All) = ChunkIds
      /\ \A x \in ChunkIds : score[x] \in Nat
  BY AllIsList, KnownFacts
<1>2. \A n, m \in ChunkIds : BetterForBoth(n, m) => score[n] > score[m]
  BY DEF BetterForBoth
<1> HIDE DEF score
<1>3. Respecting(ByScore(All, score))
  BY <1>1, <1>2, SortedRespects
<1> QED BY <1>3, TopRespects DEF Semantic, score

LEMMA KeywordRespects ==
  ASSUME Known
  PROVE  /\ Respecting(Keyword)
         /\ ToSet(Keyword) = {n \in ChunkIds : given.keyword[n] > 0}
<1> DEFINE score == given.keyword
           found == {n \in ChunkIds : score[n] > 0}
           list == Kept(All, found)
<1>1. /\ IsList(All) /\ ToSet(All) = ChunkIds
      /\ \A x \in ChunkIds : score[x] \in Nat
  BY AllIsList, KnownFacts
<1>2. IsList(list) /\ ToSet(list) = found
  <2> HIDE DEF found
  <2>1. IsList(list) /\ ToSet(list) = ToSet(All) \cap found
    BY <1>1, KeptIsList
  <2> QED BY <1>1, <2>1 DEF found
<1>3. \A n, m \in ChunkIds : BetterForBoth(n, m) /\ m \in found =>
        n \in found /\ score[n] > score[m]
  BY <1>1 DEF BetterForBoth
<1>4. Keyword = ByScore(list, score)
  BY DEF Keyword
<1>5. \A x \in found : x \in ChunkIds /\ score[x] \in Nat
  BY <1>1
<1> HIDE DEF score, list, found
<1>6. Respecting(ByScore(list, score)) /\ ToSet(ByScore(list, score)) = found
  BY <1>2, <1>3, <1>5, SortedRespects, ByScoreIsList
<1> QED BY <1>4, <1>6 DEF found, score

\* The weights are positive, and rounding keeps the order.
LEMMA WeighedKeepsOrder ==
  ASSUME NEW a \in Nat, NEW b \in Nat, NEW c \in Nat, NEW d \in Nat, a <= c, b <= d
  PROVE  Weighed(a, b) \in Nat /\ Weighed(a, b) <= Weighed(c, d)
<1> DEFINE x == 7 * a + 3 * b + 5
           y == 7 * c + 3 * d + 5
<1>1. x \in Nat /\ y \in Nat /\ x <= y
  OBVIOUS
<1> HIDE DEF x, y
<1>2. x \div 10 \in Nat /\ y \div 10 \in Nat /\ x \div 10 <= y \div 10
  BY <1>1
<1>3. Weighed(a, b) = Lowest(Scale, x \div 10) /\ Weighed(c, d) = Lowest(Scale, y \div 10)
  BY DEF Weighed, x, y
<1> QED BY <1>2, <1>3, ScaleIsPositive DEF Lowest

\* What the index may have found.
LEMMA MergedScores ==
  ASSUME Known, NEW found, Respecting(found)
  PROVE  /\ \A n \in ChunkIds : Merged(found)[n] \in Nat
         /\ \A n, m \in ChunkIds : BetterForBoth(n, m) => Merged(found)[m] <= Merged(found)[n]
<1> DEFINE sem(n) == IF n \in ToSet(found) THEN given.semantic[n] ELSE 0
<1>1. \A n \in ChunkIds : /\ sem(n) \in Nat /\ given.keyword[n] \in Nat
                          /\ given.semantic[n] \in Nat
                          /\ Merged(found)[n] = Weighed(sem(n), given.keyword[n])
  BY KnownFacts DEF Merged
<1>2. ASSUME NEW n \in ChunkIds, NEW m \in ChunkIds, BetterForBoth(n, m)
      PROVE  sem(m) <= sem(n) /\ given.keyword[m] <= given.keyword[n]
  <2>1. given.semantic[n] > given.semantic[m] /\ given.keyword[n] > given.keyword[m]
    BY <1>2 DEF BetterForBoth
  <2>2. m \in ToSet(found) => n \in ToSet(found)
    BY <1>2, AheadIsIn DEF Respecting
  <2> QED BY <1>1, <2>1, <2>2
<1> HIDE DEF sem
<1>3. \A n \in ChunkIds : Merged(found)[n] \in Nat
  BY <1>1, WeighedKeepsOrder
<1>4. ASSUME NEW n \in ChunkIds, NEW m \in ChunkIds, BetterForBoth(n, m)
      PROVE  Merged(found)[m] <= Merged(found)[n]
  <2>1. Weighed(sem(m), given.keyword[m]) <= Weighed(sem(n), given.keyword[n])
    BY <1>1, <1>2, <1>4, WeighedKeepsOrder
  <2> QED BY <1>1, <2>1
<1> QED BY <1>3, <1>4

LEMMA MergedIdsRespect ==
  ASSUME Known, NEW found, Respecting(found)
  PROVE  Respecting(MergedIds(found))
<1> DEFINE rest == Kept(Keyword, ChunkIds \ ToSet(found))
           both == MergedIds(found)
<1>1. IsList(Keyword) /\ Respecting(Keyword)
  BY KeywordRespects DEF Respecting
<1>2. /\ IsList(rest) /\ ToSet(rest) = ToSet(Keyword) \cap (ChunkIds \ ToSet(found))
      /\ \A x, y \in ChunkIds \ ToSet(found) : Ahead(Keyword, x, y) => Ahead(rest, x, y)
  BY <1>1, KeptIsList
<1> HIDE DEF rest
<1>3. /\ IsList(found) /\ ToSet(found) \subseteq ChunkIds /\ ToSet(found) \cap ToSet(rest) = {}
  BY <1>2 DEF Respecting
<1>4. /\ IsList(found \o rest)
      /\ ToSet(found \o rest) = ToSet(found) \cup ToSet(rest)
      /\ \A x, y : Ahead(found, x, y) \/ Ahead(rest, x, y) => Ahead(found \o rest, x, y)
      /\ \A x \in ToSet(found), y \in ToSet(rest) : Ahead(found \o rest, x, y)
  BY <1>2, <1>3, JoinedIsList
<1>5. both = found \o rest
  BY DEF MergedIds, rest
<1> HIDE DEF both
<1>6. ASSUME NEW n \in ChunkIds, NEW m \in ChunkIds, BetterForBoth(n, m), m \in ToSet(both)
      PROVE  Ahead(both, n, m)
  <2>1. CASE m \in ToSet(found)
    <3>1. Ahead(found, n, m)
      BY <1>6, <2>1 DEF Respecting
    <3> QED BY <1>4, <1>5, <3>1
  <2>2. CASE m \notin ToSet(found)
    <3>1. m \in ToSet(rest) /\ m \in ToSet(Keyword)
      BY <1>2, <1>4, <1>5, <1>6, <2>2
    <3>2. Ahead(Keyword, n, m)
      BY <1>1, <1>6, <3>1 DEF Respecting
    <3>3. CASE n \in ToSet(found)
      BY <1>4, <1>5, <3>1, <3>3
    <3>4. CASE n \notin ToSet(found)
      <4>1. Ahead(rest, n, m)
        BY <1>2, <2>2, <3>2, <3>4
      <4> QED BY <1>4, <1>5, <4>1
    <3> QED BY <3>3, <3>4
  <2> QED BY <2>1, <2>2
<1>7. IsList(both) /\ ToSet(both) \subseteq ChunkIds
  BY <1>2, <1>3, <1>4, <1>5
<1> QED BY <1>6, <1>7 DEF Respecting, both

LEMMA ResultsRespect ==
  ASSUME Known, NEW q \in Ask, q.type \in Types, NEW found, Respecting(found)
  PROVE  Respecting(Results(q, found)) /\ Len(Results(q, found)) <= q.max
<1> DEFINE score == ScoreFor(q, found)
           ranked == RankedFor(q, found)
           keep == {n \in ChunkIds : score[n] >= q.min}
<1>1. q.max \in Nat /\ q.min \in Nat
  BY ScaleIsPositive DEF Ask
<1>2. /\ \A n \in ChunkIds : score[n] \in Nat
      /\ \A n, m \in ChunkIds : BetterForBoth(n, m) => score[m] <= score[n]
      /\ Respecting(ranked)
  <2>1. CASE q.type = "SEMANTIC"
    <3>1. score = given.semantic /\ ranked = found
      BY <2>1 DEF ScoreFor, RankedFor
    <3> HIDE DEF score, ranked
    <3> QED BY <3>1, KnownFacts DEF BetterForBoth
  <2>2. CASE q.type = "KEYWORD"
    <3>1. score = given.keyword /\ ranked = Top(Keyword, q.max)
      BY <2>2 DEF ScoreFor, RankedFor
    <3> HIDE DEF score, ranked
    <3>2. Respecting(ranked)
      BY <1>1, <3>1, KeywordRespects, TopRespects
    <3> QED BY <3>1, <3>2, KnownFacts DEF BetterForBoth
  <2>3. CASE q.type = "HYBRID"
    <3>1. score = Merged(found) /\ ranked = Top(ByScore(MergedIds(found), Merged(found)), q.max)
      BY <2>3 DEF ScoreFor, RankedFor
    <3> HIDE DEF score, ranked
    <3> DEFINE ids == MergedIds(found)
    <3>2. /\ \A n \in ChunkIds : score[n] \in Nat
          /\ \A n, m \in ChunkIds : BetterForBoth(n, m) => score[m] <= score[n]
      BY <3>1, MergedScores
    <3>3. /\ IsList(ids) /\ ToSet(ids) \subseteq ChunkIds
          /\ \A n, m \in ChunkIds : BetterForBoth(n, m) /\ m \in ToSet(ids) => Ahead(ids, n, m)
      BY MergedIdsRespect DEF Respecting
    <3> HIDE DEF ids
    <3>4. ASSUME NEW n \in ChunkIds, NEW m \in ChunkIds, BetterForBoth(n, m), m \in ToSet(ids)
          PROVE  /\ n \in ToSet(ids)
                 /\ score[n] > score[m] \/ (score[n] = score[m] /\ Ahead(ids, n, m))
      <4>1. Ahead(ids, n, m)
        BY <3>3, <3>4
      <4>2. n \in ToSet(ids)
        BY <4>1, AheadIsIn
      <4>3. score[n] > score[m] \/ score[n] = score[m]
        BY <3>2, <3>4
      <4> QED BY <4>1, <4>2, <4>3
    <3>5. Respecting(ByScore(ids, score))
      BY <3>2, <3>3, <3>4, SortedRespects
    <3>6. Respecting(ranked)
      BY <1>1, <3>1, <3>5, TopRespects DEF ids
    <3> QED BY <3>2, <3>6
  <2> HIDE DEF score, ranked
  <2> QED BY <2>1, <2>2, <2>3 DEF Types
<1> HIDE DEF score, ranked
<1>3. \A n, m \in ChunkIds : BetterForBoth(n, m) /\ m \in keep => n \in keep
  BY <1>1, <1>2
<1> HIDE DEF keep
<1>4. Respecting(Kept(ranked, keep))
  BY <1>2, <1>3, KeptRespects
<1>5. Respecting(Top(Kept(ranked, keep), q.max)) /\ Len(Top(Kept(ranked, keep), q.max)) <= q.max
  BY <1>1, <1>4, TopRespects
<1>6. Results(q, found) = Top(Kept(ranked, keep), q.max)
  BY DEF Results, ranked, keep, score
<1> QED BY <1>5, <1>6

LEMMA NothingRespects == Respecting(<<>>)
<1>1. <<>> \in Seq(Nat) /\ DOMAIN <<>> = {}
  OBVIOUS
<1> QED BY <1>1 DEF Respecting, IsList, IsInjective, ToSet

-----------------------------------------------------------------------------
(* Every answer respects the rankings. *)

Asking == \A r \in Requests : pc[r] \notin Ends => ask(r).type # "NONE"

Numbered ==
  /\ collection.id <= created
  /\ \A r \in Requests : handle[r] <= created /\ made[r] <= created
  /\ restarts \in 0 .. MaxRestarts

Answered ==
  /\ answer \in [Requests -> Seq(Nat)]
  /\ \A r \in Requests : Respecting(answer[r]) /\ Len(answer[r]) <= ask(r).max

Answers == Known /\ Asking /\ Numbered /\ Answered

\* The documents, the scores and the requests are given once and for all.
LEMMA RespectingStays ==
  ASSUME given' = given, chunks' = chunks
  PROVE  /\ \A r \in Requests : ask(r)' = ask(r)
         /\ \A r \in Requests : Respecting(answer'[r]) => Respecting(answer[r])'
         /\ Known => Known'
<1>1. \A r \in Requests : ask(r)' = ask(r)
  BY DEF ask
<1>2. ChunkIds' = ChunkIds
  BY DEF ChunkIds
<1>3. \A n, m : BetterForBoth(n, m)' <=> BetterForBoth(n, m)
  BY DEF BetterForBoth
<1>4. \A r \in Requests : Respecting(answer'[r]) => Respecting(answer[r])'
  BY <1>2, <1>3 DEF Respecting, IsList, IsInjective, Ahead, ToSet
<1>5. Known => Known'
  BY DEF Known
<1> QED BY <1>1, <1>4, <1>5

LEMMA AnsweredStays ==
  ASSUME Answered, given' = given, chunks' = chunks, answer' = answer
  PROVE  Answered'
BY RespectingStays DEF Answered

LEMMA InitAnswers == Init => Answers
<1> SUFFICES ASSUME Init PROVE Answers
  OBVIOUS
<1>1. Known
  BY DEF Init, Known
<1>2. Asking
  BY DEF Init, Asking, Ends
<1>3. Numbered
  BY RestartsAreCounted DEF Init, Numbered
<1>4. Answered
  <2>1. \A r \in Requests : ask(r).max \in Nat
    BY <1>1, KnownFacts DEF Ask
  <2>2. answer = [r \in Requests |-> <<>>] /\ Len(<<>>) = 0 /\ <<>> \in Seq(Nat)
    BY DEF Init
  <2> QED BY <2>1, <2>2, NothingRespects DEF Answered
<1> QED BY <1>1, <1>2, <1>3, <1>4 DEF Answers

\* A search answers from what the index has found, or from nothing.
LEMMA AnswerKeeps ==
  ASSUME Inv, Answers, NEW r \in Requests, pc[r] \in {"rank", "search", "query"},
         NEW found, Respecting(found), NEW end, Answer(r, found, end)
  PROVE  Answered'
<1>1. ask(r) \in Ask /\ ask(r).type \in Types
  <2>1. ask(r) \in Ask
    BY KnownFacts DEF Answers
  <2>2. ask(r).type # "NONE"
    BY DEF Answers, Asking, Ends
  <2>3. ask(r).type # "INDEX"
    BY DEF Inv, Built, IsIndexer, Served, Rebuilding
  <2> QED BY <2>1, <2>2, <2>3 DEF Ask
<1> DEFINE result == Results(ask(r), found)
<1>2. Respecting(result) /\ Len(result) <= ask(r).max
  BY <1>1, ResultsRespect DEF Answers
<1>3. result \in Seq(Nat)
  BY <1>2 DEF Respecting, IsList
<1>4. /\ answer' = [answer EXCEPT ![r] = result]
      /\ given' = given /\ chunks' = chunks
  BY DEF Answer, Goto
<1> HIDE DEF result
<1>5. /\ answer' \in [Requests -> Seq(Nat)]
      /\ \A q \in Requests : Respecting(answer'[q]) /\ Len(answer'[q]) <= ask(q).max
  BY <1>2, <1>3, <1>4 DEF Answers, Answered
<1> QED BY <1>4, <1>5, RespectingStays DEF Answered

LEMMA SearchKeepsAnswers ==
  ASSUME Inv, Answers, NEW r \in Requests, Search(r)
  PROVE  Answers'
<1>1. Moved(r)
  BY SearchMoves
<1>2. given' = given /\ chunks' = chunks /\ restarts' = restarts /\ pc[r] \notin Ends
      /\ pc' \in [Requests -> Steps \cup Ends]
      /\ \A q \in Requests \ {r} : pc'[q] = pc[q]
  BY <1>1 DEF Moved, Inv, Typed
<1>3. Known'
  BY <1>2, RespectingStays DEF Answers
<1>4. Asking'
  BY <1>2, RespectingStays DEF Answers, Asking
<1>5. Numbered'
  <2>1. /\ created \in Nat /\ collection \in [id : Nat, filled : BOOLEAN]
        /\ handle \in [Requests -> Nat] /\ made \in [Requests -> Nat]
        /\ collection.id <= created
        /\ \A q \in Requests : handle[q] <= created /\ made[q] <= created
        /\ restarts \in 0 .. MaxRestarts
    BY DEF Inv, Typed, Answers, Numbered
  <2>2. ASSUME NEW id \in 1 .. created + 1, GetOrCreate(id)
        PROVE  /\ created' \in Nat /\ created <= created' /\ id <= created'
               /\ collection'.id <= created'
    BY <2>1, <2>2 DEF GetOrCreate, database
  <2>3. CASE Open(r)
    <3>1. PICK id \in 1 .. created + 1 :
                 GetOrCreate(id) /\ handle' = [handle EXCEPT ![r] = id] /\ made' = made
      BY <2>3 DEF Open
    <3> QED BY <1>2, <2>1, <2>2, <3>1 DEF Numbered
  <2>4. CASE Create(r)
    <3>1. PICK id \in 1 .. created + 1 :
                 GetOrCreate(id) /\ made' = [made EXCEPT ![r] = id] /\ handle' = handle
      BY <2>4 DEF Create, stores
    <3> QED BY <1>2, <2>1, <2>2, <3>1 DEF Numbered
  <2>5. CASE Assign(r)
    <3>1. /\ handle' = [handle EXCEPT ![store[r]] = made[r]]
          /\ made' = [made EXCEPT ![r] = 0]
          /\ collection' = collection /\ created' = created
      BY <2>5 DEF Assign, database
    <3> QED BY <1>2, <2>1, <3>1 DEF Numbered
  <2>6. CASE Delete(r) \/ Add(r)
    <3>1. handle' = handle /\ made' = made /\ created' = created
      BY <2>6 DEF Delete, Add, Raise, database, stores
    <3>2. collection'.id \in {0, collection.id}
      BY <2>1, <2>6 DEF Delete, Add, Raise, database
    <3> QED BY <1>2, <2>1, <3>1, <3>2 DEF Numbered
  <2>7. CASE GetStore(r) \/ Publish(r) \/ GetStoreAgain(r) \/ Count(r) \/ KeywordSearch(r)
             \/ CountAgain(r) \/ Query(r)
    <3>1. handle' = handle /\ made' = made /\ created' = created /\ collection' = collection
      BY <2>7 DEF GetStore, Publish, GetStoreAgain, Count, KeywordSearch, CountAgain, Query,
           Answer, Raise, database, stores
    <3> QED BY <1>2, <2>1, <3>1 DEF Numbered
  <2> QED BY <2>3, <2>4, <2>5, <2>6, <2>7 DEF Search
<1>6. Answered'
  <2>1. Respecting(<<>>) /\ Respecting(Semantic(ask(r).max))
    <3>1. ask(r).max \in Nat
      BY KnownFacts DEF Answers, Ask
    <3> QED BY <3>1, NothingRespects, SemanticRespects DEF Answers
  <2>2. CASE KeywordSearch(r)
    BY <2>1, <2>2, AnswerKeeps DEF KeywordSearch
  <2>3. CASE CountAgain(r)
    <3>1. CASE Answer(r, <<>>, "short")
      BY <2>1, <2>3, <3>1, AnswerKeeps DEF CountAgain
    <3>2. CASE answer' = answer
      BY <1>2, <3>2, AnsweredStays DEF Answers
    <3> QED BY <2>3, <3>1, <3>2 DEF CountAgain, Raise
  <2>4. CASE Query(r)
    <3>1. CASE Answer(r, Semantic(ask(r).max), "answered")
      BY <2>1, <2>4, <3>1, AnswerKeeps DEF Query
    <3>2. CASE answer' = answer
      BY <1>2, <3>2, AnsweredStays DEF Answers
    <3> QED BY <2>4, <3>1, <3>2 DEF Query, Raise
  <2>5. CASE ~(KeywordSearch(r) \/ CountAgain(r) \/ Query(r))
    <3>1. answer' = answer
      BY <2>5 DEF Search, GetStore, Open, Publish, GetStoreAgain, Count, Delete, Create,
           Assign, Add, Raise
    <3> QED BY <1>2, <3>1, AnsweredStays DEF Answers
  <2> QED BY <2>2, <2>3, <2>4, <2>5
<1> QED BY <1>3, <1>4, <1>5, <1>6 DEF Answers

LEMMA NextAnswers == Inv /\ Answers /\ [Next]_vars => Answers'
<1>1. ASSUME Answers, UNCHANGED vars PROVE Answers'
  <2>1. Known' /\ Asking' /\ Numbered'
    BY <1>1, RespectingStays DEF vars, Answers, Asking, Numbered
  <2>2. Answered'
    BY <1>1, AnsweredStays DEF vars, Answers
  <2> QED BY <2>1, <2>2 DEF Answers
<1>2. ASSUME Inv, Answers, Restart PROVE Answers'
  <2>1. /\ given' = given /\ chunks' = chunks /\ answer' = answer
        /\ collection' = collection /\ created' = created
        /\ handle' = handle /\ made' = made
        /\ restarts' = restarts + 1 /\ restarts < MaxRestarts
    BY <1>2 DEF Restart, database
  <2>2. Known' /\ Answered'
    BY <1>2, <2>1, RespectingStays, AnsweredStays DEF Answers
  <2>3. Numbered'
    BY <1>2, <2>1, RestartsAreCounted DEF Answers, Numbered
  <2>4. Asking'
    BY <1>2, <2>1, RespectingStays DEF Answers, Asking, Restart, Ends
  <2> QED BY <2>2, <2>3, <2>4 DEF Answers
<1>3. ASSUME Inv, Answers, NEW r \in Requests, Search(r) PROVE Answers'
  BY <1>3, SearchKeepsAnswers
<1> QED BY <1>1, <1>2, <1>3 DEF Next, Finished

LEMMA AnswersAlways == Spec => [](Inv /\ Answers)
<1>1. Init => Inv /\ Answers
  BY InitInv, InitAnswers
<1>2. Inv /\ Answers /\ [Next]_vars => (Inv /\ Answers)'
  BY NextInv, NextAnswers
<1> QED BY <1>1, <1>2, PTL DEF Spec

\* A chunk that is better than another for the query and for its words is never
\* behind it in an answer, nor left out of one that has the other, in any of the
\* three kinds of search (semantic_search.py:39-76, _hybrid_search).
THEOREM BetterChunksAreAhead == Spec => []HybridRespectsBoth
<1>1. Inv /\ Answers => HybridRespectsBoth
  BY DEF Answers, Answered, Respecting, Ahead, HybridRespectsBoth
<1> QED BY <1>1, AnswersAlways, PTL

\* The collections are numbered as they are created, and an answer is a list of
\* different chunks, no longer than was asked for (Knowledge).
THEOREM TypeCorrect == Spec => []TypeOK
<1>1. Inv /\ Answers => TypeOK
  <2> SUFFICES ASSUME Inv, Answers PROVE TypeOK
    OBVIOUS
  <2>1. collection \in [id : 0 .. created, filled : BOOLEAN]
    BY DEF Inv, Typed, Answers, Numbered
  <2>2. handle \in [Requests -> 0 .. created] /\ made \in [Requests -> 0 .. created]
    BY DEF Inv, Typed, Answers, Numbered
  <2>3. \A r \in Requests : /\ ToSet(answer[r]) \subseteq ChunkIds
                            /\ IsInjective(answer[r])
                            /\ Len(answer[r]) <= ask(r).max
    BY DEF Answers, Answered, Respecting, IsList
  <2>4. /\ global \in Requests \cup {None} /\ pc \in [Requests -> Steps \cup Ends]
        /\ store \in [Requests -> Requests \cup {None}]
        /\ calm \in [Requests -> BOOLEAN] /\ raced \in BOOLEAN
        /\ restarts \in 0 .. MaxRestarts
    BY DEF Inv, Typed, Answers, Numbered
  <2> QED BY <2>1, <2>2, <2>3, <2>4 DEF TypeOK
<1> QED BY <1>1, AnswersAlways, PTL

\* Whatever the document, its chunks are its h2 and h3 headers with text under
\* them, in order, each with all of its text, its level and its parent, which
\* is the h1 for an h3 under an h2 with a blank title
\* (chunker.py, chunk_document).
THEOREM ChunksAlwaysFollowHeaders == Spec => []ChunksFollowHeaders
<1>1. Inv /\ Answers => ChunksFollowHeaders
  BY KnownFacts, ChunksAreCut DEF Answers, Known, ChunksFollowHeaders
<1> QED BY <1>1, AnswersAlways, PTL

\* Whatever the document, the overlap of a chunk is the chunk before it, or
\* within the limit the whole lines of its end that fit, or else whole
\* sentences, or else all that fits, but for blanks in front
\* (chunker.py, _overlap_tail).
THEOREM OverlapsAreAlwaysTails == Spec => []OverlapsAreTails
<1>1. Inv /\ Answers => OverlapsAreTails
  BY KnownFacts, ChunksOverlap DEF Answers, Known, OverlapsAreTails
<1> QED BY <1>1, AnswersAlways, PTL
=============================================================================
