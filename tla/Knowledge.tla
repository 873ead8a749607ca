------------------------------ MODULE Knowledge ------------------------------
(***************************************************************************)
(* The knowledge base: search_knowledge (retrieval/semantic_search.py)     *)
(* over the chunks of the documents and their vector index                 *)
(* (index/vector_store.py), with searches on threads of one server         *)
(* process, run_indexer.py in a process of its own, and restarts of the    *)
(* server.                                                                 *)
(*                                                                         *)
(* ChromaDB is external.  It holds at most one collection of the name; an  *)
(* operation on a handle whose collection has been deleted raises, and so  *)
(* does the deletion of a collection that is not there; add stores all the *)
(* chunks or none, and changes none that are there.                        *)
(***************************************************************************)
EXTENDS Chunker, FiniteSets

CONSTANTS
  Requests,     \* searches, and runs of the indexer
  Scenarios,    \* the documents, scores and requests of a run
  Scale,        \* a relevance score of 1.0; scores are 0 .. Scale
  MaxRestarts,  \* bound: restarts of the server
  None          \* no vector store yet

Types == {"SEMANTIC", "KEYWORD", "HYBRID"}

\* "INDEX" is a run of the indexer; "NONE" is no request at all.
Ask == [type : Types \cup {"INDEX", "NONE"}, max : Nat \ {0}, min : 0 .. Scale]

\* The scores of chunk n for the query: what the embeddings and the tokens say.
Scenario == [document : Seq([level : 0 .. 3, text : Seq({"w", ".", "?", "!", "_"})]),
             semantic : Seq(0 .. Scale), keyword : Seq(0 .. Scale),
             ask : [Requests -> Ask]]

ASSUME ScaleIsPositive == Scale \in Nat \ {0}
ASSUME RestartsAreCounted == MaxRestarts \in Nat
ASSUME NoneIsNoRequest == None \notin Requests
ASSUME ScenariosTyped == Scenarios \subseteq Scenario
ASSUME EveryChunkHasScores ==
  \A s \in Scenarios :
    DOMAIN Chunks(s.document) \subseteq DOMAIN s.semantic \cap DOMAIN s.keyword

VARIABLES
  given,       \* the scenario
  chunks,      \* KnowledgeStore._chunks
  collection,  \* the collection in the database: its number (0: none), filled
  created,     \* collections ever created
  handle,      \* handle[r]: _collection of the store that r has built
  global,      \* _vector_store of the server: who has built it
  pc,          \* pc[r]: what r does next, or how it ended
  store,       \* store[r]: the store r works with
  made,        \* made[r]: the collection r's rebuild got, before it is assigned
  answer,      \* answer[r]: the chunks r returns, best first
  restarts,    \* restarts so far
  raced,       \* history: since the last restart, two requests have opened or
               \* rebuilt the index at once, or the indexer has
  calm         \* history: calm[r]: while r was under way nobody else was in a
               \* rebuild, and the server's index had not been raced for

vars == <<given, chunks, collection, created, handle, global, pc, store, made,
          answer, restarts, raced, calm>>

\* "short": the index was found empty, by a search that had to use it.
Ends == {"answered", "short", "failed", "lost"}
Opening == {"build", "publish"}
Rebuilding == {"refetch", "delete", "create", "assign", "add"}
Steps == {"idle", "start", "count", "rank", "fetch", "search", "query"} \cup Opening
           \cup Rebuilding

ask(r) == given.ask[r]
ChunkIds == DOMAIN chunks

TypeOK ==
  /\ collection \in [id : 0 .. created, filled : BOOLEAN]
  /\ handle \in [Requests -> 0 .. created]
  /\ global \in Requests \cup {None}
  /\ pc \in [Requests -> Steps \cup Ends]
  /\ store \in [Requests -> Requests \cup {None}]
  /\ made \in [Requests -> 0 .. created]
  /\ \A r \in Requests : /\ ToSet(answer[r]) \subseteq ChunkIds
                         /\ IsInjective(answer[r])
                         /\ Len(answer[r]) <= ask(r).max
  /\ restarts \in 0 .. MaxRestarts
  /\ calm \in [Requests -> BOOLEAN] /\ raced \in BOOLEAN

-----------------------------------------------------------------------------
(* Ranking *)

Lowest(x, y) == IF x <= y THEN x ELSE y
Top(ranked, k) == SubSeq(ranked, 1, Lowest(k, Len(ranked)))

\* What stands at `places` of a list, in the order `before` of these places.
Arranged(list, places, before) ==
  LET Rank(i) == Cardinality({j \in places : <<j, i>> \in before})
  IN [k \in 1 .. Cardinality(places) |->
        list[CHOOSE i \in places : Rank(i) = k - 1]]

\* list.sort(key=..., reverse=True) is stable.
ByScore(list, score) ==
  LET Before(i, j) == \/ score[list[i]] > score[list[j]]
                      \/ score[list[i]] = score[list[j]] /\ i < j
      places == DOMAIN list
  IN Arranged(list, places, {p \in places \X places : Before(p[1], p[2])})

\* [x for x in list if x in keep]
Kept(list, keep) ==
  LET places == {i \in DOMAIN list : list[i] \in keep}
  IN Arranged(list, places, {p \in places \X places : p[1] < p[2]})

All == [n \in ChunkIds |-> n]

\* The nearest k chunks: ChromaDB's query, best first.
Semantic(k) == Top(ByScore(All, given.semantic), k)

\* A chunk that shares no token with the query is left out.
Keyword == ByScore(Kept(All, {n \in ChunkIds : given.keyword[n] > 0}), given.keyword)

\* round(min(1.0, sem * 0.7 + key * 0.3), 4), a half rounded up.
Weighed(sem, key) == Lowest(Scale, (7 * sem + 3 * key + 5) \div 10)

\* Fault: a chunk of both lists keeps the score of the first.
Merged_FirstOnly(found) ==
  [n \in ChunkIds |->
     IF n \in ToSet(found) THEN given.semantic[n] ELSE given.keyword[n]]

Merged(found) ==
  [n \in ChunkIds |->
     Weighed(IF n \in ToSet(found) THEN given.semantic[n] ELSE 0, given.keyword[n])]

\* Fault: the two lists are joined without dict.fromkeys.
MergedIds_Twice(found) == found \o Keyword

MergedIds(found) == found \o Kept(Keyword, ChunkIds \ ToSet(found))

\* _semantic_search, keyword_search and _hybrid_search, when the index has
\* found the chunks `found`.
ScoreFor(q, found) == CASE q.type = "SEMANTIC" -> given.semantic
                        [] q.type = "KEYWORD" -> given.keyword
                        [] q.type = "HYBRID" -> Merged(found)
RankedFor(q, found) ==
  CASE q.type = "SEMANTIC" -> found
    [] q.type = "KEYWORD" -> Top(Keyword, q.max)
    [] q.type = "HYBRID" -> Top(ByScore(MergedIds(found), Merged(found)), q.max)
Results(q, found) ==
  Top(Kept(RankedFor(q, found), {n \in ChunkIds : ScoreFor(q, found)[n] >= q.min}),
      q.max)

-----------------------------------------------------------------------------
Init ==
  /\ given \in Scenarios
  /\ chunks = Chunks(given.document)
  /\ collection = [id |-> 0, filled |-> FALSE]
  /\ created = 0
  /\ handle = [r \in Requests |-> 0]
  /\ global = None
  /\ pc = [r \in Requests |-> IF ask(r).type = "NONE" THEN "answered" ELSE "idle"]
  /\ store = [r \in Requests |-> None]
  /\ made = [r \in Requests |-> 0]
  /\ answer = [r \in Requests |-> <<>>]
  /\ restarts = 0
  /\ calm = [r \in Requests |-> TRUE]
  /\ raced = FALSE

database == <<collection, created>>
stores == <<handle, global>>

Goto(r, step) == /\ pc' = [pc EXCEPT ![r] = step]
                 /\ UNCHANGED <<given, chunks, restarts>>
Raise(r) == /\ Goto(r, "failed")
            /\ UNCHANGED <<database, stores, store, made, answer>>

\* The handle of the store that r works with.
Handle(r) == handle[store[r]]
Dead(r) == Handle(r) # collection.id
IsIndexer(r) == ask(r).type = "INDEX"

\* What is left once the index has been looked after.
Ranking(r) == IF ask(r).type = "KEYWORD" THEN "rank" ELSE "fetch"

-----------------------------------------------------------------------------
(* get_vector_store: no lock between the check and the assignment; each     *)
(* caller works with what the variable holds when it returns.               *)

GetStore(r) ==
  /\ pc[r] \in {"idle", "start"}
  /\ \/ /\ IsIndexer(r) \/ global = None
        /\ Goto(r, "build")
        /\ UNCHANGED store
     \/ /\ ~IsIndexer(r) /\ global # None
        /\ Goto(r, "count")
        /\ store' = [store EXCEPT ![r] = global]
  /\ UNCHANGED <<database, stores, made, answer>>

\* get_or_create_collection: the number of the collection the caller gets.
GetOrCreate(id) ==
  /\ id = IF collection.id = 0 THEN created + 1 ELSE collection.id
  /\ IF collection.id = 0
       THEN /\ collection' = [id |-> id, filled |-> FALSE]
            /\ created' = id
       ELSE UNCHANGED database

\* Fault: create_collection, which raises when the collection is there.
Open_CreateOnly(r) ==
  /\ pc[r] = "build"
  /\ \/ collection.id # 0 /\ Raise(r)
     \/ \E id \in 1 .. created + 1 :
          /\ collection.id = 0 /\ GetOrCreate(id)
          /\ handle' = [handle EXCEPT ![r] = id]
          /\ Goto(r, IF IsIndexer(r) THEN "delete" ELSE "publish")
          /\ store' = [store EXCEPT ![r] = r]
          /\ UNCHANGED <<global, made, answer>>

\* KnowledgeVectorStore.__init__
Open(r) ==
  /\ pc[r] = "build"
  /\ \E id \in 1 .. created + 1 :
       /\ GetOrCreate(id)
       /\ handle' = [handle EXCEPT ![r] = id]
  /\ Goto(r, IF IsIndexer(r) THEN "delete" ELSE "publish")
  /\ store' = [store EXCEPT ![r] = r]
  /\ UNCHANGED <<global, made, answer>>

Publish(r) ==
  /\ pc[r] = "publish"
  /\ global' = r
  /\ Goto(r, "start")
  /\ UNCHANGED <<database, handle, store, made, answer>>

\* Called again before the rebuild and before the query.
GetStoreAgain(r) ==
  /\ \/ pc[r] = "refetch" /\ Goto(r, "delete")
     \/ pc[r] = "fetch" /\ Goto(r, "search")
  /\ store' = [store EXCEPT ![r] = global]
  /\ UNCHANGED <<database, stores, made, answer>>

-----------------------------------------------------------------------------
(* search_knowledge *)

\* Fault: every search rebuilds the index.
Count_Always(r) ==
  /\ pc[r] = "count"
  /\ \/ Dead(r) /\ Raise(r)
     \/ /\ ~Dead(r)
        /\ Goto(r, IF chunks # <<>> THEN "refetch" ELSE Ranking(r))
        /\ UNCHANGED <<database, stores, store, made, answer>>

Count(r) ==
  /\ pc[r] = "count"
  /\ \/ Dead(r) /\ Raise(r)
     \/ /\ ~Dead(r)
        /\ Goto(r, IF ~collection.filled /\ chunks # <<>> THEN "refetch" ELSE Ranking(r))
        /\ UNCHANGED <<database, stores, store, made, answer>>

Answer(r, found, end) ==
  /\ answer' = [answer EXCEPT ![r] = Results(ask(r), found)]
  /\ Goto(r, end)
  /\ UNCHANGED <<database, stores, store, made>>

KeywordSearch(r) == pc[r] = "rank" /\ Answer(r, <<>>, "answered")

\* KnowledgeVectorStore.search: an index without chunks finds nothing.
CountAgain(r) ==
  /\ pc[r] = "search"
  /\ \/ Dead(r) /\ Raise(r)
     \/ ~Dead(r) /\ ~collection.filled /\ Answer(r, <<>>, "short")
     \/ /\ ~Dead(r) /\ collection.filled
        /\ Goto(r, "query")
        /\ UNCHANGED <<database, stores, store, made, answer>>

\* The chunks are counted once more; no query may ask for none.
Query(r) ==
  /\ pc[r] = "query"
  /\ IF Dead(r) \/ ~collection.filled THEN Raise(r)
     ELSE Answer(r, Semantic(ask(r).max), "answered")

-----------------------------------------------------------------------------
(* rebuild *)

Delete(r) ==
  /\ pc[r] = "delete"
  /\ \/ collection.id = 0 /\ Raise(r)
     \/ /\ collection.id # 0
        /\ collection' = [id |-> 0, filled |-> FALSE]
        /\ Goto(r, "create")
        /\ UNCHANGED <<created, stores, store, made, answer>>

Create(r) ==
  /\ pc[r] = "create"
  /\ \E id \in 1 .. created + 1 :
       /\ GetOrCreate(id)
       /\ made' = [made EXCEPT ![r] = id]
  /\ Goto(r, "assign")
  /\ UNCHANGED <<stores, store, answer>>

\* What follows a rebuild: the indexer is done, a search goes on.
Rebuilt(r) == IF IsIndexer(r) THEN "answered" ELSE Ranking(r)

\* Fault: the new collection is not assigned to self._collection.
Assign_Forgotten(r) ==
  /\ pc[r] = "assign"
  /\ made' = [made EXCEPT ![r] = 0]
  /\ Goto(r, IF chunks = <<>> THEN Rebuilt(r) ELSE "add")
  /\ UNCHANGED <<database, stores, store, answer>>

Assign(r) ==
  /\ pc[r] = "assign"
  /\ handle' = [handle EXCEPT ![store[r]] = made[r]]
  /\ made' = [made EXCEPT ![r] = 0]
  /\ Goto(r, IF chunks = <<>> THEN Rebuilt(r) ELSE "add")
  /\ UNCHANGED <<database, global, store, answer>>

Add(r) ==
  /\ pc[r] = "add"
  /\ \/ Dead(r) /\ Raise(r)
     \/ /\ ~Dead(r)
        /\ collection' = [collection EXCEPT !.filled = TRUE]
        /\ Goto(r, Rebuilt(r))
        /\ UNCHANGED <<created, stores, store, made, answer>>

-----------------------------------------------------------------------------
\* The server process ends, at any point of its searches, and starts anew; the
\* index is what is on disk.
Restart ==
  /\ restarts < MaxRestarts
  /\ restarts' = restarts + 1
  /\ pc' = [r \in Requests |->
              IF IsIndexer(r) \/ pc[r] \in Ends \cup {"idle"} THEN pc[r] ELSE "lost"]
  /\ global' = None
  /\ UNCHANGED <<given, chunks, database, handle, store, made, answer>>

Search(r) == \/ GetStore(r) \/ Open(r) \/ Publish(r) \/ GetStoreAgain(r)
             \/ Count(r) \/ KeywordSearch(r) \/ CountAgain(r) \/ Query(r)
             \/ Delete(r) \/ Create(r) \/ Assign(r) \/ Add(r)

\* History: who has been beside a rebuild, and whether the index has been
\* opened or rebuilt by two at once.
Busy(r) == pc'[r] \in Opening \cup Rebuilding
Observe ==
  /\ raced' = \/ raced /\ restarts' = restarts
              \/ \E r \in Requests : Busy(r) /\ IsIndexer(r)
              \/ \E r, q \in Requests : r # q /\ Busy(r) /\ Busy(q)
  /\ calm' = [r \in Requests |->
       /\ calm[r]
       /\ \/ pc[r] \in Ends \/ pc'[r] = "idle"
          \/ ~raced' /\ \A q \in Requests \ {r} : pc'[q] \notin Rebuilding]

Finished == (\A r \in Requests : pc[r] \in Ends) /\ UNCHANGED vars

Next == \/ (Restart \/ \E r \in Requests : Search(r)) /\ Observe
        \/ Finished

Spec == Init /\ [][Next]_vars

-----------------------------------------------------------------------------
(* Properties *)

\* chunk_document: "Split markdown by headers": the one pass of the code cuts
\* every document into the chunks its headers call for, none lost or mixed.
ChunksFollowHeaders == CutAtHeaders(given.document, chunks)

\* "add trailing overlap between adjacent sections", and _overlap_tail.
OverlapsAreTails == OverlapsThePrevious(chunks)

\* A chunk that is better than another for both rankings is never behind it
\* in an answer, nor left out of one that has the other.
BetterForBoth(n, m) == given.semantic[n] > given.semantic[m]
                       /\ given.keyword[n] > given.keyword[m]
HybridRespectsBoth ==
  \A r \in Requests : \A n, m \in ChunkIds :
    BetterForBoth(n, m) /\ m \in ToSet(answer[r]) =>
      \E i, j \in DOMAIN answer[r] :
        i < j /\ answer[r][i] = n /\ answer[r][j] = m

\* A search fails, or answers without the index, only if a rebuild was under
\* way beside it, or the index has been opened or rebuilt by two at once since
\* the server started (vector_store.py:25-30, :92-96).
UndisturbedSearchesAnswer ==
  \A r \in Requests :
    pc[r] \in {"short", "failed"} /\ ~IsIndexer(r) /\ chunks # <<>> => ~calm[r]

\* The store of the server loses its collection for good only in such a race.
OutageNeedsRace ==
  \A r \in Requests :
    global = r /\ ~raced /\ (\A q \in Requests : pc[q] \notin Rebuilding) =>
      handle[r] = collection.id

\* "Persistent ChromaDB index": once the chunks are stored and nobody is left
\* who found them missing, no search and no restart takes them away again.
Warm == /\ collection.filled
        /\ \A r \in Requests : /\ pc[r] \notin Rebuilding
                               /\ IsIndexer(r) => pc[r] \in Ends
WarmIndexStays == [][Warm => Warm']_vars
=============================================================================
