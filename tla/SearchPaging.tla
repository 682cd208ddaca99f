------------------------------ MODULE SearchPaging ------------------------------
(***************************************************************************)
(* The public search (search/query.go): a query is validated, its order    *)
(* resolved, the engine asked for one page, and a cursor handed out that   *)
(* binds the position to the query.  Clients hold cursors and send them    *)
(* back, not always with the query they came with, while the reconciler    *)
(* changes the index.  Engine errors are not modelled.                     *)
(***************************************************************************)
EXTENDS Integers, Sequences, FiniteSets, SequencesExt

CONSTANTS
    Documents,     \* forms a document may have: [id, year, semester, title, words, ids, keys]
    StartIndexes,  \* the indexes to start from
    Queries,       \* [text, sort, filters, limit] a client may ask
    Attributes,    \* filterable attributes
    KnownKeys,     \* keys and people the database knows
    Identifiers,   \* words of seven digits
    DefaultLimit,  \* 20
    MaxLimit,      \* 100
    MaxValues,     \* most values of one filter, 20
    MaxTotalHits,  \* most hits the engine gives for one query
    MaxChanges,    \* bound on index changes
    MaxRequests,   \* bound on requests
    Space, NoCursor

\* The index holds one document of each id.
OneEach(docs) == \A d, e \in docs : d.id = e.id => d = e

ASSUME SearchAssumption ==
    /\ \A d \in Documents : {d.id, d.year, d.semester, d.title} \subseteq Int
    /\ \A docs \in StartIndexes : docs \subseteq Documents /\ IsFiniteSet(docs) /\ OneEach(docs)
    /\ \A query \in Queries : query.text \in Seq(STRING) /\ query.limit \in Int
    /\ Space \notin Identifiers
    /\ {DefaultLimit, MaxLimit} \subseteq Nat \ {0} /\ MaxTotalHits \in Nat

VARIABLES
    index,    \* documents the engine holds, one per id
    changes,  \* index changes so far
    issued,   \* cursors clients hold, each with what their walk has seen
    requests, \* requests so far
    answer    \* the last answer

searchVars == <<index, changes, issued, requests, answer>>

----------------------------------------------------------------------------
(* Normalization *)

Trim(text) ==
    LET inner == {i \in DOMAIN text : text[i] # Space}
    IN IF inner = {} THEN <<>>
       ELSE SubSeq(text, CHOOSE i \in inner : \A j \in inner : i <= j,
                         CHOOSE i \in inner : \A j \in inner : i >= j)

ResolveOrder(sort, text) ==
    CASE sort \in {"newest", "oldest", "title"} -> sort
      [] OTHER -> IF Trim(text) = <<>> THEN "newest" ELSE "relevance"

Limit(query) ==
    LET asked == IF query.limit <= 0 THEN DefaultLimit ELSE query.limit
    IN IF asked > MaxLimit THEN MaxLimit ELSE asked

\* A mutated form: the order is left out.
QueryHash_NoOrder(query) ==
    [text |-> Trim(query.text), order |-> "any", filters |-> query.filters,
     limit |-> Limit(query)]

\* Hash collisions are not modelled: the hash is what it is computed from.
QueryHash(query) ==
    [text |-> Trim(query.text), order |-> ResolveOrder(query.sort, query.text),
     filters |-> query.filters, limit |-> Limit(query)]

ValidateQuery(query) ==
    /\ query.sort \in {"", "relevance", "newest", "oldest", "title"}
    /\ \A a \in Attributes :
        /\ Cardinality(query.filters[a]) <= MaxValues
        /\ query.filters[a] \subseteq KnownKeys

----------------------------------------------------------------------------
(* The engine *)

\* Values of one attribute are alternatives, attributes are all required.
BuildFilters(query, d) ==
    \A a \in Attributes : query.filters[a] # {} => query.filters[a] \cap d.keys[a] # {}

WordsOf(text) == {text[i] : i \in DOMAIN text} \ {Space}

\* How much of the text a document holds: the engine's textual rank.
Score(d, words) == Cardinality(d.words \cap words)

\* Does d come before e under the order's sort list and the ranking rules?
Ahead(order, words, d, e) ==
    LET Key(x) ==
          CASE order = "oldest" -> <<x.year, x.semester, x.title, x.id>>
            [] order = "title" -> <<x.title, -x.year, -x.semester, x.id>>
            [] order = "newest" -> <<-x.year, -x.semester, x.title, x.id>>
            [] OTHER -> <<-Score(x, words), -x.year, -x.semester, x.title, x.id>>
        k == Key(d)
        l == Key(e)
    IN \E i \in DOMAIN k : k[i] < l[i] /\ \A j \in 1 .. i - 1 : k[j] = l[j]

\* The orders the engine may return documents in: ties are its own choice.
Rankings(order, words, found) ==
    {s \in SetToSeqs(found) :
        \A i, j \in DOMAIN s : i < j => ~Ahead(order, words, s[j], s[i])}

Exact(text) == Len(text) = 1 /\ text[1] \in Identifiers

Matches(docs, query) == {d \in docs :
    /\ BuildFilters(query, d)
    /\ Trim(query.text) # <<>> => Score(d, WordsOf(query.text)) > 0}

\* Seven digits are first looked for as an identifier, under the same filters.
Found(docs, query) ==
    LET text == Trim(query.text)
        exact == {d \in Matches(docs, query) : text[1] \in d.ids}
    IN IF Exact(text) /\ exact # {} THEN exact ELSE Matches(docs, query)

Total(docs, query) ==
    LET n == Cardinality(Found(docs, query)) IN IF n < MaxTotalHits THEN n ELSE MaxTotalHits

\* The engine's page: what its ranking has from the offset on.
Page(ranking, total, offset, limit) ==
    SubSeq(ranking, offset + 1, IF offset + limit < total THEN offset + limit ELSE total)

----------------------------------------------------------------------------
NoAnswer == [kind |-> "none"]

SearchInit ==
    /\ index \in StartIndexes
    /\ changes = 0
    /\ issued = {}
    /\ requests = 0
    /\ answer = NoAnswer

\* The reconciler indexes a document, replaces one or takes one out.
ChangeIndex ==
    /\ changes < MaxChanges
    /\ \E d \in Documents :
        index' \in {{e \in index : e.id # d.id}, {e \in index : e.id # d.id} \cup {d}} \ {index}
    /\ changes' = changes + 1
    /\ UNCHANGED <<issued, requests, answer>>

RefuseSearch(query, held, why) ==
    /\ answer' = [kind |-> why, query |-> query, held |-> held]
    /\ UNCHANGED issued

\* Is there another page?
HasNext(offset, hits, total) == offset + hits < total

\* One page from the offset, and a cursor to the next one if there is more.
\* seen is what the pages before have shown, since what index and for which query.
Answer(query, offset, walk) ==
    \E ranking \in Rankings(ResolveOrder(query.sort, query.text), WordsOf(query.text),
                            Found(index, query)) :
        LET total == Total(index, query)
            hits == Page(ranking, total, offset, Limit(query))
            next == [offset |-> offset + Len(hits), hash |-> QueryHash(query)]
            grown == [walk EXCEPT !.seen = @ \o hits]
            more == HasNext(offset, Len(hits), total)
        IN /\ answer' = [kind |-> "page", query |-> query, hits |-> hits, total |-> total,
                         offset |-> offset, walk |-> grown, more |-> more]
           /\ issued' = IF more THEN issued \cup {[cursor |-> next, walk |-> grown]} ELSE issued

Search(query, held) ==
    /\ requests < MaxRequests
    /\ requests' = requests + 1
    /\ IF ~ValidateQuery(query) THEN RefuseSearch(query, held, "invalid_filter")
       ELSE IF held = NoCursor
       THEN Answer(query, 0, [query |-> query, since |-> changes, seen |-> <<>>])
       ELSE IF held.cursor.hash # QueryHash(query) THEN RefuseSearch(query, held, "invalid_cursor")
       ELSE Answer(query, held.cursor.offset, held.walk)
    /\ UNCHANGED <<index, changes>>

FirstSearch == \E query \in Queries : Search(query, NoCursor)

\* The next page: the client sends a cursor it holds with the query it came with.
NextSearch == \E held \in issued : Search(held.walk.query, held)

\* A client sends a cursor with another query: another tab, an edited address.
OtherQuery ==
    \E held \in issued : \E query \in Queries \ {held.walk.query} : Search(query, held)

SearchNext == ChangeIndex \/ FirstSearch \/ NextSearch \/ OtherQuery

SearchSpec == SearchInit /\ [][SearchNext]_searchVars

----------------------------------------------------------------------------
(* Properties *)

Paged == answer.kind = "page"

\* Every document of the list, written as the positions of the ids in it.
Reference(query) ==
    LET found == Found(index, query)
        order == ResolveOrder(query.sort, query.text)
        Rank(d) == 1 + Cardinality({e \in found : Ahead(order, WordsOf(query.text), e, d)})
    IN [d \in found |-> Rank(d)]

\* The pages of a walk through an index that did not change, laid end to end,
\* are the whole list up to the engine's bound: each document once, at its place.
WalkSeesEveryHit ==
    Paged /\ answer.walk.since = changes =>
        LET seen == answer.walk.seen
            place == Reference(answer.query)
        IN /\ \A i \in DOMAIN seen : seen[i] \in DOMAIN place /\ place[seen[i]] = i
           /\ ~answer.more => Len(seen) = answer.total

\* A cursor is only followed for a query that lists the same documents in the
\* same order as the query the walk began with.
CursorsKeepTheirList ==
    Paged => /\ Reference(answer.query) = Reference(answer.walk.query)
             /\ Limit(answer.query) = Limit(answer.walk.query)

Meaning(sort, blank) ==
    IF sort \in {"", "relevance"} THEN IF blank THEN "newest" ELSE "relevance" ELSE sort

\* Two queries that differ only by blanks around the text, or by naming the
\* order that an omitted one stands for, accept each other's cursors.
EquivalentQueriesShareCursors ==
    answer.kind = "invalid_cursor" =>
        LET p == answer.query
            q == answer.held.walk.query
            Blank(x) == WordsOf(x.text) = {}
        IN ~ /\ <<p.filters, Limit(p), Trim(p.text)>> = <<q.filters, Limit(q), Trim(q.text)>>
             /\ Meaning(p.sort, Blank(p)) = Meaning(q.sort, Blank(q))

\* Whatever is looked for, and however, only documents that pass every filter
\* are shown.
FiltersAlwaysApply ==
    Paged => \A i \in DOMAIN answer.hits : BuildFilters(answer.query, answer.hits[i])

\* Within one page a text that is an identifier between blanks, when some
\* document shown carries it, shows the documents that carry it and no other.
IdentifiersAreExact ==
    Paged => LET text == answer.query.text
                 shown == {answer.hits[i] : i \in DOMAIN answer.hits}
             IN \A i \in DOMAIN text :
                  /\ text[i] \in Identifiers /\ \A j \in DOMAIN text \ {i} : text[j] = Space
                  /\ \E d \in shown : text[i] \in d.ids
                  => \A d \in shown : text[i] \in d.ids

\* A page that promises another one shows something, also when the index has
\* shrunk below the cursor: a client that follows cursors does not go round.
WalksGetOn == Paged /\ answer.more => answer.hits # <<>>

SearchTypeOK ==
    /\ index \subseteq Documents /\ IsFiniteSet(index) /\ OneEach(index)
    /\ changes \in Nat /\ requests \in Nat

\* Searches: filters and identifiers apply whatever the text, pages joined by
\* cursors are the whole list without gaps or repeats, and a cursor is accepted
\* exactly for the queries whose list it belongs to.
SearchWalksAreComplete ==
    /\ SearchTypeOK /\ WalkSeesEveryHit /\ WalksGetOn
    /\ CursorsKeepTheirList /\ EquivalentQueriesShareCursors
    /\ FiltersAlwaysApply /\ IdentifiersAreExact

=============================================================================
