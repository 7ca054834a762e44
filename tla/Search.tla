--------------------------------- MODULE Search ---------------------------------
(***************************************************************************)
(* The search page (app/search/page.tsx) with its box (SearchAutocomplete), *)
(* its filters and SearchService. A search asks for results and then for    *)
(* analytics; several may be under way; the address follows the last one    *)
(* answered and is itself a reason to search.                               *)
(***************************************************************************)
EXTENDS PageShell

CONSTANTS
  Queries,      \* what may be typed
  ShortQueries, \* the queries of one character among them
  TotalPages,   \* pages of a search that finds something
  MaxRecent,    \* searches that the history keeps (10)
  Histories     \* what earlier visits may have stored

\* null is no query, and no results.
ResultSet == [query : Queries, page : Nat, filtered : BOOLEAN, some : BOOLEAN]
ASSUME SearchAssumption ==
  /\ ShortQueries \subseteq Queries /\ TotalPages \in Nat \ {0} /\ MaxRecent \in Nat
  /\ None \notin Queries /\ None \notin ResultSet
  /\ \A history \in Histories : history \in Seq(Queries) /\ IsInjective(history)

\* What a search brought: None, or whose results these are; some is FALSE if they
\* are none.
Results(query, pg, filtered, some) ==
  [query |-> query, page |-> pg, filtered |-> filtered, some |-> some]

\* saveSearch: in front, once, and no more than the history keeps.
Saved(query, recent) ==
  LET all == <<query>> \o Keep(recent, ToSet(recent) \ {query}) IN
    SubSeq(all, 1, Min({MaxRecent, Len(all)}))

SearchAsk(query, pg, filtered) ==
  [at |-> "results", query |-> query, page |-> pg, filtered |-> filtered, found |-> None]
\* performSearch; every caller passes a query. It is memoised and saves the query in
\* front of `known`: the history of the render in which filters or order last changed.
Perform(query, pg, filtered) ==
  [loading |-> TRUE, error |-> FALSE,
   recent |-> Saved(query, page.known), stored |-> Saved(query, page.known),
   asked |-> Append(page.asked, SearchAsk(query, pg, filtered))]
\* ... by a caller that sets the filters along with it.
PerformAnew(query, pg, filtered) ==
  [known |-> Saved(query, page.known)] ++ Perform(query, pg, filtered)

\* The page is opened with or without a query in its address: the first performSearch
\* knows of no history.
SearchInit ==
  \E q \in Queries \cup {None}, history \in Histories :
    LET kept == IF q = None THEN history ELSE Saved(q, <<>>) IN
      page = [name |-> "search", clicks |-> 0,
              query |-> q, results |-> None, pages |-> 0, loading |-> q # None, error |-> FALSE,
              address |-> q, goes |-> None,
              panel |-> FALSE, filters |-> FALSE,
              text |-> q, typing |-> FALSE, suggested |-> None, asking |-> {},
              recent |-> kept, stored |-> kept, known |-> <<>>, boxRecent |-> history,
              asked |-> IF q = None THEN <<>> ELSE <<SearchAsk(q, 1, FALSE)>>]

\* What the page shows below the box.
SearchPanel ==
  CASE page.loading -> "spinner"
    [] ~page.loading /\ page.error -> "error"
    [] ~page.loading /\ ~page.error /\ page.query # None ->
         IF page.results # None /\ page.results.some THEN "results" ELSE "nothing found"
    [] OTHER -> "ideas"

\* The pages that the pagination offers: the first, those around the current one
\* and the last.
PageButtons ==
  IF page.pages <= 1 THEN {}
  ELSE LET current == page.results.page IN
         (((current - 2) .. (current + 2)) \cap (1 .. page.pages))
         \cup (IF current > 3 THEN {1} ELSE {})
         \cup (IF current < page.pages - 2 THEN {page.pages} ELSE {})

-----------------------------------------------------------------------------
\* The box.

\* handleInputChange: the suggestions go if the text is too short; the timer of
\* the text before is cancelled.
Type(q) ==
  /\ page.text # q
  /\ Click([text |-> q, typing |-> q \notin ShortQueries,
            suggested |-> IF q \in ShortQueries THEN None ELSE page.suggested])
\* The timer runs out: fetchSuggestions.
Suggest ==
  /\ page.typing
  /\ Change([typing |-> FALSE, asking |-> page.asking \cup {page.text}])
\* ... and is answered, whatever the text is now.
Suggested(q) ==
  /\ q \in page.asking
  /\ \E got \in {q, None} : Change([asking |-> page.asking \ {q}, suggested |-> got])

\* handleSearch of the page.
HandleSearch(q, boxRecent) ==
  [text |-> q, typing |-> q # page.text /\ q \notin ShortQueries, query |-> q, boxRecent |-> boxRecent]
  ++ PerformAnew(q, 1, page.panel)
\* ... after handleSearch of the box, for the text, a suggestion or an earlier search:
\* the page's history is stored last.
Search(q) ==
  /\ q \in ({page.text, page.suggested} \ {None}) \cup ToSet(page.boxRecent)
  /\ Click(HandleSearch(q, Saved(q, page.boxRecent)))
\* ... for an earlier search that the page itself offers.
SearchRecent(q) ==
  SearchPanel = "ideas" /\ q \in ToSet(page.recent) /\ Click(HandleSearch(q, page.boxRecent))
\* clearRecentSearches of the page and of the box.
ClearRecent ==
  SearchPanel = "ideas" /\ page.recent # <<>> /\ Click([recent |-> <<>>, stored |-> <<>>])
ClearBoxRecent ==
  page.boxRecent # <<>> /\ Click([boxRecent |-> <<>>, stored |-> <<>>])

-----------------------------------------------------------------------------
\* Filters and pages.

ToggleFilters == Click([panel |-> ~page.panel])
ChangeFilters == page.panel /\ Click([filters |-> ~page.filters, known |-> page.recent])
\* handleSortChange, beside the results.
ChangeSort == page.results # None /\ page.results.some /\ Click([known |-> page.recent])
ApplyFilters ==
  page.panel /\ page.query # None /\ Click(Perform(page.query, 1, TRUE))
\* The button of the panel shows with a filter set, that of the page when nothing
\* was found.
ResetFilters ==
  /\ page.query # None
  /\ (page.panel /\ page.filters) \/ SearchPanel = "nothing found"
  /\ Click([filters |-> FALSE] ++ PerformAnew(page.query, 1, FALSE))
\* With or without the filters as the panel is open now, not as the page was found.
ChangePage(p) ==
  /\ p \in PageButtons /\ ~page.loading /\ page.query # None
  /\ Click(Perform(page.query, p, page.panel))
TryAgain ==
  SearchPanel = "error" /\ page.query # None /\ Click(Perform(page.query, 1, FALSE))

-----------------------------------------------------------------------------
\* SearchService.

\* globalSearch never fails: a query too short, or three failures, are nothing
\* found. advancedSearch throws.
Finds(r) ==
  {Results(r.query, r.page, r.filtered, some) :
     some \in IF r.query \in ShortQueries THEN {FALSE} ELSE {TRUE, FALSE}}
Throws(r) == r.filtered

\* The results of request k came: its analytics are asked for.
SearchFound(k) ==
  LET r == page.asked[k] IN
    /\ r.at = "results" /\ ~(r.filtered /\ r.query \in ShortQueries)
    /\ \E found \in Finds(r) :
         Change([asked |-> [page.asked EXCEPT ![k] = [r EXCEPT !.at = "analytics", !.found = found]]])
SearchFailed(k) ==
  LET r == page.asked[k] IN
    /\ r.at = "results" /\ Throws(r)
    /\ Change([loading |-> FALSE, error |-> TRUE, asked |-> RemoveAt(page.asked, k)])

\* Wrong: the query stays the one typed last.
AnsweredQueryKept(r) ==
  [results |-> r.found, pages |-> IF r.found.some THEN TotalPages ELSE 0, loading |-> FALSE, goes |-> r.query]
\* The analytics came or not: the page takes the query along with its results and
\* has the address changed.
SearchAnswer(r) ==
  [query |-> r.query, text |-> r.query, results |-> r.found,
   pages |-> IF r.found.some THEN TotalPages ELSE 0, loading |-> FALSE, goes |-> r.query]
SearchAnswered(k) ==
  LET r == page.asked[k] IN
    /\ r.at = "analytics"
    /\ Change([asked |-> RemoveAt(page.asked, k)] ++ SearchAnswer(r))

\* The address has changed: a query other than the page's is searched for.
AddressChanged ==
  /\ page.goes # None
  /\ IF page.goes # page.address /\ page.goes # page.query
     THEN Change([address |-> page.goes, goes |-> None, query |-> page.goes] ++ PerformAnew(page.goes, 1, FALSE))
     ELSE Change([address |-> page.goes, goes |-> None])

SearchNext ==
  /\ On("search")
  /\ \/ Suggest \/ ClearRecent \/ ClearBoxRecent \/ ToggleFilters \/ ChangeFilters \/ ChangeSort
     \/ ApplyFilters \/ ResetFilters \/ TryAgain \/ AddressChanged
     \/ \E q \in Queries : Type(q) \/ Suggested(q) \/ Search(q) \/ SearchRecent(q)
     \/ \E p \in 1 .. TotalPages : ChangePage(p)
     \/ \E k \in DOMAIN page.asked : SearchFound(k) \/ SearchFailed(k) \/ SearchAnswered(k)

-----------------------------------------------------------------------------
\* Searches overlap, end in any order, fail and start each other over the
\* address: results, and "nothing found", are only ever shown for the query that
\* the page names, and the history names no query twice (page.tsx:207 writes the
\* query back with its results for that).
SearchShowsItsQuery ==
  On("search") =>
    /\ SearchPanel \in {"results", "nothing found"} => page.results # None /\ page.results.query = page.query
    /\ \A i, j \in DOMAIN page.stored : i # j => page.stored[i] # page.stored[j]
=============================================================================
