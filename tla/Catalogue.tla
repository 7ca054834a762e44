-------------------------------- MODULE Catalogue --------------------------------
(***************************************************************************)
(* The pages that show the catalogue: lists (teams, players, coaches,       *)
(* stadiums, schedule, products, the latest matches), the pages of one      *)
(* thing, and the page of one match. The answers of the server are cached   *)
(* by ApiService for some minutes, of every service under keys of its own.  *)
(***************************************************************************)
EXTENDS PageShell

CONSTANTS
  Items,       \* what there is of each kind: a sequence of records, the fields that searches read
  Words,       \* what may be typed into a search field
  Things,      \* the pages of one thing: pairs of a kind and an id
  MaxVersions  \* bound on the changes of the match shown

Kinds == {"teams", "players", "coaches", "stadiums", "schedule", "latest", "products"}
\* A time and a price are numbers.
ASSUME CatalogueAssumption ==
  /\ Kinds \subseteq DOMAIN Items /\ "" \in Words /\ MaxVersions \in Nat
  /\ \A kind \in Kinds : Items[kind] \in Seq(ToSet(Items[kind]))
  /\ \A k \in DOMAIN Items["schedule"] : Items["schedule"][k].date \in Nat
  /\ \A k \in DOMAIN Items["products"] :
       Items["products"][k].price \in Nat /\ Items["products"][k].featured \in BOOLEAN
  /\ \A t \in Things : t[1] \in {"team", "player", "coach", "stadium"} /\ t[2] \in Nat

-----------------------------------------------------------------------------
\* What each list searches, filters by a choice, and sorts by.

Has(i, q, attributes) == q = "" \/ \E a \in attributes : i[a] = q
TeamFound(i, q) == Has(i, q, {"name", "city", "league"})
PlayerFound(i, q) == Has(i, q, {"name", "position", "nationality"})
CoachFound(i, q, choice) ==
  Has(i, q, {"name", "nationality", "role", "style"}) /\ (choice = "" \/ i.nationality = choice)
StadiumFound(i, q) == Has(i, q, {"name", "city", "country", "address"})
MatchFound(i, q, choice) ==
  Has(i, q, {"home", "away", "stadium"}) /\ (choice = "" \/ i.status = choice)
ProductFound(i, q, choice) ==
  Has(i, q, {"name", "description", "category", "team"}) /\ (choice = "" \/ i.category = choice)
\* The latest matches are those that are over or to come.
Latest(i) == ~i.live

Found(kind, i, q, choice) ==
  CASE kind = "teams" -> TeamFound(i, q)
    [] kind = "players" -> PlayerFound(i, q)
    [] kind = "coaches" -> CoachFound(i, q, choice)
    [] kind = "stadiums" -> StadiumFound(i, q)
    [] kind = "schedule" -> MatchFound(i, q, choice)
    [] kind = "latest" -> Latest(i)
    [] kind = "products" -> ProductFound(i, q, choice)
\* Most recent first; the products as chosen (dear or cheap first, or featured).
Before(kind, by, i, j) ==
  CASE kind = "schedule" -> i.date > j.date
    [] kind = "products" /\ by = "price-low" -> i.price < j.price
    [] kind = "products" /\ by = "price-high" -> i.price > j.price
    [] kind = "products" /\ by = "featured" -> i.featured /\ ~j.featured
    [] OTHER -> FALSE
\* sort is stable: each item goes before the first that it belongs before, behind its
\* equals.
Inserted(kind, by, s, i) ==
  LET later == {k \in DOMAIN s : Before(kind, by, i, s[k])} IN
    InsertAt(s, IF later = {} THEN Len(s) + 1 ELSE Min(later), i)
Sorted(kind, by, s) ==
  LET sorted[k \in 0 .. Len(s)] == IF k = 0 THEN <<>> ELSE Inserted(kind, by, sorted[k - 1], s[k])
  IN sorted[Len(s)]
Searched(kind, items, q, choice, by) ==
  Sorted(kind, by, Keep(items, {i \in ToSet(items) : Found(kind, i, q, choice)}))

\* What the field for the choice offers: "" for all.
Attribute(kind) ==
  CASE kind = "coaches" -> {"nationality"} [] kind = "products" -> {"category"} [] OTHER -> {}
Statuses == {"live", "scheduled", "completed", "postponed"}
Offer(kind, items) ==
  {""} \cup IF kind = "schedule" THEN Statuses
            ELSE {items[k][a] : k \in DOMAIN items, a \in Attribute(kind)}

\* What the card of a match says of it: on the schedule, a score, the time, or nothing;
\* on the dashboard FINAL unless the status is known to be another.
ScheduleCard(i) ==
  CASE i.status = "completed" -> "final" [] i.status = "live" -> "live"
    [] i.status = "scheduled" -> "time" [] OTHER -> "nothing"
LatestCard(i) ==
  CASE i.status = "live" -> "live" [] i.status = "scheduled" -> "upcoming"
    [] i.status = "cancelled" -> "cancelled" [] OTHER -> "final"
Card(kind, i) == IF kind = "schedule" THEN ScheduleCard(i) ELSE LatestCard(i)

-----------------------------------------------------------------------------
\* The page of one match, as it is opened.

\* A version of the match: a number of each side, which stands for any of its
\* statistics, and whether it is live.
Version(home, away, live) == [home |-> home, away |-> away, live |-> live]
MatchMounted ==
  [details |-> None, cached |-> None, loading |-> TRUE, refreshing |-> FALSE, error |-> FALSE,
   auto |-> FALSE, asked |-> TRUE, tab |-> "stats", next |-> None, changing |-> FALSE]
\* ... from a card that said so of it.
MatchOpened(card, clicks) ==
  MatchMounted ++ [name |-> "match", clicks |-> clicks, card |-> card, now |-> Version(0, 0, card = "live")]

-----------------------------------------------------------------------------
\* A list.

ListMounted(kind) ==
  [kind |-> kind, items |-> <<>>, shown |-> <<>>, query |-> "", choice |-> "", by |-> "featured",
   loading |-> TRUE, error |-> FALSE, failed |-> FALSE]
ListInit ==
  \E kind \in Kinds :
    page = ListMounted(kind) ++ [name |-> "list", clicks |-> 0, there |-> Items[kind], cached |-> None]

\* Someone else adds or deletes.
ListChanges == Click([there |-> IF page.there = <<>> THEN Items[page.kind] ELSE Tail(page.there)])
ListCacheExpires == page.cached # None /\ Change([cached |-> None])

\* The effect on the list, the query and the choice.
Refiltered(items, q, choice, by) ==
  [items |-> items, query |-> q, choice |-> choice, by |-> by,
   shown |-> Searched(page.kind, items, q, choice, by)]
\* Wrong: the effect does not depend on the list.
FetchedNotFiltered(items) == [items |-> items]
ListFetched(items) == Refiltered(items, page.query, page.choice, page.by)
\* The products are not asked for, and never fail.
ListAnswered ==
  /\ page.loading
  /\ \/ LET items == IF page.cached = None THEN page.there ELSE page.cached IN
          Change(ListFetched(items) ++ [loading |-> FALSE, failed |-> FALSE, cached |-> items])
     \/ page.kind # "products" /\ page.cached = None
        /\ Change([loading |-> FALSE, error |-> TRUE, failed |-> TRUE])

\* What a page shows below its sidebar; the latest matches alone tell an empty answer
\* from an empty list.
ListPanel ==
  CASE page.loading -> "spinner"
    [] ~page.loading /\ page.error -> "error"
    [] ~page.loading /\ ~page.error /\ (IF page.kind = "latest" THEN page.items ELSE page.shown) = <<>> -> "empty"
    [] OTHER -> "items"
\* The fetch of coaches, stadiums and schedule does not clear the error.
Clears(kind) == kind \in {"teams", "players", "latest", "products"}
ListTryAgain ==
  /\ ListPanel = "error"
  /\ Click([loading |-> TRUE, error |-> page.error /\ ~Clears(page.kind)])
TypeQuery(q) ==
  /\ ListPanel \in {"items", "empty"} /\ page.kind # "latest" /\ q # page.query
  /\ Click(Refiltered(page.items, q, page.choice, page.by))
ChooseFilter(c) ==
  /\ ListPanel \in {"items", "empty"} /\ c # page.choice
  /\ Click(Refiltered(page.items, page.query, c, page.by))
ChooseSort(by) ==
  /\ ListPanel \in {"items", "empty"} /\ page.kind = "products" /\ by # page.by
  /\ Click(Refiltered(page.items, page.query, page.choice, by))
\* A card of a match leads to its page; the products' to that of module Shop, and the
\* others nowhere.
OpenMatch(k) ==
  /\ ListPanel = "items" /\ page.kind \in {"schedule", "latest"} /\ k \in DOMAIN page.shown
  /\ CanClick
  /\ page' = MatchOpened(Card(page.kind, page.shown[k]), page.clicks + 1)
\* The page is left and opened again.
ListReopened == Click(ListMounted(page.kind))

ListNext ==
  /\ On("list")
  /\ \/ ListChanges \/ ListCacheExpires \/ ListAnswered \/ ListTryAgain \/ ListReopened
     \/ \E q \in Words : TypeQuery(q)
     \/ \E k \in DOMAIN page.shown : OpenMatch(k)
     \/ \E c \in Offer(page.kind, page.items) : ChooseFilter(c)
     \/ \E by \in {"price-low", "price-high", "featured"} : ChooseSort(by)

-----------------------------------------------------------------------------
\* One thing.

\* What a page asks for at first: a team's page for its players as well.
Asks(t) == IF t[1] = "team" THEN {t, <<"players", t[2]>>} ELSE {t}
\* A player's page then asks for the team that has the player's own id.
AsksNext(t) == IF t[1] = "player" THEN {<<"team", t[2]>>} ELSE {}
\* Wrong: what the page showed stays until the answer.
ThingOpenedOverOther(t) ==
  [thing |-> t, asked |-> Asks(t), then |-> AsksNext(t), loading |-> FALSE, error |-> FALSE,
   got |-> IF page.got = None THEN {} ELSE page.got]
\* A page per thing: each is mounted anew.
ThingOpened(t) ==
  [thing |-> t, asked |-> Asks(t), then |-> AsksNext(t), loading |-> TRUE, error |-> FALSE, got |-> {}]
ThingInit ==
  \E t \in Things :
    page = [name |-> "thing", clicks |-> 0, thing |-> t, asked |-> Asks(t), then |-> AsksNext(t),
            loading |-> TRUE, error |-> FALSE, got |-> {}]

ThingAnswered(r) ==
  /\ r \in page.asked
  /\ LET asked == page.asked \ {r} IN
       IF asked # {} THEN Change([asked |-> asked, got |-> page.got \cup {r}])
       ELSE Change([asked |-> page.then, then |-> {}, got |-> page.got \cup {r}, loading |-> page.then # {}])
\* The first failure ends the page; the other answer is not waited for.
ThingFailed == page.asked # {} /\ Change([asked |-> {}, loading |-> FALSE, error |-> TRUE])
ThingPanel == IF page.loading THEN "spinner" ELSE IF page.error THEN "error" ELSE "thing"
ThingTryAgain == ThingPanel = "error" /\ Click(ThingOpened(page.thing))
\* A link to another one, at any time.
FollowLink(t) == t # page.thing /\ Click(ThingOpened(t))

ThingNext ==
  /\ On("thing")
  /\ \/ ThingFailed \/ ThingTryAgain
     \/ \E r \in page.asked : ThingAnswered(r)
     \/ \E t \in Things : FollowLink(t)

-----------------------------------------------------------------------------
\* One match.

MatchTabs == {"stats", "lineup", "info"}
MatchInit == page = MatchOpened("live", 0)
MatchGoesOn ==
  /\ page.now.live /\ page.now.home + page.now.away < MaxVersions
  /\ \E live \in BOOLEAN, h \in {0, 1} :
       Change([now |-> Version(page.now.home + h, page.now.away + (1 - h), live)])
MatchCacheExpires == page.cached # None /\ Change([cached |-> None])

\* Wrong: what is asked for is not what the cache holds.
DetailsPastCache == page.now
\* getMatchDetails answers from the cache for five minutes, also when asked to refresh.
Details == IF page.cached = None THEN page.now ELSE page.cached
MatchAnswered ==
  /\ page.asked
  /\ \/ Change([asked |-> FALSE, loading |-> FALSE, refreshing |-> FALSE, details |-> Details,
                cached |-> IF page.cached = None THEN Details ELSE page.cached])
     \/ page.cached = None
        /\ Change([asked |-> FALSE, loading |-> FALSE, refreshing |-> FALSE, error |-> TRUE])

\* An error is never cleared: after a refresh that failed the match is gone.
MatchPanel == IF page.loading THEN "spinner" ELSE IF page.error THEN "error" ELSE "match"
\* The live controls.
LiveControls == MatchPanel = "match" /\ page.details.live
Refreshes == [refreshing |-> TRUE, asked |-> TRUE]
RefreshStats == LiveControls /\ ~page.refreshing /\ Click(Refreshes)
ToggleAuto == LiveControls /\ Click([auto |-> ~page.auto])
\* The interval runs with the box ticked or not, because isLive alone starts it.
IntervalRuns == page.details # None /\ page.details.live /\ ~page.error /\ ~page.refreshing
AutoRefreshes == IntervalRuns /\ Change(Refreshes)
\* The tab is changed 200 ms after the click; the buttons rest until 100 ms later.
ChooseMatchTab(t) ==
  /\ MatchPanel = "match" /\ ~page.changing /\ t # page.tab
  /\ Click([changing |-> TRUE, next |-> t])
MatchTabChanges == page.next # None /\ Change([tab |-> page.next, next |-> None])
MatchTabSettles == page.changing /\ page.next = None /\ Change([changing |-> FALSE])

\* "Refresh Match" loads the page again, and with it an empty cache.
MatchReloaded == MatchPanel = "match" /\ Click(MatchMounted)

\* The statistics tab: ten rows, each with a bar for each side.
MoreIsBetter == {"Shots", "Shots on target", "Possession", "Passes", "Pass accuracy", "Corners"}
LessIsBetter == {"Fouls", "Yellow cards", "Red cards", "Offsides"}
Better(label, a, b) ==
  IF label \in MoreIsBetter THEN <<a > b, b > a>>
  ELSE IF label \in LessIsBetter THEN <<a < b, b < a>> ELSE <<FALSE, FALSE>>
StatRow(label, a, b) ==
  LET better == Better(label, a, b)
      total == IF a + b = 0 THEN 1 ELSE a + b
      colour(side) == IF better[side] THEN "green" ELSE IF better[3 - side] THEN "red" ELSE "team" IN
    [trophy |-> better, percent |-> <<(100 * a) \div total, (100 * b) \div total>>,
     colour |-> <<colour(1), colour(2)>>]
StatRows ==
  [l \in MoreIsBetter \cup LessIsBetter |-> StatRow(l, page.details.home, page.details.away)]

MatchNext ==
  /\ On("match")
  /\ \/ MatchGoesOn \/ MatchCacheExpires \/ MatchAnswered \/ RefreshStats \/ ToggleAuto \/ AutoRefreshes
     \/ MatchTabChanges \/ MatchTabSettles \/ MatchReloaded
     \/ \E t \in MatchTabs : ChooseMatchTab(t)

-----------------------------------------------------------------------------
\* Lists change on the server, answers come from the cache or fail, pages are opened
\* over one another: a list shows exactly those of the things fetched last that its
\* search, choice and order ask for, and an error over them only while the last
\* fetch failed, except on the pages that never clear it (coaches/page.tsx:66);
\* the page of one thing shows that thing with all that belongs to it or nothing.
ShownIsFetched ==
  /\ On("list") =>
       /\ page.shown = Searched(page.kind, page.items, page.query, page.choice, page.by)
       /\ ToSet(page.shown) = {i \in ToSet(page.items) : Found(page.kind, i, page.query, page.choice)}
       /\ \A k \in DOMAIN page.shown : \A j \in 1 .. (k - 1) : ~Before(page.kind, page.by, page.shown[k], page.shown[j])
       /\ ToSet(page.items) \subseteq ToSet(Items[page.kind])
       /\ ListPanel = "error" /\ ~page.failed => ~Clears(page.kind)
       /\ ListPanel = "items" => ~page.failed /\ page.cached \in {None, page.items}
  /\ On("thing") => (ThingPanel = "thing" => page.got = Asks(page.thing) \cup AsksNext(page.thing))

\* The details of a match are asked for every thirty seconds, cached for five
\* minutes, and may fail: nobody sees a match later than the cache has it, and so
\* later than others who look at it from the same browser; one refresh is under way
\* at a time; and none once the match shown has ended or the page shows its error. A
\* match that its card called over has no live controls; and the bar that is green
\* is the longer one exactly where more is better, with the other red.
MatchAsCached ==
  On("match") =>
    /\ page.details # None /\ page.cached # None => page.details = page.cached
    /\ page.asked <=> (page.loading \/ page.refreshing)
    /\ page.refreshing => page.details.live /\ ~page.error
    /\ page.card # "live" => ~LiveControls
    /\ MatchPanel = "match" /\ page.tab = "stats" =>
         \A l \in DOMAIN StatRows : LET row == StatRows[l] IN
           /\ row.percent[1] + row.percent[2] \in {0, 99, 100}
           /\ \A s \in {1, 2} :
                /\ row.trophy[s] <=> row.percent[s] # row.percent[3 - s]
                                    /\ (row.percent[s] > row.percent[3 - s] <=> l \in MoreIsBetter)
                /\ row.colour[s] = "green" <=> row.colour[3 - s] = "red"
=============================================================================
