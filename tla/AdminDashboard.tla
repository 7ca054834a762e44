----------------------------- MODULE AdminDashboard -----------------------------
(***************************************************************************)
(* AdminDashboard with its fifth tab, PlayerManagement: pages and filters   *)
(* whose every change re-runs the effects that ask for players, and a      *)
(* fallback from the paginated request to a second key and to the whole    *)
(* list, in the service and then in the panel.                             *)
(***************************************************************************)
EXTENDS AdminPanels

NoKey == <<"none", 0, "all">>

Paginated(p, f) == <<"players-paginated", p, f>>
\* testApiEndpoints asks for the first page of ten, kept apart as page 0.
Probe == Paginated(0, "all")
\* The second attempt of getPaginatedPlayers, under a key of its own.
Regular(k) == <<"players-regular", k[2], k[3]>>
\* getPlayers, the fallback of the panel.
Whole(f) == <<"players-filter", 1, f>>

Fallback(k) ==
  CASE k[1] = "players-paginated" -> Regular(k)
    [] k[1] = "players-regular"   -> Whole(k[3])
    [] OTHER -> NoKey

\* The keys are those of the panels' lists; what a service clears is every list of
\* its entity and no other.
ASSUME PanelAssumption ==
  /\ MAX_RETRIES \in Nat \ {0}
  /\ {AllTeams, Stadiums, Probe} \subseteq Keys
  /\ \A f \in Filters :
       {Coaches(f), Seasons(f), Paginated(1, f), Paginated(2, f)} \subseteq Keys
  /\ \A k \in Keys : Fallback(k) \in Keys \cup {NoKey}
  /\ \A k \in Keys : /\ Entity(k) \in {"team", "coach", "season", "stadium", "player"}
                     /\ k[1] \in Service(Entity(k)).clears

\* Where the attempts come to rest: a key that is cached or asked for.
Rest(c, k) ==
  IF k = NoKey \/ ~Refused(c, k) THEN k
  ELSE IF Fallback(k) = NoKey \/ ~Refused(c, Fallback(k)) THEN Fallback(k)
  ELSE IF Fallback(Fallback(k)) = NoKey \/ ~Refused(c, Fallback(Fallback(k)))
       THEN Fallback(Fallback(k))
  ELSE NoKey

\* The first of testApiEndpoints' requests that is not answered from the cache;
\* the whole list comes after the probe, however that went.
ProbeRest(c) ==
  IF Awaited(c, Probe) THEN Probe
  ELSE IF ~Hit(c, Probe) /\ Awaited(c, Regular(Probe)) THEN Regular(Probe)
  ELSE Whole("all")

\* What the panel shows once the attempts for its rows rest at r.
Show(c, r) ==
  /\ list' = IF r = NoKey THEN Miss ELSE IF Hit(c, r) THEN c[r] ELSE list
  /\ loading' = (r # NoKey /\ Awaited(c, r))

\* fetchPlayers for the key k, beside the other keys the handler asks for.
FetchPlayers(c, k, others, overtaken) ==
  LET r == Rest(c, k) IN
    /\ GetWithCache(c, ({r} \cup others) \ {NoKey}, overtaken)
    /\ Show(c, r)
    /\ waits' = waits \cup {x \in {r} \ {NoKey} : Awaited(c, x)}
    /\ UNCHANGED options

\* A render with a new page or filter re-creates fetchPlayers, and with it every
\* effect that depends on it runs; under a filter the page goes back to one,
\* which is a second such render.
Render(p, f, asked) ==
  LET again == f # "all" /\ p # 1
      rows  == {Rest(cache, k) : k \in asked \cup {Paginated(p, f)} \cup
                                       (IF again THEN {Paginated(1, f)} ELSE {})}
      r     == Rest(cache, Paginated(IF again THEN 1 ELSE p, f)) IN
    /\ filter' = f
    /\ pageNo' = IF again THEN 1 ELSE p
    /\ GetWithCache(cache, (rows \cup {ProbeRest(cache), AllTeams}) \ {NoKey}, {})
    /\ Show(cache, r)
    /\ waits' = (waits \cup {x \in (rows \cup {AllTeams}) \ {NoKey} : Awaited(cache, x)})
    /\ options' = IF Hit(cache, AllTeams) THEN options \cup {"team"} ELSE options
    /\ UNCHANGED <<own, tab, visits, form, writes>>
    /\ Within

MountPlayers ==
  /\ visits < Len(Visits) /\ visits' = visits + 1
  /\ "player" \in Visits[visits'] /\ (tab # "player" \/ visits = 0)
  /\ tab' = "player"
  /\ LET r == Rest(cache, Paginated(1, "all")) IN
       /\ GetWithCache(cache, ({r, ProbeRest(cache), AllTeams}) \ {NoKey}, {})
       /\ list' = IF r # NoKey /\ Hit(cache, r) THEN cache[r] ELSE Miss
       /\ loading' = (r # NoKey /\ Awaited(cache, r))
       /\ waits' = {x \in {r, AllTeams} \ {NoKey} : Awaited(cache, x)}
  /\ options' = IF Hit(cache, AllTeams) THEN {"team"} ELSE {}
  /\ form' = Closed /\ filter' = "all" /\ pageNo' = 1
  /\ writes' = [i \in Writes |-> [writes[i] EXCEPT !.mine = FALSE]]
  /\ UNCHANGED own
  /\ Within

\* What follows the await of a request for players that was answered.
PlayersFetched(k) ==
  /\ Entity(k) = "player" /\ pending[k].stage = "ok"
  /\ LET c == Filled(k)
         then == IF k \in {Probe, Regular(Probe)} /\ Sendable(c, Whole("all"))
                 THEN {Whole("all")} ELSE {} IN
       /\ cache' = c
       /\ pending' = Asked(Released(k), then)
       /\ gets' = gets + Cardinality(then)
       /\ raced' = raced \ then
  /\ list' = IF k \in waits THEN pending[k].data ELSE list
  /\ loading' = (loading /\ k \notin waits)
  /\ waits' = waits \ {k}
  /\ UNCHANGED <<db, full, own, mishaps, tab, visits, options, form, filter, pageNo, writes>>
  /\ Within

\* ... or failed: the next attempt, for the panel if it waits for this one.
PlayersNotFetched(k) ==
  /\ Entity(k) = "player" /\ pending[k].stage = "lost"
  /\ LET r == Rest(cache, Fallback(k))
         send == {x \in {r} \ {NoKey} : Sendable(cache, x)} IN
       /\ pending' = Asked(Released(k), send)
       /\ gets' = gets + Cardinality(send)
       /\ raced' = raced \ send
       /\ IF k \in waits
          THEN /\ Show(cache, r)
               /\ waits' = (waits \ {k}) \cup {x \in {r} \ {NoKey} : Awaited(cache, x)}
          ELSE UNCHANGED <<list, loading, waits>>
  /\ UNCHANGED <<db, cache, full, own, mishaps, tab, visits, options, form, filter, pageNo, writes>>
  /\ Within

-----------------------------------------------------------------------------
\* PlayerManagement: filters and pages.

HandleFilterChange == Here("player") /\ \E f \in Filters \ {"all"} : Render(pageNo, f, {})
\* fetchPlayers of this render, beside the page change.
HandleFilterApply ==
  /\ Here("player")
  /\ IF pageNo # 1
     THEN Render(1, filter, {Paginated(pageNo, filter)})
     ELSE /\ FetchPlayers(cache, Paginated(1, filter), {}, {})
          /\ UNCHANGED <<own, tab, visits, form, filter, pageNo, writes>>
          /\ Within
HandleFilterReset == Here("player") /\ Render(1, "all", {})
\* The bounds of handlePageChange, and the pagination that is drawn.
HandlePageChange ==
  /\ RowsShown("player")
  /\ \E p \in {1, 2} \ {pageNo} : Render(p, filter, {})
HandlePageSizeChange == RowsShown("player") /\ pageNo # 1 /\ Render(1, filter, {})

\* The form; submitting shows the spinner.
PlayerInput  == TypeInto("player")
PlayerSelect == Choose("player", {"team"})
EditPlayer   == EditRow("player")
CreateClick  == form' = [Closed EXCEPT !.open = TRUE] /\ FormOnly("player")
CancelPlayer == CancelForm("player")
HandleFormSubmit ==
  /\ Here("player") /\ form.open /\ form.filled
  /\ loading' = TRUE
  /\ Start("player", IF form.editing THEN "update" ELSE "create", Paginated(pageNo, filter))
  /\ UNCHANGED <<cacheVars, tab, visits, list, options, form, filter, pageNo, waits>>
HandleDeleteClick == Delete("player", Paginated(pageNo, filter))

PlayerSaved ==
  \E i \in Writes :
    LET w == writes[i] gone == PlayerService.clears c == Cleared(gone) IN
      /\ w.entity = "player" /\ w.stage = "ok"
      /\ writes' = [writes EXCEPT ![i].stage = "done"]
      /\ own' = [own EXCEPT !["player"] = IF w.data > @ THEN w.data ELSE @]
      /\ IF w.mine
         THEN /\ FetchPlayers(c, w.key, {}, Overtaken(gone))
              /\ form' = IF w.op = "delete" THEN form ELSE Closed
         ELSE /\ GetWithCache(c, {Rest(c, w.key)} \ {NoKey}, Overtaken(gone))
              /\ UNCHANGED <<list, loading, options, waits, form>>
      /\ UNCHANGED <<tab, visits, filter, pageNo>>
      /\ Within

\* The finally of handleFormSubmit; a deletion has no spinner.
PlayerNotSaved ==
  \E i \in Writes :
    /\ writes[i].entity = "player" /\ Failed(writes[i])
    /\ writes' = [writes EXCEPT ![i].stage = "done"]
    /\ loading' = (loading /\ ~(writes[i].mine /\ writes[i].op # "delete"))
    /\ UNCHANGED <<cacheVars, tab, visits, list, options, form, filter, pageNo, waits>>

PlayerManagement ==
  \/ MountPlayers \/ HandleFilterChange \/ HandleFilterApply \/ HandleFilterReset
  \/ HandlePageChange \/ HandlePageSizeChange
  \/ PlayerInput \/ PlayerSelect \/ EditPlayer \/ CreateClick \/ CancelPlayer \/ HandleFormSubmit
  \/ HandleDeleteClick \/ PlayerSaved \/ PlayerNotSaved

DashboardNext ==
  \/ Traffic
  \/ \E k \in DOMAIN pending : PlayersFetched(k) \/ PlayersNotFetched(k)
  \/ AdminPanels
  \/ PlayerManagement

DashboardSpec == AdminInit /\ [][DashboardNext]_adminVars

-----------------------------------------------------------------------------
\* The spinner of a panel never outlives what it stands for: while isLoading is
\* set, a request for the panel's list is in flight whose answer it awaits, or
\* the submission that set it is; whatever fetches, filters, fallbacks and tabs
\* did meanwhile.  (With the type invariant.)
SpinnerHasRequest ==
  /\ AdminTypeOK
  /\ loading =>
       \/ \E k \in waits : Entity(k) = tab /\ InFlight(k)
       \/ \E i \in Writes : writes[i].mine /\ tab = "player" /\ writes[i].stage # "done"
=============================================================================
