------------------------------ MODULE AdminPanels ------------------------------
(***************************************************************************)
(* The administration: one tab of AdminDashboard is mounted at a time, the  *)
(* panel of teams, coaches, seasons or stadiums, over its service and the  *)
(* cache of ApiService.  An action is one handler up to its next await, or *)
(* what follows the await.  A panel that is no longer mounted sets no      *)
(* state, but what it started goes on: its write still clears the cache    *)
(* and still asks for the list.                                            *)
(***************************************************************************)
EXTENDS ApiCache, Sequences

CONSTANTS
  MaxGets,     \* bound: requests for lists, by the panel that is mounted
  MaxWrites,   \* bound: submissions and deletions
  Visits,      \* bound: which tabs are opened first, second, ...
  MAX_RETRIES  \* attempts of executeWithRetry

Filters == {"all", "some"}
Writes == 1 .. MaxWrites

\* No rows yet.
Miss == -1

VARIABLES
  tab,      \* activeTab
  visits,   \* tabs opened so far
  list,     \* the rows the panel shows, or Miss before the first answer
  options,  \* entities whose rows fill a select of the panel's forms
  loading,  \* isLoading
  form,     \* showForm, isEditing, and whether its required fields are filled
  filter,   \* the filter of the panel
  pageNo,   \* currentPage of the players
  waits,    \* the keys whose answer the mounted panel awaits
  writes    \* submissions and deletions

viewVars == <<tab, visits, list, options, loading, form, filter, pageNo, waits>>
adminVars == <<cacheVars, viewVars, writes>>

Closed == [open |-> FALSE, editing |-> FALSE, filled |-> FALSE]
NoWrite == [entity |-> "none", op |-> "none", key |-> <<"none", 0, "all">>, stage |-> "unused",
            data |-> 0, tries |-> 0, applied |-> 0, mine |-> FALSE]

AdminTypeOK ==
  /\ CacheTypeOK
  /\ tab \in Entities
  /\ list \in Data \cup {Miss}
  /\ options \subseteq Entities
  /\ loading \in BOOLEAN
  /\ form \in [open : BOOLEAN, editing : BOOLEAN, filled : BOOLEAN]
  /\ filter \in Filters /\ pageNo \in {1, 2}
  /\ waits \subseteq Keys
  /\ \A i \in Writes : writes[i].stage \in {"unused", "sent", "ok", "refused", "lost", "done"}

-----------------------------------------------------------------------------
\* The services: the key of each list, and for the writes how often they are
\* attempted (an upload once, the rest through executeWithRetry) and what they
\* clear.

AllTeams   == <<"all-teams", 1, "all">>
Coaches(f) == <<"coaches-filter", 1, f>>
Seasons(f) == <<"seasons-filter", 1, f>>
Stadiums   == <<"stadiums-all", 1, "all">>

Uploads == [create |-> 1, update |-> 1, delete |-> MAX_RETRIES]
TeamService    == [attempts |-> Uploads, clears |-> {"all-teams"}]
CoachService   == [attempts |-> Uploads, clears |-> {"coaches-filter"}]
StadiumService == [attempts |-> Uploads, clears |-> {"stadiums-all"}]
SeasonService  == [attempts |-> [op \in {"create", "update", "delete"} |-> MAX_RETRIES],
                   clears |-> {"seasons-filter"}]
PlayerService  == [attempts |-> Uploads,
                   clears |-> {"players-paginated", "players-regular", "players-filter"}]
Service(e) == CASE e = "team" -> TeamService [] e = "coach" -> CoachService
                [] e = "season" -> SeasonService [] e = "stadium" -> StadiumService
                [] e = "player" -> PlayerService

-----------------------------------------------------------------------------
\* Asking for rows.

\* Bound: what the panels ask for.
Within == gets' <= MaxGets[tab']

\* A handler asks for the list k and for the option lists others; the
\* messages are left out.
Fetch(c, k, others, overtaken) ==
  /\ GetWithCache(c, {k} \cup others, overtaken)
  /\ list' = IF Hit(c, k) THEN c[k] ELSE list
  /\ loading' = Awaited(c, k)
  /\ options' = options \cup {Entity(o) : o \in {x \in others : Hit(c, x)}}
  /\ waits' = waits \cup {x \in {k} \cup others : Awaited(c, x)}

\* What follows the await of a fetch, in the mounted panel and elsewhere.
Fetched(k) ==
  /\ pending[k].stage = "ok"
  /\ Entity(k) # "player"
  /\ cache' = Filled(k) /\ pending' = Released(k)
  /\ IF k \in waits /\ Entity(k) = tab
     THEN list' = pending[k].data /\ loading' = FALSE
     ELSE UNCHANGED <<list, loading>>
  /\ options' = IF k \in waits /\ Entity(k) # tab THEN options \cup {Entity(k)} ELSE options
  /\ waits' = waits \ {k}
  /\ UNCHANGED <<db, full, own, gets, mishaps, raced, tab, visits, form, filter, pageNo, writes>>

\* Wrong: only a fetch that succeeds ends the spinner.
SpinnerKept(k) == UNCHANGED loading
SpinnerEnds(k) == loading' = IF k \in waits /\ Entity(k) = tab THEN FALSE ELSE loading
NotFetched(k) ==
  /\ pending[k].stage = "lost"
  /\ Entity(k) # "player"
  /\ pending' = Released(k)
  /\ SpinnerEnds(k)
  /\ waits' = waits \ {k}
  /\ UNCHANGED <<db, cache, full, own, gets, mishaps, raced, tab, visits, list, options, form,
                 filter, pageNo, writes>>

-----------------------------------------------------------------------------
\* The panels have these handlers in common; each panel's own are below.

\* The effect of the first render: the list, unfiltered, and the option lists.
Mount(e, k, others) ==
  /\ visits < Len(Visits) /\ visits' = visits + 1
  /\ e \in Visits[visits'] /\ (tab # e \/ visits = 0)
  /\ tab' = e
  /\ GetWithCache(cache, {k} \cup others, {})
  /\ list' = IF Hit(cache, k) THEN cache[k] ELSE Miss
  /\ loading' = Awaited(cache, k)
  /\ options' = {Entity(o) : o \in {x \in others : Hit(cache, x)}}
  /\ waits' = {x \in {k} \cup others : Awaited(cache, x)}
  /\ form' = Closed /\ filter' = "all" /\ pageNo' = 1
  /\ writes' = [i \in Writes |-> [writes[i] EXCEPT !.mine = FALSE]]
  /\ UNCHANGED own
  /\ Within

\* A click sends a write; nothing keeps it from being sent twice.
Start(e, op, k) ==
  \E i \in Writes :
    /\ writes[i] = NoWrite /\ \A j \in 1 .. i - 1 : writes[j] # NoWrite
    /\ writes' = [writes EXCEPT ![i] =
         [entity |-> e, op |-> op, key |-> k, stage |-> "sent", data |-> 0,
          tries |-> 1, applied |-> 0, mine |-> TRUE]]

Here(e) == visits > 0 /\ tab = e

Submit(e, op, k) ==
  /\ Here(e) /\ form.open /\ form.editing = (op = "update") /\ form.filled
  /\ Start(e, op, k)
  /\ UNCHANGED <<cacheVars, tab, visits, list, options, loading, form, filter, pageNo, waits>>

\* The rows and their buttons are drawn when nothing is loading.
RowsShown(e) == Here(e) /\ ~loading /\ list # Miss

Delete(e, k) ==
  /\ RowsShown(e)
  /\ Start(e, "delete", k)
  /\ UNCHANGED <<cacheVars, tab, visits, list, options, loading, form, filter, pageNo, waits>>

\* After the write: the service clears the cache, the panel drops its form unless
\* a row was deleted, and asks for the list with the filter it had at the click.
Saved(e, i) ==
  LET w == writes[i] gone == Service(e).clears c == Cleared(gone) IN
    /\ w.entity = e /\ w.stage = "ok"
    /\ writes' = [writes EXCEPT ![i].stage = "done"]
    /\ own' = [own EXCEPT ![e] = IF w.data > @ THEN w.data ELSE @]
    /\ IF w.mine
       THEN /\ Fetch(c, w.key, {}, Overtaken(gone))
            /\ form' = IF w.op = "delete" THEN form ELSE Closed
       ELSE /\ GetWithCache(c, {w.key}, Overtaken(gone))
            /\ UNCHANGED <<list, loading, options, waits, form>>
    /\ UNCHANGED <<tab, visits, filter, pageNo>>
    /\ Within

\* No attempt is left, or a 4xx ended them.
Failed(w) == w.stage = "refused" \/ (w.stage = "lost" /\ w.tries >= Service(w.entity).attempts[w.op])
NotSaved(e, i) ==
  /\ writes[i].entity = e /\ Failed(writes[i])
  /\ writes' = [writes EXCEPT ![i].stage = "done"]
  /\ UNCHANGED <<cacheVars, tab, visits, list, options, loading, form, filter,
                 pageNo, waits>>

\* Bound: forms matter while a submission is left.
FormOnly(e) ==
  Here(e) /\ writes[MaxWrites] = NoWrite
  /\ UNCHANGED <<cacheVars, tab, visits, list, options, loading, filter,
                         pageNo, waits, writes>>
EditRow(e) ==
  /\ RowsShown(e)
  /\ form' = [open |-> TRUE, editing |-> TRUE, filled |-> TRUE]
  /\ FormOnly(e)
\* The button beside the title: what was being edited is dropped either way.
ToggleForm(e) == form' = [Closed EXCEPT !.open = ~form.open] /\ FormOnly(e)
CancelForm(e) == form.open /\ form' = Closed /\ FormOnly(e)
TypeInto(e) == form.open /\ form' = [form EXCEPT !.filled = TRUE] /\ FormOnly(e)

\* A select of the form, which offers the rows of other entities.
Choose(e, others) == options \cap others # {} /\ TypeInto(e)

SetFilter(e, f) ==
  /\ Here(e) /\ filter # f /\ filter' = f
  /\ UNCHANGED <<cacheVars, tab, visits, list, options, loading, form, pageNo,
                 waits, writes>>
ApplyFilter(e, k) ==
  /\ Here(e)
  /\ Fetch(cache, k, {}, {})
  /\ UNCHANGED <<own, tab, visits, form, filter, pageNo, writes>>
  /\ Within
\* setFilter({}) and a fetch of the render before: with the old filter.
ResetFilter(e, k) ==
  /\ Here(e)
  /\ filter' = "all"
  /\ Fetch(cache, k, {}, {})
  /\ UNCHANGED <<own, tab, visits, form, pageNo, writes>>
  /\ Within

-----------------------------------------------------------------------------
\* TeamManagement: with the options of stadiums and coaches.

MountTeams       == Mount("team", AllTeams, {Stadiums, Coaches("all")})
TeamInput        == TypeInto("team")
TeamSelect       == Choose("team", {"stadium", "coach"})
HandleCreateTeam == Submit("team", "create", AllTeams)
HandleUpdateTeam == Submit("team", "update", AllTeams)
HandleDeleteTeam == Delete("team", AllTeams)
TeamSaved        == \E i \in Writes : Saved("team", i)
TeamNotSaved     == \E i \in Writes : NotSaved("team", i)
EditTeam         == EditRow("team")
ResetTeamForm    == CancelForm("team")
ToggleTeamForm   == ToggleForm("team")

TeamManagement ==
  \/ MountTeams \/ TeamInput \/ TeamSelect \/ HandleCreateTeam \/ HandleUpdateTeam \/ HandleDeleteTeam
  \/ TeamSaved \/ TeamNotSaved \/ EditTeam \/ ResetTeamForm \/ ToggleTeamForm

\* CoachManagement: with the options of teams, and a filter.

MountCoaches      == Mount("coach", Coaches("all"), {AllTeams})
CoachInput        == TypeInto("coach")
CoachSelect       == Choose("coach", {"team"})
HandleCreateCoach == Submit("coach", "create", Coaches(filter))
HandleUpdateCoach == Submit("coach", "update", Coaches(filter))
HandleDeleteCoach == Delete("coach", Coaches(filter))
CoachSaved        == \E i \in Writes : Saved("coach", i)
CoachNotSaved     == \E i \in Writes : NotSaved("coach", i)
EditCoach         == EditRow("coach")
ResetCoachForm    == CancelForm("coach")
ToggleCoachForm   == ToggleForm("coach")
FilterCoaches     == \E f \in Filters : SetFilter("coach", f)
ApplyCoachFilters == ApplyFilter("coach", Coaches(filter))
ResetCoachFilters == ResetFilter("coach", Coaches(filter))

CoachManagement ==
  \/ MountCoaches \/ CoachInput \/ CoachSelect \/ HandleCreateCoach \/ HandleUpdateCoach \/ HandleDeleteCoach
  \/ CoachSaved \/ CoachNotSaved \/ EditCoach \/ ResetCoachForm \/ ToggleCoachForm
  \/ FilterCoaches \/ ApplyCoachFilters \/ ResetCoachFilters

\* SeasonManagement: no options, a filter.

MountSeasons       == Mount("season", Seasons("all"), {})
SeasonInput        == TypeInto("season")
HandleCreateSeason == Submit("season", "create", Seasons(filter))
HandleUpdateSeason == Submit("season", "update", Seasons(filter))
HandleDeleteSeason == Delete("season", Seasons(filter))
SeasonSaved        == \E i \in Writes : Saved("season", i)
SeasonNotSaved     == \E i \in Writes : NotSaved("season", i)
EditSeason         == EditRow("season")
ResetSeasonForm    == CancelForm("season")
ToggleSeasonForm   == ToggleForm("season")
FilterSeasons      == \E f \in Filters : SetFilter("season", f)
ApplySeasonFilters == ApplyFilter("season", Seasons(filter))
ResetSeasonFilters == ResetFilter("season", Seasons(filter))

SeasonManagement ==
  \/ MountSeasons \/ SeasonInput \/ HandleCreateSeason \/ HandleUpdateSeason \/ HandleDeleteSeason
  \/ SeasonSaved \/ SeasonNotSaved \/ EditSeason \/ ResetSeasonForm \/ ToggleSeasonForm
  \/ FilterSeasons \/ ApplySeasonFilters \/ ResetSeasonFilters

\* StadiumManagement: no options, no filter.

MountStadiums       == Mount("stadium", Stadiums, {})
StadiumInput        == TypeInto("stadium")
HandleCreateStadium == Submit("stadium", "create", Stadiums)
HandleUpdateStadium == Submit("stadium", "update", Stadiums)
HandleDeleteStadium == Delete("stadium", Stadiums)
StadiumSaved        == \E i \in Writes : Saved("stadium", i)
StadiumNotSaved     == \E i \in Writes : NotSaved("stadium", i)
EditStadium         == EditRow("stadium")
ResetStadiumForm    == CancelForm("stadium")
ToggleStadiumForm   == ToggleForm("stadium")

StadiumManagement ==
  \/ MountStadiums \/ StadiumInput \/ HandleCreateStadium \/ HandleUpdateStadium
  \/ HandleDeleteStadium \/ StadiumSaved \/ StadiumNotSaved \/ EditStadium
  \/ ResetStadiumForm \/ ToggleStadiumForm

-----------------------------------------------------------------------------
\* The writes on their way.

\* The backend applies a write or refuses it with a 4xx.
ServeWrite(i) ==
  /\ writes[i].stage = "sent"
  /\ \/ /\ Write(writes[i].entity)
        /\ writes' = [writes EXCEPT ![i].stage = "ok", ![i].applied = @ + 1,
                                    ![i].data = db'[writes[i].entity]]
     \/ writes' = [writes EXCEPT ![i].stage = "refused"] /\ UNCHANGED db
  /\ UNCHANGED <<cache, pending, full, own, gets, mishaps, raced, viewVars>>

\* Before or after the backend acted.
LoseWrite(i) ==
  /\ writes[i].stage \in {"sent", "ok"}
  /\ writes' = [writes EXCEPT ![i].stage = "lost"]
  /\ Mishap
  /\ UNCHANGED <<db, cache, pending, full, own, gets, raced, viewVars>>

\* Wrong: one attempt more than MAX_RETRIES.
MayRetryOnceMore(w) == w.tries <= Service(w.entity).attempts[w.op]
MayRetry(w) == w.tries < Service(w.entity).attempts[w.op]
\* executeWithRetry, after its delay.
RetryWrite(i) ==
  /\ writes[i].stage = "lost" /\ MayRetry(writes[i])
  /\ writes' = [writes EXCEPT ![i].stage = "sent", ![i].tries = @ + 1]
  /\ UNCHANGED <<cacheVars, viewVars>>

AdminInit ==
  /\ CacheInit
  /\ tab = "team" /\ visits = 0
  /\ list = Miss /\ options = {} /\ loading = FALSE
  /\ form = Closed /\ filter = "all" /\ pageNo = 1
  /\ waits = {}
  /\ writes = [i \in Writes |-> NoWrite]

Traffic ==
  \/ CacheStep /\ UNCHANGED <<viewVars, writes>>
  \/ \E k \in DOMAIN pending : Fetched(k) \/ NotFetched(k)
  \/ \E i \in Writes : ServeWrite(i) \/ LoseWrite(i) \/ RetryWrite(i)

AdminPanels == TeamManagement \/ CoachManagement \/ SeasonManagement \/ StadiumManagement

-----------------------------------------------------------------------------
\* A click changes the data at most as often as its request is attempted: once
\* where a file is uploaded, MAX_RETRIES times through executeWithRetry.
AppliedPerClick ==
  \A i \in Writes : writes[i] # NoWrite =>
    writes[i].applied <= Service(writes[i].entity).attempts[writes[i].op]
=============================================================================
