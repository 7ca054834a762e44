----------------------------- MODULE StartSimulation -----------------------------
(***************************************************************************)
(* The page that starts a simulation (app/matchsimulation): two teams are   *)
(* chosen, their seasons fetched, and a match is started with a POST that   *)
(* ApiService repeats when no answer comes. The server is that of module    *)
(* SimulateMatch, seen from outside: one live match per user.               *)
(***************************************************************************)
EXTENDS PageShell

CONSTANTS
  Teams,        \* the teams that may be chosen
  SeasonsOf,    \* the seasons of each team
  MaxPosts,     \* MAX_RETRIES of ApiService: how often one POST is sent (3)
  MaxStarted    \* bound on the matches started

ASSUME StartAssumption ==
  SeasonsOf \in [Teams -> SUBSET Nat] /\ MaxPosts \in Nat \ {0} /\ MaxStarted \in Nat

Sides == {"home", "away"}
NoChoice == [team |-> None, seasons |-> {}, season |-> None]

\* checkUserRole and the teams, without which only a spinner shows.
StartInit ==
  page = [name |-> "start", clicks |-> 0,
          teams |-> None, side |-> [s \in Sides |-> NoChoice], waits |-> FALSE,
          status |-> "idle", asked |-> {}, posted |-> None,
          live |-> None, started |-> <<>>,
          storedMatch |-> None, redirects |-> {}, gone |-> None]

\* fetchTeams: the teams, or none if they cannot be had.
TeamsFetched == page.teams = None /\ \E got \in {Teams, {}} : Change([teams |-> got])

-----------------------------------------------------------------------------
\* The choice.

\* The teams that a side offers: the away side leaves out the home team.
Offered(s) ==
  IF page.teams = None THEN {}
  ELSE IF s = "home" THEN page.teams ELSE page.teams \ {page.side["home"].team}

\* handleTeamSelection asks for the team's seasons; the team is taken with them.
ChooseTeam(s, t) ==
  /\ t \in Offered(s) /\ page.gone = None
  /\ Click([waits |-> TRUE, asked |-> page.asked \cup {[side |-> s, team |-> t]}])
\* Wrong: the season chosen for the team before is kept.
TakenKeepingSeason(s, t) ==
  [page.side EXCEPT ![s] = [team |-> t, seasons |-> SeasonsOf[t], season |-> @.season]]
Taken(s, t) ==
  [page.side EXCEPT ![s] = [team |-> t, seasons |-> SeasonsOf[t], season |-> None]]
\* In any order; a failure leaves the side as it is.
SeasonsFetched(r) ==
  /\ r \in page.asked
  /\ \/ Change([waits |-> FALSE, asked |-> page.asked \ {r}, side |-> Taken(r.side, r.team)])
     \/ Change([waits |-> FALSE, asked |-> page.asked \ {r}])
ChooseSeason(s, n) ==
  /\ page.side[s].team # None /\ ~page.waits /\ n \in page.side[s].seasons
  /\ n # page.side[s].season /\ page.gone = None
  /\ Click([side |-> [page.side EXCEPT ![s].season = n]])

CanStart ==
  /\ \A s \in Sides : page.side[s].team # None /\ page.side[s].season # None
  /\ page.side["home"].team # page.side["away"].team

\* The preview of the match: its button starts it.
Preview ==
  CASE \E s \in Sides : page.side[s].team = None -> "choose teams"
    [] \A s \in Sides : page.side[s].team # None /\ page.status = "loading" -> "starting"
    [] OTHER -> IF CanStart THEN "start" ELSE "choose seasons"
\* The panel below it.
StatusPanel ==
  CASE page.status = "idle" -> "none" [] page.status = "loading" -> "initializing"
    [] page.status = "success" -> "started" [] page.status = "error" -> "failed"

-----------------------------------------------------------------------------
\* The POST.

Chosen == [s \in Sides |-> <<page.side[s].team, page.side[s].season>>]
\* startSimulation: what is chosen now is sent.
Begins ==
  /\ Preview = "start" /\ page.gone = None
  /\ Click([status |-> "loading", posted |-> [chosen |-> Chosen, tries |-> 1, answer |-> None]])

\* The server takes the request: 400 while the user has a live match, 503 while the
\* engine is not ready, or a new match.
Handled503 == [code |-> 503, match |-> None]
PostHandled ==
  /\ page.posted # None /\ page.posted.answer = None
  /\ \/ Change([posted |-> [page.posted EXCEPT !.answer = Handled503]])
     \/ /\ page.live # None
        /\ Change([posted |-> [page.posted EXCEPT !.answer = [code |-> 400, match |-> None]]])
     \/ /\ page.live = None /\ Len(page.started) < MaxStarted
        /\ LET m == Len(page.started) + 1 IN
             Change([live |-> m, started |-> Append(page.started, page.posted.chosen),
                     posted |-> [page.posted EXCEPT !.answer = [code |-> 200, match |-> m]]])
LiveEnds == page.live # None /\ Change([live |-> None])

\* What the server answered, 0 if it has not.
Code == IF page.posted.answer = None THEN 0 ELSE page.posted.answer.code
\* executeWithRetry: the request or its answer is lost, or the server failed.
PostAgain ==
  /\ page.posted # None /\ page.posted.tries < MaxPosts
  /\ Code \in {0, 200, 503}
  /\ Change([posted |-> [page.posted EXCEPT !.tries = @ + 1, !.answer = None]])

\* The match is stored, and a timer takes the user to it.
PostSucceeded ==
  /\ page.posted # None /\ Code = 200
  /\ LET m == page.posted.answer.match IN
       Change([status |-> "success", storedMatch |-> m, redirects |-> page.redirects \cup {m}, posted |-> None])
\* Refused, or lost once too often: the page says that the simulation failed.
PostFailed ==
  /\ page.posted # None
  /\ Code = 400 \/ page.posted.tries = MaxPosts
  /\ Change([status |-> "error", posted |-> None])
StartTryAgain == StatusPanel = "failed" /\ Click([status |-> "idle"])

\* The first timer that runs out opens the simulation view; the others still run.
Redirected(m) ==
  /\ m \in page.redirects
  /\ Change([gone |-> m, redirects |-> page.redirects \ {m}])

StartNext ==
  /\ On("start")
  /\ \/ TeamsFetched \/ Begins \/ PostHandled \/ LiveEnds \/ PostAgain \/ PostSucceeded \/ PostFailed
     \/ StartTryAgain
     \/ \E s \in Sides, t \in Teams : ChooseTeam(s, t)
     \/ \E r \in page.asked : SeasonsFetched(r)
     \/ \E s \in Sides : \E n \in page.side[s].seasons : ChooseSeason(s, n)
     \/ \E m \in page.redirects : Redirected(m)

-----------------------------------------------------------------------------
\* Seasons arrive late and out of order, POSTs are repeated, matches end: every match
\* that the server made has two different teams, each with a season of its own, and
\* the user is only taken to a match that was made, the one that localStorage names
\* unless a later one was started before its timer ran out (page.tsx:190 does not
\* clear it).
StartsWhatWasChosen ==
  On("start") =>
    /\ \A m \in DOMAIN page.started :
         LET c == page.started[m] IN
           /\ c["home"][1] # c["away"][1]
           /\ \A s \in Sides : c[s][2] \in SeasonsOf[c[s][1]]
    /\ \A m \in page.redirects \cup ({page.gone} \ {None}) :
         m \in DOMAIN page.started /\ page.storedMatch # None /\ m <= page.storedMatch
    /\ page.status = "success" => page.storedMatch \in DOMAIN page.started
=============================================================================
