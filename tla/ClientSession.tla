---------------------------- MODULE ClientSession ----------------------------
(***************************************************************************)
(* The session of one browser tab: AuthenticationService over ApiService,  *)
(* the sign-in page, ProtectedRoute and the pages behind it, against the   *)
(* token endpoints of the backend.                                         *)
(*                                                                         *)
(* JavaScript runs one handler at a time, so an action is one handler up   *)
(* to its next await; the awaits are what interleaves.  A call in flight   *)
(* holds what it was sent with: the bearer that the request interceptor    *)
(* read from `accessToken`, and the refresh cookie of that moment.  An     *)
(* access token and the refresh token issued with it share one number.  The *)
(* refresh token lives seven days, the access token an hour, or ten days    *)
(* and an hour for an administrator.                                       *)
(***************************************************************************)
EXTENDS Naturals, FiniteSets

CONSTANTS
  Users,       \* the people who sign in with this browser
  Admins,      \* those with the role Admin
  MaxCalls,    \* bound: requests in flight at once
  MAX_RETRIES, \* attempts of executeWithRetry
  MaxTokens    \* bound: token pairs the backend issues

None == 0
Tokens == 1 .. MaxTokens
Calls == 1 .. MaxCalls

ASSUME SessionAssumption ==
  /\ Admins \subseteq Users
  /\ MAX_RETRIES \in Nat \ {0}
  /\ MaxTokens \in Nat \ {0}
  /\ MaxCalls \in Nat
  /\ {None, "nobody", "unclear"} \cap Users = {}

\* Behind ProtectedRoute: the administration, and the pages open to any role.
Routes == {"home", "admin"}

VARIABLES
  token,     \* localStorage accessToken
  user,      \* localStorage user
  roles,     \* userRolesCache: whose roles it holds
  page,      \* where the tab is
  form,      \* the call the mounted sign-in form waits for (isLoading)
  leaving,   \* window.location.href has been set by a 401
  calls,     \* requests in flight
  cookie,    \* the HttpOnly refreshToken cookie
  owner,     \* backend: whose pair each token is
  active,    \* backend: refresh tokens neither revoked nor replaced
  soon,      \* access tokens that expire in less than five minutes
  gone,      \* access tokens that have expired
  last       \* history: who signed in last; "nobody" after a sign-out; "unclear"
             \* when a refresh was under way at that moment

clientVars == <<token, user, roles, page, form, leaving>>
serverVars == <<owner, active>>
clock      == <<soon, gone>>
sessionVars == <<clientVars, calls, cookie, serverVars, clock, last>>

\* What `user` holds: the answer of a sign-in (with roles and user id) or of a
\* refresh, which has neither and states an expiry of its own.
NoUser == [tok |-> None, full |-> FALSE, lapsed |-> FALSE]
SignInAnswer(t)  == [tok |-> t, full |-> TRUE,  lapsed |-> FALSE]
RefreshAnswer(t) == [tok |-> t, full |-> FALSE, lapsed |-> FALSE]

Kinds  == {"login", "refresh", "revoke", "update"}
Stages == {"sent", "read", "ok", "refused", "unauthorized", "lost"}
NoCall == [kind |-> "none", who |-> None, bearer |-> None, cookie |-> None,
           stage |-> "free", tok |-> None, tries |-> 0]
Call == {NoCall} \cup
        [kind : Kinds, who : Users \cup {None}, bearer : Tokens \cup {None},
         cookie : Tokens \cup {None}, stage : Stages,
         tok : Tokens \cup {None}, tries : 1 .. MAX_RETRIES]

SessionTypeOK ==
  /\ token \in Tokens \cup {None}
  /\ user \in [tok : Tokens \cup {None}, full : BOOLEAN, lapsed : BOOLEAN]
  /\ roles \in Users \cup {None}
  /\ page \in {"login", "inside", "unauthorized", "error"}
  /\ form \in Calls \cup {None}
  /\ leaving \in BOOLEAN
  /\ calls \in [Calls -> Call]
  /\ cookie \in Tokens \cup {None}
  /\ owner \in [Tokens -> Users \cup {None}]
  /\ active \in SUBSET Tokens
  /\ soon \in SUBSET Tokens
  /\ gone \in SUBSET Tokens
  /\ last \in Users \cup {"nobody", "unclear"}

Issued == {t \in Tokens : owner[t] # None}
Valid(t) == t \in Issued \ gone
Free == {c \in Calls : calls[c] = NoCall}
\* Requests have no identity of their own: a new one takes the first free slot.
NextSlot(c) == c \in Free /\ \A d \in Free : c <= d

SessionInit ==
  /\ token = None /\ user = NoUser /\ roles = None
  /\ page = "login" /\ form = None /\ leaving = FALSE
  /\ calls = [c \in Calls |-> NoCall]
  /\ cookie = None
  /\ owner = [t \in Tokens |-> None] /\ active = {}
  /\ soon = {} /\ gone = {}
  /\ last = "nobody"

-----------------------------------------------------------------------------
\* What is read from storage.

GetToken == IF token # None THEN token ELSE user.tok
IsAuthenticated == GetToken # None /\ Valid(GetToken)
\* getCurrentUserId: the claim of the token, whatever `user` says.
CurrentUserId == IF GetToken = None THEN None ELSE owner[GetToken]

Refreshing == \E c \in Calls : calls'[c].kind = "refresh"
\* From a handler that has run to its await: u signed in, or nobody is signed in.
LastIs(u) == last' = IF Refreshing \/ (u = "nobody" /\ last = "unclear") THEN "unclear" ELSE u

\* storeToken and storeUser, with the roles cache that storeUser clears.
\* Wrong: the answer of a refresh does not replace the stored user.
StoreTokenOnly(t, answer) ==
  token' = t /\ roles' = None /\ user' = IF answer.full THEN answer ELSE user
\* Wrong: the cached roles outlive the user they were read from.
StoreKeepingRoles(t, answer) == token' = t /\ user' = answer /\ roles' = roles
\* Wrong: only the token key is removed.
ClearTokenKey == token' = None /\ roles' = None /\ user' = user
StoreSession(t, answer) ==
  /\ token' = t
  /\ user' = answer
  /\ roles' = None

\* clearTokens: both keys and the caches.
ClearTokens ==
  /\ token' = None
  /\ user' = NoUser
  /\ roles' = None

\* The role of hasRole and hasRoleOptimized for the page's allowed roles.
HasRole(u, p) == u \in Users /\ (p = "admin" => u \in Admins)

\* getUserRoles: the cache, or what `user` holds, which it then caches.
GetUserRoles ==
  IF roles # None THEN roles
  ELSE IF user.full THEN owner[user.tok] ELSE None

-----------------------------------------------------------------------------
\* Requests: what the interceptor puts on them, and how they are retried.

Request(kind, who) ==
  [kind |-> kind, who |-> who, bearer |-> IF kind = "login" THEN None ELSE token',
   cookie |-> cookie, stage |-> "sent", tok |-> None, tries |-> 1]

\* post of AuthenticationService, from a handler that has run to its await.
Send(c, kind, who) ==
  /\ NextSlot(c)
  /\ calls' = [calls EXCEPT ![c] = Request(kind, who)]

Finish(c) == calls' = [calls EXCEPT ![c] = NoCall]

\* executeWithRetry: an error without a 4xx status is tried again after a
\* delay; the request is built anew, with the token and cookie of that moment.
Retry(c) ==
  /\ calls[c].stage = "lost" /\ calls[c].tries < MAX_RETRIES
  /\ UNCHANGED <<clientVars, cookie, serverVars, clock, last>>
  /\ calls' = [calls EXCEPT ![c] =
       [Request(calls[c].kind, calls[c].who) EXCEPT !.tries = calls[c].tries + 1]]

\* No attempt is left: the caller's catch runs.
GivenUp(c) ==
  calls[c].stage = "lost" /\ calls[c].tries = MAX_RETRIES

\* handleError on a 401: the token keys go, `user` stays, the tab leaves.
Unauthorized == token' = None /\ leaving' = TRUE

-----------------------------------------------------------------------------
\* The backend.

\* What was sent matters no longer, but the cookie of a refresh being served.
Outcome(call, stage, tok) ==
  [call EXCEPT !.stage = stage, !.tok = tok, !.bearer = None,
               !.cookie = IF stage = "read" THEN @ ELSE None]

Issue(c, who) ==
  \E t \in Tokens \ Issued :
    /\ \A s \in Tokens \ Issued : t <= s
    /\ owner' = [owner EXCEPT ![t] = who]
    /\ active' = (active \ (IF calls[c].kind = "refresh" THEN {calls[c].cookie} ELSE {})) \cup {t}
    /\ calls' = [calls EXCEPT ![c] = Outcome(@, "ok", t)]

Answer(c, stage) ==
  /\ calls' = [calls EXCEPT ![c] = Outcome(@, stage, None)]
  /\ UNCHANGED serverVars

\* LoginUserCommand: a pair of tokens, or 400 for a wrong password.
ServeLogin(c) ==
  /\ calls[c].kind = "login" /\ calls[c].stage = "sent"
  /\ Issue(c, calls[c].who) \/ Answer(c, "refused")
  /\ UNCHANGED <<clientVars, cookie, clock, last>>

\* RefreshTokenAsync reads the token first; [Authorize] guards the endpoint.
ServeRefresh(c) ==
  /\ calls[c].kind = "refresh" /\ calls[c].stage = "sent"
  /\ Answer(c, IF ~Valid(calls[c].bearer) THEN "unauthorized"
               ELSE IF calls[c].cookie \in active THEN "read" ELSE "refused")
  /\ UNCHANGED <<clientVars, cookie, clock, last>>

\* An administrator's access token outlives the refresh token.
RefuseRefresh(c) ==
  /\ calls[c].kind = "refresh" /\ calls[c].stage = "sent"
  /\ Valid(calls[c].bearer) /\ owner[calls[c].bearer] \in Admins
  /\ Answer(c, "refused")
  /\ UNCHANGED <<clientVars, cookie, clock, last>>

\* ... and saves afterwards: the token it read is replaced by a new one.
SaveRefresh(c) ==
  /\ calls[c].kind = "refresh" /\ calls[c].stage = "read"
  /\ Issue(c, owner[calls[c].cookie])
  /\ UNCHANGED <<clientVars, cookie, clock, last>>

\* RevokeTokenCommand has a required RefreshToken, and the client sends {}.
ServeRevoke(c) ==
  /\ calls[c].kind = "revoke" /\ calls[c].stage = "sent"
  /\ Answer(c, IF Valid(calls[c].bearer) THEN "refused" ELSE "unauthorized")
  /\ UNCHANGED <<clientVars, cookie, clock, last>>

\* An endpoint that serves data to the bearer.
ServeData(c) ==
  /\ calls[c].kind = "update" /\ calls[c].stage = "sent"
  /\ \E s \in IF Valid(calls[c].bearer) THEN {"ok", "refused"} ELSE {"unauthorized"} :
       Answer(c, s)
  /\ UNCHANGED <<clientVars, cookie, clock, last>>

Serve(c) == \/ ServeLogin(c) \/ ServeRefresh(c) \/ RefuseRefresh(c) \/ SaveRefresh(c)
            \/ ServeRevoke(c) \/ ServeData(c)

\* The network, the 30 s timeout or a 5xx: before or after the backend acted.
Fail(c) ==
  /\ calls[c].stage \in {"sent", "read", "ok"}
  /\ Answer(c, "lost")
  /\ UNCHANGED <<clientVars, cookie, clock, last>>

-----------------------------------------------------------------------------
\* Signing in.

\* The button and the Enter key are dead while the form waits.
FormEnabled == page = "login" /\ ~leaving /\ form = None

\* handleSignIn up to its await.
SignIn(c, u) ==
  /\ FormEnabled
  /\ UNCHANGED <<token, user, roles, page, leaving>>
  /\ form' = c
  /\ Send(c, "login", u)
  /\ UNCHANGED <<cookie, serverVars, clock, last>>

\* Wrong: only the success path gives the button back.
FormKept(c) == form' = IF form = c /\ calls[c].stage = "ok" THEN None ELSE form
\* finally of handleSignIn: only the form that is still mounted is freed.
FormFreed(c) == form' = IF form = c THEN None ELSE form

\* login after its await.
LoginAnswered(c) ==
  /\ calls[c].kind = "login" /\ calls[c].stage = "ok"
  /\ StoreSession(calls[c].tok, SignInAnswer(calls[c].tok))
  /\ cookie' = calls[c].tok
  /\ FormFreed(c)
  /\ Finish(c)
  /\ LastIs(calls[c].who)
  /\ UNCHANGED <<page, leaving, serverVars, clock>>

\* The catch of handleSignIn: a message, nothing stored.
LoginRejected(c) ==
  /\ calls[c].kind = "login" /\ (calls[c].stage = "refused" \/ GivenUp(c))
  /\ FormFreed(c)
  /\ Finish(c)
  /\ UNCHANGED <<token, user, roles, page, leaving, cookie, serverVars, clock, last>>

-----------------------------------------------------------------------------
\* Refreshing.

\* getValidAccessToken, run to its await by the hub connection: an expired
\* token is cleared at once, one in its last five minutes is refreshed.
GetValidAccessToken(c) ==
  /\ ~leaving /\ GetToken # None
  /\ \/ /\ ~Valid(GetToken)
        /\ ClearTokens
        /\ UNCHANGED calls
        /\ LastIs("nobody")
     \/ /\ Valid(GetToken) /\ GetToken \in soon
        /\ UNCHANGED <<token, user, roles, last>>
        /\ Send(c, "refresh", None)
  /\ UNCHANGED <<page, form, leaving, cookie, serverVars, clock>>

\* checkAndRefreshToken, from the dashboard's interval, refreshes in any case.
CheckAndRefreshToken(c) ==
  /\ ~leaving /\ page = "inside"
  /\ GetToken # None /\ GetToken \in soon
  /\ UNCHANGED <<clientVars, cookie, serverVars, clock, last>>
  /\ Send(c, "refresh", None)

RefreshAnswered(c) ==
  /\ calls[c].kind = "refresh" /\ calls[c].stage = "ok"
  /\ StoreSession(calls[c].tok, RefreshAnswer(calls[c].tok))
  /\ cookie' = calls[c].tok
  /\ Finish(c)
  /\ UNCHANGED <<page, form, leaving, serverVars, clock, last>>

\* The catch of refreshToken, whatever went wrong; a 401 leaves the tab too.
RefreshFailed(c) ==
  /\ calls[c].kind = "refresh"
  /\ calls[c].stage \in {"refused", "unauthorized"} \/ GivenUp(c)
  /\ ClearTokens
  /\ leaving' = (leaving \/ calls[c].stage = "unauthorized")
  /\ Finish(c)
  /\ LastIs("nobody")
  /\ UNCHANGED <<page, form, cookie, serverVars, clock>>

-----------------------------------------------------------------------------
\* Signing out.

\* logout of the dashboard, the sidebar, the navigation bar and the profile:
\* the revocation is built in a microtask, when the token has already gone.
Logout(c) ==
  /\ page = "inside" /\ ~leaving
  /\ ClearTokens
  /\ IF IsAuthenticated THEN Send(c, "revoke", None) ELSE UNCHANGED calls
  /\ page' = "login" /\ form' = None
  /\ LastIs("nobody")
  /\ UNCHANGED <<leaving, cookie, serverVars, clock>>

\* The catch of the revocation only writes a log line.
RevokeAnswered(c) ==
  /\ calls[c].kind = "revoke"
  /\ \/ /\ calls[c].stage = "refused" \/ GivenUp(c)
        /\ UNCHANGED <<token, leaving>>
     \/ calls[c].stage = "unauthorized" /\ Unauthorized
  /\ Finish(c)
  /\ UNCHANGED <<user, roles, page, form, cookie, serverVars, clock, last>>

\* The tab unloads: every call, every timer and every cache goes with it.
Reload ==
  /\ leaving
  /\ leaving' = FALSE /\ page' = "login" /\ form' = None /\ roles' = None
  /\ calls' = [c \in Calls |-> NoCall]
  /\ UNCHANGED <<token, user, cookie, serverVars, clock, last>>

-----------------------------------------------------------------------------
\* The pages.

StatedExpired == user.tok \in gone \/ user.lapsed

\* The effect of ProtectedRoute around page p.
GuardRejects == user = NoUser \/ token = None
\* user.roles[0] of a record without roles throws: the error page.
GuardCrashes == ~user.full
GuardAdmits(p) ==
  /\ HasRole(owner[user.tok], p)
  /\ IsAuthenticated
  /\ HasRole(GetUserRoles, p)

OpenProtected(p, c) ==
  /\ ~leaving
  /\ UNCHANGED <<token, leaving, cookie, serverVars, clock, last>>
  /\ \/ /\ GuardRejects
        /\ page' = "login" /\ form' = None
        /\ UNCHANGED <<user, roles, calls>>
     \/ /\ ~GuardRejects /\ StatedExpired
        /\ user' = NoUser
        /\ page' = "login" /\ form' = None
        /\ UNCHANGED <<roles, calls>>
     \/ /\ ~GuardRejects /\ ~StatedExpired
        /\ page' = IF GuardCrashes THEN "error"
                   ELSE IF GuardAdmits(p) THEN "inside" ELSE "unauthorized"
        /\ form' = None
        /\ roles' = IF GuardCrashes THEN roles ELSE GetUserRoles
        /\ UNCHANGED user
        /\ IF GetToken \in soon THEN Send(c, "refresh", None) ELSE UNCHANGED calls

\* handleProfileSave of the profile page, up to updateProfile's await.
SaveProfile(c) ==
  /\ page = "inside" /\ ~leaving /\ user.full
  /\ \A d \in Calls : calls[d].kind # "update"   \* the button waits while saving
  /\ UNCHANGED <<clientVars, cookie, serverVars, clock, last>>
  /\ Send(c, "update", owner[user.tok])

\* updateProfile after its await rewrites the name in `user`, if it still is
\* the one it saved, and clears the roles it had cached.
DataAnswered(c) ==
  /\ calls[c].kind = "update"
  /\ \/ /\ calls[c].stage = "ok"
        /\ roles' = IF user.full /\ owner[user.tok] = calls[c].who THEN None ELSE roles
        /\ UNCHANGED <<token, leaving>>
     \/ /\ calls[c].stage = "refused" \/ GivenUp(c)
        /\ UNCHANGED <<token, roles, leaving>>
     \/ calls[c].stage = "unauthorized" /\ Unauthorized /\ UNCHANGED roles
  /\ Finish(c)
  /\ UNCHANGED <<user, page, form, cookie, serverVars, clock, last>>

-----------------------------------------------------------------------------
\* Time.

ExpiresSoon ==
  /\ \E t \in Issued \ soon : soon' = soon \cup {t}
  /\ UNCHANGED <<clientVars, calls, cookie, serverVars, gone, last>>
Expires ==
  /\ \E t \in soon \ gone : gone' = gone \cup {t}
  /\ UNCHANGED <<clientVars, calls, cookie, serverVars, soon, last>>
\* A refresh states an hour, though an administrator's token lives longer.
StatedLapses ==
  /\ user # NoUser /\ ~user.full /\ ~user.lapsed /\ owner[user.tok] \in Admins
  /\ user' = [user EXCEPT !.lapsed = TRUE]
  /\ UNCHANGED <<token, roles, page, form, leaving, calls, cookie, serverVars, clock, last>>

Answered(c) ==
  \/ LoginAnswered(c) \/ LoginRejected(c) \/ RefreshAnswered(c) \/ RefreshFailed(c)
  \/ RevokeAnswered(c) \/ DataAnswered(c) \/ Retry(c)

SessionNext ==
  \/ \E c \in Calls : \/ Serve(c) \/ Fail(c) \/ Answered(c)
                      \/ \E u \in Users : SignIn(c, u)
                      \/ GetValidAccessToken(c) \/ CheckAndRefreshToken(c) \/ Logout(c) \/ SaveProfile(c)
                      \/ \E p \in Routes : OpenProtected(p, c)
  \/ Reload \/ ExpiresSoon \/ Expires \/ StatedLapses

SessionSpec == SessionInit /\ [][SessionNext]_sessionVars
-----------------------------------------------------------------------------
\* Properties.

\* The roles the cache answers with are those of the user in storage: nobody
\* gets the roles of the person who used the browser before (getUserRoles
\* reads the cache before it reads the storage).
RolesOfStoredUser ==
  roles # None /\ user # NoUser => user.full /\ roles = owner[user.tok]

\* The places that hold the session tell the same one: the two keys of
\* localStorage, written by two statements of login and of refreshToken and
\* removed by several, the cached roles, and the cookie the backend sets with the
\* same answer.
SessionInv ==
  /\ SessionTypeOK
  /\ gone \subseteq soon /\ soon \subseteq Issued
  /\ token # None /\ user # NoUser => token = user.tok
  /\ token # None => cookie = token
  /\ user.tok \in Issued \cup {None}
  /\ token \in Issued \cup {None}
  /\ RolesOfStoredUser

\* Unless a refresh was under way when somebody signed in or out, the session
\* in storage is that of the last one who signed in and has not signed out:
\* getToken falls back on the token inside `user`, so both keys must go.
SessionOfLastSignIn ==
  last # "unclear" /\ GetToken # None => CurrentUserId = last

\* The sign-in form waits only for a sign-in that is still in flight: no
\* outcome of the request, and no unmount in between, leaves the button dead
\* or lets the answer of an earlier form free it.
FormAwaitsItsSignIn == form # None => calls[form].kind = "login"
=============================================================================
