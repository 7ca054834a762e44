------------------------- MODULE ClientSession_proofs -------------------------
(***************************************************************************)
(* Proofs about ClientSession for every set of people, every number of      *)
(* calls in flight, of attempts and of tokens.                              *)
(***************************************************************************)
EXTENDS ClientSession, TLAPS

\* A token pair outlives neither its issue nor the minutes before its end.
ClockOK == gone \subseteq soon /\ soon \subseteq Issued /\ active \subseteq Issued

\* The two keys of the storage and the cookie tell one session.
KeysOK ==
  /\ token # None /\ user # NoUser => token = user.tok
  /\ token # None => cookie = token
  /\ user.tok \in Issued \cup {None}
  /\ token \in Issued \cup {None}
  /\ user.tok = None => user = NoUser

\* What a call in flight was sent with and what it brings back.
CallOK(r) ==
  /\ r.kind = "login" => r.who \in Users
  /\ r.stage = "sent" => /\ r.bearer \in Issued \cup {None}
                         /\ r.bearer # None => r.cookie = r.bearer
  /\ r.stage = "read" => r.kind = "refresh" /\ r.cookie \in Issued
  /\ r.stage = "ok" /\ r.kind = "refresh" => r.tok \in Issued
  /\ r.stage = "ok" /\ r.kind = "login" => r.tok \in Issued /\ owner[r.tok] = r.who

\* A refresh under way renews the session of whoever signed in last.
RefreshOK(r) ==
  last # "unclear" /\ r.kind = "refresh" =>
    /\ last # "nobody"
    /\ r.stage = "sent" /\ r.bearer # None => owner[r.bearer] = last
    /\ r.stage = "read" => owner[r.cookie] = last
    /\ r.stage = "ok" => owner[r.tok] = last

CallsOK == \A c \in Calls : CallOK(calls[c]) /\ RefreshOK(calls[c])

SessionIInv ==
  /\ SessionTypeOK
  /\ ClockOK
  /\ KeysOK
  /\ RolesOfStoredUser
  /\ CallsOK
  /\ FormAwaitsItsSignIn
  /\ SessionOfLastSignIn

-----------------------------------------------------------------------------
(* What the parts of the state are. *)

LEMMA Nulls ==
  /\ None \notin Tokens /\ None \notin Users
  /\ "nobody" \notin Users /\ "unclear" \notin Users
  BY SessionAssumption DEF None, Tokens

LEMMA Parts ==
  ASSUME SessionIInv
  PROVE  /\ token \in Tokens \cup {None} /\ user.tok \in Tokens \cup {None}
         /\ cookie \in Tokens \cup {None}
         /\ Issued \subseteq Tokens
         /\ \A t \in Issued : owner[t] \in Users
         /\ GetToken \in Issued \cup {None}
         /\ user # NoUser => user.tok \in Issued
         /\ user.full => user # NoUser
<1>1. /\ token \in Tokens \cup {None} /\ user.tok \in Tokens \cup {None}
      /\ cookie \in Tokens \cup {None}
  BY DEF SessionIInv, SessionTypeOK
<1>2. Issued \subseteq Tokens /\ \A t \in Issued : owner[t] \in Users
  BY DEF Issued, SessionIInv, SessionTypeOK
<1>3. GetToken \in Issued \cup {None}
  BY DEF GetToken, SessionIInv, KeysOK
<1>4. user # NoUser => user.tok \in Issued
  BY DEF SessionIInv, KeysOK
<1>5. user.full => user # NoUser
  BY DEF NoUser
<1> QED
  BY <1>1, <1>2, <1>3, <1>4, <1>5

\* A slot in use holds a whole record.
LEMMA CallParts ==
  ASSUME NEW r \in Call, r.kind # "none"
  PROVE  /\ r # NoCall
         /\ r.kind \in Kinds /\ r.who \in Users \cup {None}
         /\ r.bearer \in Tokens \cup {None} /\ r.cookie \in Tokens \cup {None}
         /\ r.stage \in Stages /\ r.tok \in Tokens \cup {None} /\ r.tries \in 1 .. MAX_RETRIES
  BY DEF Call, NoCall

LEMMA OutcomeParts ==
  ASSUME NEW r \in Call, r.kind # "none", NEW s \in Stages, NEW t \in Tokens \cup {None}
  PROVE  /\ Outcome(r, s, t) \in Call
         /\ Outcome(r, s, t).kind = r.kind /\ Outcome(r, s, t).who = r.who
         /\ Outcome(r, s, t).stage = s /\ Outcome(r, s, t).tok = t
         /\ Outcome(r, s, t).bearer = None
         /\ s = "read" => Outcome(r, s, t).cookie = r.cookie
<1>1. r \in [kind : Kinds, who : Users \cup {None}, bearer : Tokens \cup {None},
             cookie : Tokens \cup {None}, stage : Stages,
             tok : Tokens \cup {None}, tries : 1 .. MAX_RETRIES]
  BY DEF Call, NoCall
<1> QED
  BY <1>1 DEF Outcome, Call

LEMMA RequestParts ==
  ASSUME NEW kind \in Kinds, NEW who \in Users \cup {None}, NEW n \in 1 .. MAX_RETRIES,
         token' \in Tokens \cup {None}, cookie \in Tokens \cup {None}
  PROVE  /\ Request(kind, who) = [Request(kind, who) EXCEPT !.tries = 1]
         /\ \E r \in Call :
              /\ r = [Request(kind, who) EXCEPT !.tries = n]
              /\ r.kind = kind /\ r.who = who /\ r.stage = "sent"
              /\ r.bearer \in {None, token'} /\ r.cookie = cookie
<1> DEFINE r == [Request(kind, who) EXCEPT !.tries = n]
<1>1. /\ r \in Call
      /\ r.kind = kind /\ r.who = who /\ r.stage = "sent"
      /\ r.bearer \in {None, token'} /\ r.cookie = cookie
  BY DEF Request, Call, Kinds, Stages
<1>2. Request(kind, who) = [Request(kind, who) EXCEPT !.tries = 1]
  BY DEF Request
<1> QED
  BY <1>1, <1>2

LEMMA FirstAttempt == 1 \in 1 .. MAX_RETRIES
  BY SessionAssumption

LEMMA NoCallParts ==
  NoCall \in Call /\ NoCall.kind = "none" /\ NoCall.stage = "free"
  BY DEF NoCall, Call

\* LastIs never leaves a refresh under way that it speaks for.
LEMMA LastMoves ==
  ASSUME NEW u \in Users \cup {"nobody"}, LastIs(u)
  PROVE  \/ last' = "unclear"
         \/ /\ last' = u
            /\ \A c \in Calls : calls'[c].kind # "refresh"
  BY Nulls DEF LastIs, Refreshing

-----------------------------------------------------------------------------
(* The calls in flight, when one of them changes. *)

\* Tokens are only ever added to those issued.
Keeps ==
  /\ owner' \in [Tokens -> Users \cup {None}]
  /\ \A t \in Issued : t \in Issued' /\ owner'[t] = owner[t]

LEMMA KeepsSame == SessionIInv /\ owner' = owner => Keeps
  BY DEF Keeps, Issued, SessionIInv, SessionTypeOK

LEMMA CallKept ==
  ASSUME SessionIInv, Keeps, NEW c \in Calls, calls'[c] = calls[c]
  PROVE  /\ CallOK(calls[c])'
         /\ last' = last => RefreshOK(calls[c])'
<1>1. CallOK(calls[c]) /\ RefreshOK(calls[c]) /\ calls[c] \in Call
  BY DEF SessionIInv, CallsOK, SessionTypeOK
<1>2. CallOK(calls[c])'
  BY <1>1 DEF CallOK, Keeps
<1>3. ASSUME last' = last PROVE RefreshOK(calls[c])'
  <2>1. calls[c].kind = "refresh" =>
          /\ calls[c].stage = "sent" /\ calls[c].bearer # None => calls[c].bearer \in Issued
          /\ calls[c].stage = "read" => calls[c].cookie \in Issued
          /\ calls[c].stage = "ok" => calls[c].tok \in Issued
    BY <1>1 DEF CallOK
  <2> QED
    BY <1>1, <1>3, <2>1 DEF RefreshOK, Keeps
<1> QED
  BY <1>2, <1>3

LEMMA CallReplaced ==
  ASSUME SessionIInv, Keeps, NEW c \in Calls, NEW r \in Call,
         calls' = [calls EXCEPT ![c] = r], CallOK(r)'
  PROVE  /\ calls' \in [Calls -> Call]
         /\ calls'[c] = r /\ \A d \in Calls \ {c} : calls'[d] = calls[d]
         /\ \A d \in Calls : CallOK(calls[d])'
         /\ last' = last /\ RefreshOK(r)' => CallsOK'
<1>1. calls \in [Calls -> Call]
  BY DEF SessionIInv, SessionTypeOK
<1>2. /\ calls' \in [Calls -> Call]
      /\ calls'[c] = r /\ \A d \in Calls \ {c} : calls'[d] = calls[d]
  BY <1>1
<1>3. ASSUME NEW d \in Calls
      PROVE  /\ CallOK(calls[d])'
             /\ last' = last /\ RefreshOK(r)' => RefreshOK(calls[d])'
  <2>1. CASE d = c
    BY <1>2, <2>1
  <2>2. CASE d # c
    BY <1>2, <2>2, CallKept
  <2> QED
    BY <2>1, <2>2
<1> QED
  BY <1>2, <1>3 DEF CallsOK

\* A call that is over.
LEMMA CallFinished ==
  ASSUME SessionIInv, owner' = owner, NEW c \in Calls, Finish(c)
  PROVE  /\ calls' \in [Calls -> Call]
         /\ calls'[c] = NoCall /\ \A d \in Calls \ {c} : calls'[d] = calls[d]
         /\ \A d \in Calls : CallOK(calls[d])'
         /\ last' = last => CallsOK'
<1>1. CallOK(NoCall)' /\ RefreshOK(NoCall)'
  BY NoCallParts DEF CallOK, RefreshOK
<1> QED
  BY <1>1, KeepsSame, NoCallParts, CallReplaced DEF Finish

\* A call that is sent, first or again, with the token and cookie of this moment.
LEMMA CallSent ==
  ASSUME SessionIInv, owner' = owner, NEW c \in Calls,
         NEW kind \in Kinds, NEW who \in Users \cup {None}, NEW n \in 1 .. MAX_RETRIES,
         kind = "login" => who \in Users,
         token' \in {None, token},
         kind = "refresh" /\ last # "unclear" => last # "nobody",
         calls' = [calls EXCEPT ![c] = [Request(kind, who) EXCEPT !.tries = n]]
  PROVE  /\ calls' \in [Calls -> Call]
         /\ calls'[c].kind = kind /\ \A d \in Calls \ {c} : calls'[d] = calls[d]
         /\ \A d \in Calls : CallOK(calls[d])'
         /\ last' = last => CallsOK'
<1>1. PICK r \in Call :
        /\ r = [Request(kind, who) EXCEPT !.tries = n]
        /\ r.kind = kind /\ r.who = who /\ r.stage = "sent"
        /\ r.bearer \in {None, token'} /\ r.cookie = cookie
  <2>1. token' \in Tokens \cup {None} /\ cookie \in Tokens \cup {None}
    BY Parts
  <2> QED
    BY <2>1, RequestParts
<1>2. calls' = [calls EXCEPT ![c] = r]
  BY <1>1
<1>3. Issued' = Issued
  BY DEF Issued
<1>4. r.bearer # None => r.bearer = token /\ token \in Issued /\ cookie = token
  BY <1>1 DEF SessionIInv, KeysOK
<1>5. CallOK(r)'
  BY <1>1, <1>3, <1>4 DEF CallOK
<1>6. ASSUME last' = last PROVE RefreshOK(r)'
  <2>1. ASSUME last # "unclear", r.bearer # None PROVE owner[r.bearer] = last
    <3>1. GetToken = token /\ token # None
      BY <1>1, <1>4, <2>1 DEF GetToken
    <3> QED
      BY <1>4, <2>1, <3>1 DEF SessionIInv, SessionOfLastSignIn, CurrentUserId
  <2> QED
    BY <1>1, <1>6, <2>1 DEF RefreshOK
<1>7. Keeps
  BY KeepsSame
<1> QED
  BY <1>1, <1>2, <1>5, <1>6, <1>7, CallReplaced

\* A slot that a new call takes was free, so no form waits for it.
LEMMA SlotFree ==
  ASSUME SessionIInv, NEW c \in Calls, NextSlot(c)
  PROVE  calls[c] = NoCall /\ form # c
<1>1. calls[c] = NoCall
  BY DEF NextSlot, Free
<1>2. form # None => calls[form].kind = "login"
  BY DEF SessionIInv, FormAwaitsItsSignIn
<1>3. c # None
  BY DEF Calls, None
<1> QED
  BY <1>1, <1>2, <1>3, NoCallParts

-----------------------------------------------------------------------------
(* The backend and the network. *)

LEMMA InitOK == SessionInit => SessionIInv
<1> SUFFICES ASSUME SessionInit PROVE SessionIInv
  OBVIOUS
<1>1. SessionTypeOK
  BY NoCallParts, Nulls DEF SessionInit, SessionTypeOK, NoUser
<1>2. ClockOK /\ KeysOK /\ RolesOfStoredUser /\ FormAwaitsItsSignIn
  BY DEF SessionInit, ClockOK, KeysOK, RolesOfStoredUser, FormAwaitsItsSignIn, NoUser
<1>3. CallsOK
  BY NoCallParts DEF SessionInit, CallsOK, CallOK, RefreshOK
<1>4. SessionOfLastSignIn
  BY DEF SessionInit, SessionOfLastSignIn, GetToken, NoUser
<1> QED
  BY <1>1, <1>2, <1>3, <1>4 DEF SessionIInv

\* An answer without a token: it is delivered, or lost.
LEMMA AnswerStep ==
  ASSUME SessionIInv, NEW c \in Calls, NEW s \in Stages \ {"sent"}, Answer(c, s),
         calls[c].kind # "none",
         s = "ok" => calls[c].kind = "update",
         s = "read" => /\ calls[c].kind = "refresh" /\ calls[c].stage = "sent"
                       /\ calls[c].bearer # None /\ calls[c].cookie \in active,
         UNCHANGED <<clientVars, cookie, clock, last>>
  PROVE  SessionIInv'
<1>1. UNCHANGED <<token, user, roles, page, form, leaving, cookie, owner, active, soon, gone, last>>
  BY DEF Answer, clientVars, clock, serverVars
<1>2. calls[c] \in Call /\ CallOK(calls[c]) /\ RefreshOK(calls[c]) /\ None \in Tokens \cup {None}
  BY DEF SessionIInv, SessionTypeOK, CallsOK
<1>3. Keeps /\ Issued' = Issued
  BY <1>1, KeepsSame DEF Issued
<1>4. PICK r \in Call :
        /\ r = Outcome(calls[c], s, None)
        /\ r.kind = calls[c].kind /\ r.who = calls[c].who /\ r.stage = s
        /\ s = "read" => r.cookie = calls[c].cookie
  BY <1>2, OutcomeParts
<1>5. calls' = [calls EXCEPT ![c] = r]
  BY <1>4 DEF Answer
<1>6. s = "read" => /\ r.cookie \in Issued
                    /\ last # "unclear" => last # "nobody" /\ owner[r.cookie] = last
  BY <1>2, <1>4 DEF CallOK, RefreshOK, SessionIInv, ClockOK
<1>7. CallOK(r)'
  BY <1>1, <1>2, <1>3, <1>4, <1>6 DEF CallOK
<1>8. RefreshOK(r)'
  BY <1>1, <1>2, <1>4, <1>6 DEF RefreshOK
<1>9. calls' \in [Calls -> Call] /\ CallsOK' /\ calls'[c] = r /\ \A d \in Calls \ {c} : calls'[d] = calls[d]
  BY <1>1, <1>3, <1>5, <1>7, <1>8, CallReplaced
<1>10. SessionTypeOK' /\ ClockOK' /\ KeysOK' /\ RolesOfStoredUser'
  BY <1>1, <1>3, <1>9 DEF SessionIInv, SessionTypeOK, ClockOK, KeysOK, RolesOfStoredUser
<1>11. FormAwaitsItsSignIn'
  BY <1>1, <1>4, <1>9 DEF SessionIInv, SessionTypeOK, FormAwaitsItsSignIn
<1>12. SessionOfLastSignIn'
  BY <1>1 DEF SessionIInv, SessionOfLastSignIn, GetToken, CurrentUserId
<1> QED
  BY <1>9, <1>10, <1>11, <1>12 DEF SessionIInv

\* A new pair of tokens, for who signed in or whose pair is replaced.
LEMMA IssueStep ==
  ASSUME SessionIInv, NEW c \in Calls, NEW w \in Users, Issue(c, w),
         calls[c].kind \in {"login", "refresh"},
         calls[c].kind = "login" => w = calls[c].who,
         calls[c].kind = "refresh" /\ last # "unclear" => last # "nobody" /\ w = last,
         UNCHANGED <<clientVars, cookie, clock, last>>
  PROVE  SessionIInv'
<1>1. UNCHANGED <<token, user, roles, page, form, leaving, cookie, soon, gone, last>>
  BY DEF clientVars, clock
<1>2. calls[c] \in Call /\ owner \in [Tokens -> Users \cup {None}] /\ CallOK(calls[c])
  BY DEF SessionIInv, SessionTypeOK, CallsOK
<1>3. PICK t \in Tokens \ Issued :
        /\ owner' = [owner EXCEPT ![t] = w]
        /\ active' = (active \ (IF calls[c].kind = "refresh" THEN {calls[c].cookie} ELSE {})) \cup {t}
        /\ calls' = [calls EXCEPT ![c] = Outcome(calls[c], "ok", t)]
  BY <1>2 DEF Issue, SessionIInv, SessionTypeOK
<1>4. Keeps /\ t \in Issued' /\ owner'[t] = w /\ Issued \subseteq Issued'
  BY <1>2, <1>3, Nulls DEF Keeps, Issued
<1>5. PICK r \in Call :
        /\ r = Outcome(calls[c], "ok", t)
        /\ r.kind = calls[c].kind /\ r.who = calls[c].who /\ r.stage = "ok" /\ r.tok = t
  BY <1>2, <1>3, OutcomeParts DEF Stages
<1>6. calls' = [calls EXCEPT ![c] = r]
  BY <1>3, <1>5
<1>7. CallOK(r)'
  BY <1>2, <1>4, <1>5 DEF CallOK
<1>8. RefreshOK(r)'
  BY <1>1, <1>4, <1>5 DEF RefreshOK
<1>9. calls' \in [Calls -> Call] /\ CallsOK' /\ calls'[c] = r /\ \A d \in Calls \ {c} : calls'[d] = calls[d]
  BY <1>1, <1>4, <1>6, <1>7, <1>8, CallReplaced
<1>10. active' \in SUBSET Tokens
  BY <1>3 DEF SessionIInv, SessionTypeOK
<1>11. SessionTypeOK'
  BY <1>1, <1>4, <1>9, <1>10 DEF SessionIInv, SessionTypeOK, Keeps
<1>12. ClockOK'
  BY <1>1, <1>3, <1>4 DEF SessionIInv, ClockOK
<1>13. KeysOK'
  BY <1>1, <1>4 DEF SessionIInv, KeysOK
<1>14. RolesOfStoredUser'
  BY <1>1, <1>4, Parts DEF SessionIInv, RolesOfStoredUser, Keeps
<1>15. FormAwaitsItsSignIn'
  BY <1>1, <1>5, <1>9 DEF SessionIInv, SessionTypeOK, FormAwaitsItsSignIn
<1>16. SessionOfLastSignIn'
  BY <1>1, <1>4, Parts DEF SessionIInv, SessionOfLastSignIn, GetToken, CurrentUserId, Keeps
<1> QED
  BY <1>9, <1>11, <1>12, <1>13, <1>14, <1>15, <1>16 DEF SessionIInv

LEMMA ServeStep ==
  ASSUME SessionIInv, NEW c \in Calls, Serve(c) \/ Fail(c)
  PROVE  SessionIInv'
<1>1. /\ calls[c] \in Call /\ CallOK(calls[c]) /\ RefreshOK(calls[c])
      /\ active \subseteq Issued
  BY DEF SessionIInv, SessionTypeOK, CallsOK, ClockOK
<1>2. /\ {"read", "ok", "refused", "unauthorized", "lost"} \subseteq Stages \ {"sent"}
      /\ Valid(None) = FALSE
  BY Nulls DEF Stages, Valid, Issued
<1>3. CASE ServeLogin(c)
  <2>1. /\ calls[c].kind = "login" /\ calls[c].who \in Users
        /\ UNCHANGED <<clientVars, cookie, clock, last>>
    BY <1>1, <1>3 DEF ServeLogin, CallOK
  <2>2. PICK w \in Users : w = calls[c].who
    BY <2>1
  <2>3. Issue(c, w) \/ Answer(c, "refused")
    BY <1>3, <2>2 DEF ServeLogin
  <2> QED
    BY <1>2, <2>1, <2>2, <2>3, IssueStep, AnswerStep
<1>4. CASE ServeRefresh(c)
  <2>1. /\ calls[c].kind = "refresh" /\ calls[c].stage = "sent"
        /\ UNCHANGED <<clientVars, cookie, clock, last>>
    BY <1>4 DEF ServeRefresh
  <2>2. \/ Answer(c, "unauthorized") \/ Answer(c, "refused")
        \/ Answer(c, "read") /\ Valid(calls[c].bearer) /\ calls[c].cookie \in active
    BY <1>4 DEF ServeRefresh
  <2>3. Valid(calls[c].bearer) => calls[c].bearer # None
    BY <1>2
  <2> QED
    BY <1>2, <2>1, <2>2, <2>3, AnswerStep
<1>5. CASE RefuseRefresh(c) \/ ServeRevoke(c)
  <2>1. /\ calls[c].kind # "none"
        /\ Answer(c, "refused") \/ Answer(c, "unauthorized")
        /\ UNCHANGED <<clientVars, cookie, clock, last>>
    BY <1>5 DEF RefuseRefresh, ServeRevoke
  <2> QED
    BY <1>2, <2>1, AnswerStep
<1>6. CASE SaveRefresh(c)
  <2>1. /\ calls[c].kind = "refresh" /\ calls[c].stage = "read"
        /\ UNCHANGED <<clientVars, cookie, clock, last>>
        /\ Issue(c, owner[calls[c].cookie])
    BY <1>6 DEF SaveRefresh
  <2>2. PICK w \in Users : w = owner[calls[c].cookie]
    BY <1>1, <2>1, Parts DEF CallOK
  <2>3. last # "unclear" => last # "nobody" /\ w = last
    BY <1>1, <2>1, <2>2 DEF RefreshOK
  <2> QED
    BY <2>1, <2>2, <2>3, IssueStep
<1>7. CASE ServeData(c)
  <2>1. /\ calls[c].kind = "update"
        /\ UNCHANGED <<clientVars, cookie, clock, last>>
        /\ \E s \in {"ok", "refused", "unauthorized"} : Answer(c, s)
    BY <1>7 DEF ServeData
  <2> QED
    BY <1>2, <2>1, AnswerStep
<1>8. CASE Fail(c)
  <2>1. calls[c].kind # "none"
    BY <1>1, <1>8 DEF Fail, Call, NoCall, Kinds
  <2> QED
    BY <1>2, <1>8, <2>1, AnswerStep DEF Fail
<1> QED
  BY <1>3, <1>4, <1>5, <1>6, <1>7, <1>8 DEF Serve

-----------------------------------------------------------------------------
(* Answers that the tab handles. *)

\* Only a form that waits for the call that is over is given back.
LEMMA FormStep ==
  ASSUME SessionIInv, NEW c \in Calls, Finish(c),
         \/ form' = None
         \/ form' = form /\ form # c
         \/ FormFreed(c)
  PROVE  form' \in Calls \cup {None} /\ FormAwaitsItsSignIn'
<1>1. /\ calls \in [Calls -> Call] /\ form \in Calls \cup {None}
      /\ form # None => calls[form].kind = "login"
  BY DEF SessionIInv, SessionTypeOK, FormAwaitsItsSignIn
<1>2. form' = None \/ (form' = form /\ form # c)
  BY DEF FormFreed
<1>3. form' # None => calls'[form'] = calls[form]
  BY <1>1, <1>2 DEF Finish
<1> QED
  BY <1>1, <1>2, <1>3 DEF FormAwaitsItsSignIn

LEMMA NotTheForm ==
  ASSUME SessionIInv, NEW c \in Calls, calls[c].kind # "login"
  PROVE  form # c
<1>1. form # None => calls[form].kind = "login"
  BY DEF SessionIInv, FormAwaitsItsSignIn
<1>2. c # None
  BY DEF Calls, None
<1> QED
  BY <1>1, <1>2

\* login and refreshToken store what they were answered, both keys at once.
LEMMA StoreStep ==
  ASSUME SessionIInv, NEW c \in Calls, NEW t \in Issued, NEW answer,
         answer \in {SignInAnswer(t), RefreshAnswer(t)},
         StoreSession(t, answer), cookie' = t, Finish(c),
         form' \in Calls \cup {None}, FormAwaitsItsSignIn',
         UNCHANGED <<page, leaving, serverVars, clock>>,
         last' \in Users \cup {"nobody", "unclear"},
         last' # "unclear" => owner[t] = last',
         last' = last \/ last' = "unclear" \/ \A d \in Calls : calls'[d].kind # "refresh"
  PROVE  SessionIInv'
<1>1. /\ token' = t /\ user' = answer /\ roles' = None
      /\ UNCHANGED <<page, leaving, owner, active, soon, gone>>
      /\ Issued' = Issued /\ t \in Tokens
  BY Parts DEF StoreSession, serverVars, clock, Issued
<1>2. /\ answer.tok = t /\ answer \in [tok : Tokens \cup {None}, full : BOOLEAN, lapsed : BOOLEAN]
      /\ t # None
  <2>1. t \in Tokens \cup {None} /\ t # None
    BY <1>1, Nulls
  <2>2. CASE answer = SignInAnswer(t)
    BY <2>1, <2>2 DEF SignInAnswer
  <2>3. CASE answer = RefreshAnswer(t)
    BY <2>1, <2>3 DEF RefreshAnswer
  <2> QED
    BY <2>2, <2>3
<1>3. /\ calls' \in [Calls -> Call] /\ \A d \in Calls : CallOK(calls[d])'
      /\ last' = last => CallsOK'
  BY <1>1, CallFinished
<1>4. CallsOK'
  <2>1. CASE last' = last
    BY <1>3, <2>1
  <2>2. CASE last' = "unclear" \/ \A d \in Calls : calls'[d].kind # "refresh"
    <3>1. \A d \in Calls : RefreshOK(calls[d])'
      BY <2>2 DEF RefreshOK
    <3> QED
      BY <1>3, <3>1 DEF CallsOK
  <2> QED
    BY <2>1, <2>2
<1>5. SessionTypeOK'
  BY <1>1, <1>2, <1>3 DEF SessionIInv, SessionTypeOK
<1>6. ClockOK'
  BY <1>1 DEF SessionIInv, ClockOK
<1>7. KeysOK'
  BY <1>1, <1>2 DEF KeysOK
<1>8. RolesOfStoredUser'
  BY <1>1 DEF RolesOfStoredUser
<1>9. SessionOfLastSignIn'
  BY <1>1, <1>2 DEF SessionOfLastSignIn, CurrentUserId, GetToken
<1> QED
  BY <1>4, <1>5, <1>6, <1>7, <1>8, <1>9 DEF SessionIInv

LEMMA LoginStep ==
  ASSUME SessionIInv, NEW c \in Calls, LoginAnswered(c) \/ LoginRejected(c)
  PROVE  SessionIInv'
<1>1. calls[c] \in Call /\ CallOK(calls[c])
  BY DEF SessionIInv, SessionTypeOK, CallsOK
<1>2. form' \in Calls \cup {None} /\ FormAwaitsItsSignIn'
  BY FormStep DEF LoginAnswered, LoginRejected
<1>3. CASE LoginAnswered(c)
  <2>1. /\ calls[c].tok \in Issued /\ calls[c].who \in Users /\ owner[calls[c].tok] = calls[c].who
        /\ StoreSession(calls[c].tok, SignInAnswer(calls[c].tok))
        /\ cookie' = calls[c].tok /\ Finish(c) /\ LastIs(calls[c].who)
        /\ UNCHANGED <<page, leaving, serverVars, clock>>
    BY <1>1, <1>3 DEF LoginAnswered, CallOK
  <2>2. PICK t \in Issued : t = calls[c].tok
    BY <2>1
  <2>3. PICK u \in Users : u = calls[c].who
    BY <2>1
  <2>4. PICK answer : answer = SignInAnswer(t)
    OBVIOUS
  <2>5. LastIs(u)
    BY <2>1, <2>3
  <2>6. \/ last' = "unclear"
        \/ last' = u /\ \A d \in Calls : calls'[d].kind # "refresh"
    BY <2>5, LastMoves
  <2>7. StoreSession(t, answer) /\ cookie' = t /\ owner[t] = u
    BY <2>1, <2>2, <2>3, <2>4
  <2> QED
    BY <1>2, <2>1, <2>4, <2>6, <2>7, StoreStep
<1>4. CASE LoginRejected(c)
  <2>1. /\ UNCHANGED <<token, user, roles, page, leaving, cookie, owner, active, soon, gone, last>>
        /\ Finish(c)
    BY <1>4 DEF LoginRejected, serverVars, clock
  <2>2. calls' \in [Calls -> Call] /\ CallsOK' /\ Issued' = Issued
    BY <2>1, CallFinished DEF Issued
  <2>3. SessionTypeOK' /\ ClockOK' /\ KeysOK' /\ RolesOfStoredUser' /\ SessionOfLastSignIn'
    BY <1>2, <2>1, <2>2 DEF SessionIInv, SessionTypeOK, ClockOK, KeysOK, RolesOfStoredUser,
       SessionOfLastSignIn, GetToken, CurrentUserId
  <2> QED
    BY <1>2, <2>2, <2>3 DEF SessionIInv
<1> QED
  BY <1>3, <1>4

\* Both keys and the caches are cleared, and nobody is signed in.
LEMMA ClearStep ==
  ASSUME SessionIInv, ClearTokens, LastIs("nobody"),
         calls' \in [Calls -> Call], \A d \in Calls : CallOK(calls[d])',
         page' \in {"login", "inside", "unauthorized", "error"},
         form' \in Calls \cup {None}, FormAwaitsItsSignIn', leaving' \in BOOLEAN,
         UNCHANGED <<cookie, serverVars, clock>>
  PROVE  SessionIInv'
<1>1. /\ token' = None /\ user' = NoUser /\ roles' = None
      /\ UNCHANGED <<cookie, owner, active, soon, gone>> /\ Issued' = Issued
  BY DEF ClearTokens, serverVars, clock, Issued
<1>2. \/ last' = "unclear"
      \/ last' = "nobody" /\ \A d \in Calls : calls'[d].kind # "refresh"
  BY LastMoves
<1>3. CallsOK'
  BY <1>2 DEF CallsOK, RefreshOK
<1>4. SessionTypeOK'
  BY <1>1, <1>2 DEF SessionIInv, SessionTypeOK, NoUser
<1>5. ClockOK' /\ KeysOK' /\ RolesOfStoredUser' /\ SessionOfLastSignIn'
  BY <1>1 DEF SessionIInv, ClockOK, KeysOK, RolesOfStoredUser, SessionOfLastSignIn, GetToken, NoUser
<1> QED
  BY <1>3, <1>4, <1>5 DEF SessionIInv

LEMMA RefreshStep ==
  ASSUME SessionIInv, NEW c \in Calls, RefreshAnswered(c) \/ RefreshFailed(c)
  PROVE  SessionIInv'
<1>1. /\ calls[c] \in Call /\ CallOK(calls[c]) /\ RefreshOK(calls[c])
      /\ calls[c].kind = "refresh" /\ form' = form
  BY DEF SessionIInv, SessionTypeOK, CallsOK, RefreshAnswered, RefreshFailed
<1>2. form' \in Calls \cup {None} /\ FormAwaitsItsSignIn'
  BY <1>1, NotTheForm, FormStep DEF RefreshAnswered, RefreshFailed
<1>3. CASE RefreshAnswered(c)
  <2>1. /\ calls[c].tok \in Issued
        /\ last # "unclear" => owner[calls[c].tok] = last
        /\ StoreSession(calls[c].tok, RefreshAnswer(calls[c].tok))
        /\ cookie' = calls[c].tok /\ Finish(c) /\ last' = last
        /\ UNCHANGED <<page, leaving, serverVars, clock>>
    BY <1>1, <1>3 DEF RefreshAnswered, CallOK, RefreshOK
  <2>2. PICK t \in Issued : t = calls[c].tok
    BY <2>1
  <2>3. PICK answer : answer = RefreshAnswer(t)
    OBVIOUS
  <2>4. /\ StoreSession(t, answer) /\ cookie' = t
        /\ last' # "unclear" => owner[t] = last'
    BY <2>1, <2>2, <2>3
  <2>5. last' \in Users \cup {"nobody", "unclear"}
    BY <2>1 DEF SessionIInv, SessionTypeOK
  <2> QED
    BY <1>2, <2>1, <2>3, <2>4, <2>5, StoreStep
<1>4. CASE RefreshFailed(c)
  <2>1. /\ ClearTokens /\ Finish(c) /\ LastIs("nobody")
        /\ UNCHANGED <<page, cookie, serverVars, clock>> /\ owner' = owner
        /\ leaving' = (leaving \/ calls[c].stage = "unauthorized")
    BY <1>4 DEF RefreshFailed, serverVars
  <2>2. leaving' \in BOOLEAN /\ page' \in {"login", "inside", "unauthorized", "error"}
    BY <2>1 DEF SessionIInv, SessionTypeOK
  <2>3. calls' \in [Calls -> Call] /\ \A d \in Calls : CallOK(calls[d])'
    BY <2>1, CallFinished
  <2> QED
    BY <1>2, <2>1, <2>2, <2>3, ClearStep
<1> QED
  BY <1>3, <1>4

\* A 401 takes the token away; what else a call of the pages changes is the cache
\* of the roles.
LEMMA OtherStep ==
  ASSUME SessionIInv, NEW c \in Calls, RevokeAnswered(c) \/ DataAnswered(c)
  PROVE  SessionIInv'
<1>1. /\ calls[c].kind # "login" /\ Finish(c)
      /\ UNCHANGED <<user, page, form, cookie, owner, active, soon, gone, last>>
      /\ \/ token' = token /\ leaving' = leaving
         \/ token' = None /\ leaving' = TRUE
      /\ roles' \in {roles, None}
  BY DEF RevokeAnswered, DataAnswered, Unauthorized, serverVars, clock
<1>2. form' \in Calls \cup {None} /\ FormAwaitsItsSignIn'
  BY <1>1, NotTheForm, FormStep
<1>3. calls' \in [Calls -> Call] /\ CallsOK' /\ Issued' = Issued
  BY <1>1, CallFinished DEF Issued
<1>4. SessionTypeOK'
  BY <1>1, <1>2, <1>3 DEF SessionIInv, SessionTypeOK
<1>5. ClockOK' /\ KeysOK' /\ RolesOfStoredUser'
  BY <1>1, <1>3 DEF SessionIInv, ClockOK, KeysOK, RolesOfStoredUser
<1>6. GetToken' = GetToken \/ GetToken' = None
  BY <1>1 DEF GetToken, SessionIInv, KeysOK, NoUser
<1>7. SessionOfLastSignIn'
  BY <1>1, <1>6 DEF SessionIInv, SessionOfLastSignIn, CurrentUserId
<1> QED
  BY <1>2, <1>3, <1>4, <1>5, <1>7 DEF SessionIInv

\* executeWithRetry sends the same request with what the storage holds now.
LEMMA RetryStep ==
  ASSUME SessionIInv, NEW c \in Calls, Retry(c)
  PROVE  SessionIInv'
<1>1. /\ UNCHANGED <<token, user, roles, page, form, leaving, cookie, owner, active, soon, gone, last>>
      /\ calls[c].stage = "lost" /\ calls[c].tries < MAX_RETRIES
      /\ calls' = [calls EXCEPT ![c] =
           [Request(calls[c].kind, calls[c].who) EXCEPT !.tries = calls[c].tries + 1]]
  BY DEF Retry, clientVars, serverVars, clock
<1>2. calls[c] \in Call /\ CallOK(calls[c]) /\ RefreshOK(calls[c])
  BY DEF SessionIInv, SessionTypeOK, CallsOK
<1>3. calls[c].kind # "none"
  BY <1>1, <1>2 DEF Call, NoCall, Kinds
<1>4. /\ calls[c].kind \in Kinds /\ calls[c].who \in Users \cup {None}
      /\ calls[c].tries + 1 \in 1 .. MAX_RETRIES
  BY <1>1, <1>2, <1>3, CallParts, SessionAssumption
<1>5. PICK kind \in Kinds : kind = calls[c].kind
  BY <1>4
<1>6. PICK who \in Users \cup {None} : who = calls[c].who
  BY <1>4
<1>7. PICK n \in 1 .. MAX_RETRIES : n = calls[c].tries + 1
  BY <1>4
<1>8. /\ calls' = [calls EXCEPT ![c] = [Request(kind, who) EXCEPT !.tries = n]]
      /\ kind = "login" => who \in Users
      /\ kind = "refresh" /\ last # "unclear" => last # "nobody"
      /\ owner' = owner /\ token' \in {None, token}
  BY <1>1, <1>2, <1>5, <1>6, <1>7 DEF CallOK, RefreshOK
<1>9. /\ calls' \in [Calls -> Call] /\ CallsOK'
      /\ calls'[c].kind = kind /\ \A d \in Calls \ {c} : calls'[d] = calls[d]
  BY <1>1, <1>8, CallSent
<1>10. Issued' = Issued
  BY <1>1 DEF Issued
<1>11. SessionTypeOK' /\ ClockOK' /\ KeysOK' /\ RolesOfStoredUser'
  BY <1>1, <1>9, <1>10 DEF SessionIInv, SessionTypeOK, ClockOK, KeysOK, RolesOfStoredUser
<1>12. FormAwaitsItsSignIn'
  BY <1>1, <1>5, <1>9 DEF SessionIInv, SessionTypeOK, FormAwaitsItsSignIn
<1>13. SessionOfLastSignIn'
  BY <1>1 DEF SessionIInv, SessionOfLastSignIn, GetToken, CurrentUserId
<1> QED
  BY <1>9, <1>11, <1>12, <1>13 DEF SessionIInv

-----------------------------------------------------------------------------
(* What the user and the pages start. *)

\* A request that leaves the storage as it is, a sign-in or another.
LEMMA SendStep ==
  ASSUME SessionIInv, NEW c \in Calls, NEW kind \in Kinds, NEW who \in Users \cup {None},
         Send(c, kind, who),
         kind = "login" => who \in Users,
         kind = "refresh" /\ last # "unclear" => last # "nobody",
         token' \in {None, token}, owner' = owner
  PROVE  /\ calls' \in [Calls -> Call]
         /\ calls'[c].kind = kind /\ \A d \in Calls \ {c} : calls'[d] = calls[d]
         /\ \A d \in Calls : CallOK(calls[d])'
         /\ last' = last => CallsOK'
         /\ form # c
<1>1. token' \in Tokens \cup {None} /\ cookie \in Tokens \cup {None}
  BY Parts
<1>2. Request(kind, who) = [Request(kind, who) EXCEPT !.tries = 1]
  BY <1>1, FirstAttempt, RequestParts
<1>3. calls' = [calls EXCEPT ![c] = [Request(kind, who) EXCEPT !.tries = 1]]
  BY <1>2 DEF Send
<1>4. form # c
  BY SlotFree DEF Send
<1> QED
  BY <1>3, <1>4, FirstAttempt, CallSent

\* Somebody whose token is at hand did sign in.
LEMMA SignedIn ==
  ASSUME SessionIInv, GetToken # None, last # "unclear"
  PROVE  last # "nobody"
  BY Parts, Nulls DEF SessionIInv, SessionOfLastSignIn, CurrentUserId

LEMMA SignInStep ==
  ASSUME SessionIInv, NEW c \in Calls, NEW u \in Users, SignIn(c, u)
  PROVE  SessionIInv'
<1>1. /\ UNCHANGED <<token, user, roles, page, leaving, cookie, owner, active, soon, gone, last>>
      /\ form' = c /\ Send(c, "login", u) /\ Issued' = Issued
  BY DEF SignIn, serverVars, clock, Issued
<1>2. calls' \in [Calls -> Call] /\ CallsOK' /\ calls'[c].kind = "login"
  BY <1>1, SendStep DEF Kinds
<1>3. SessionTypeOK' /\ ClockOK' /\ KeysOK' /\ RolesOfStoredUser' /\ FormAwaitsItsSignIn'
  BY <1>1, <1>2 DEF SessionIInv, SessionTypeOK, ClockOK, KeysOK, RolesOfStoredUser,
     FormAwaitsItsSignIn
<1>4. SessionOfLastSignIn'
  BY <1>1 DEF SessionIInv, SessionOfLastSignIn, GetToken, CurrentUserId
<1> QED
  BY <1>2, <1>3, <1>4 DEF SessionIInv

\* Any other request from a handler that leaves the storage alone.
LEMMA QuietSend ==
  ASSUME SessionIInv, NEW c \in Calls, NEW kind \in Kinds \ {"login"}, NEW who \in Users \cup {None},
         Send(c, kind, who),
         kind = "refresh" /\ last # "unclear" => last # "nobody",
         UNCHANGED <<clientVars, cookie, serverVars, clock, last>>
  PROVE  SessionIInv'
<1>1. /\ UNCHANGED <<token, user, roles, page, form, leaving, cookie, owner, active, soon, gone, last>>
      /\ Issued' = Issued
  BY DEF clientVars, serverVars, clock, Issued
<1>2. /\ calls' \in [Calls -> Call] /\ CallsOK' /\ form # c
      /\ \A d \in Calls \ {c} : calls'[d] = calls[d]
  BY <1>1, SendStep
<1>3. SessionTypeOK' /\ ClockOK' /\ KeysOK' /\ RolesOfStoredUser'
  BY <1>1, <1>2 DEF SessionIInv, SessionTypeOK, ClockOK, KeysOK, RolesOfStoredUser
<1>4. FormAwaitsItsSignIn'
  BY <1>1, <1>2 DEF SessionIInv, SessionTypeOK, FormAwaitsItsSignIn
<1>5. SessionOfLastSignIn'
  BY <1>1 DEF SessionIInv, SessionOfLastSignIn, GetToken, CurrentUserId
<1> QED
  BY <1>2, <1>3, <1>4, <1>5 DEF SessionIInv

LEMMA RenewStep ==
  ASSUME SessionIInv, NEW c \in Calls,
         GetValidAccessToken(c) \/ CheckAndRefreshToken(c) \/ SaveProfile(c)
  PROVE  SessionIInv'
<1>1. /\ calls \in [Calls -> Call] /\ \A d \in Calls : CallOK(calls[d])
      /\ form \in Calls \cup {None} /\ FormAwaitsItsSignIn
      /\ page \in {"login", "inside", "unauthorized", "error"} /\ leaving \in BOOLEAN
  BY DEF SessionIInv, SessionTypeOK, CallsOK
<1>2. CASE /\ ClearTokens /\ LastIs("nobody")
           /\ UNCHANGED <<calls, page, form, leaving, cookie, serverVars, clock>>
  <2>1. owner' = owner /\ Keeps
    BY <1>2, KeepsSame DEF serverVars
  <2>2. \A d \in Calls : CallOK(calls[d])'
    BY <1>2, <2>1, CallKept
  <2>3. FormAwaitsItsSignIn'
    BY <1>1, <1>2 DEF FormAwaitsItsSignIn
  <2> QED
    BY <1>1, <1>2, <2>2, <2>3, ClearStep
<1>3. CASE /\ GetToken # None /\ Send(c, "refresh", None)
           /\ UNCHANGED <<clientVars, cookie, serverVars, clock, last>>
  BY <1>3, SignedIn, QuietSend DEF Kinds
<1>4. CASE SaveProfile(c)
  <2>1. /\ user.full /\ Send(c, "update", owner[user.tok])
        /\ UNCHANGED <<clientVars, cookie, serverVars, clock, last>>
    BY <1>4 DEF SaveProfile
  <2>2. PICK who \in Users : who = owner[user.tok]
    BY <2>1, Parts
  <2> QED
    BY <2>1, <2>2, QuietSend DEF Kinds
<1> QED
  BY <1>2, <1>3, <1>4 DEF GetValidAccessToken, CheckAndRefreshToken, clientVars

LEMMA LogoutStep ==
  ASSUME SessionIInv, NEW c \in Calls, Logout(c)
  PROVE  SessionIInv'
<1>1. /\ ClearTokens /\ LastIs("nobody") /\ token' = None
      /\ page' = "login" /\ form' = None /\ leaving' = leaving /\ owner' = owner
      /\ UNCHANGED <<cookie, serverVars, clock>>
      /\ Send(c, "revoke", None) \/ calls' = calls
  BY DEF Logout, ClearTokens, serverVars
<1>2. leaving' \in BOOLEAN /\ FormAwaitsItsSignIn'
  BY <1>1 DEF SessionIInv, SessionTypeOK, FormAwaitsItsSignIn
<1>3. calls' \in [Calls -> Call] /\ \A d \in Calls : CallOK(calls[d])'
  <2>1. CASE Send(c, "revoke", None)
    BY <1>1, <2>1, SendStep DEF Kinds
  <2>2. CASE calls' = calls
    BY <1>1, <2>2, KeepsSame, CallKept DEF SessionIInv, SessionTypeOK
  <2> QED
    BY <1>1, <2>1, <2>2
<1> QED
  BY <1>1, <1>2, <1>3, ClearStep

LEMMA ReloadStep ==
  ASSUME SessionIInv, Reload
  PROVE  SessionIInv'
<1>1. /\ UNCHANGED <<token, user, cookie, owner, active, soon, gone, last>>
      /\ leaving' = FALSE /\ page' = "login" /\ form' = None /\ roles' = None
      /\ calls' = [c \in Calls |-> NoCall] /\ Issued' = Issued
  BY DEF Reload, serverVars, clock, Issued
<1>2. calls' \in [Calls -> Call]
  BY <1>1, NoCallParts
<1>3. CallsOK'
  BY <1>1, NoCallParts DEF CallsOK, CallOK, RefreshOK
<1>4. SessionTypeOK' /\ ClockOK' /\ KeysOK' /\ RolesOfStoredUser' /\ FormAwaitsItsSignIn'
  BY <1>1, <1>2 DEF SessionIInv, SessionTypeOK, ClockOK, KeysOK, RolesOfStoredUser,
     FormAwaitsItsSignIn
<1>5. SessionOfLastSignIn'
  BY <1>1 DEF SessionIInv, SessionOfLastSignIn, GetToken, CurrentUserId
<1> QED
  BY <1>3, <1>4, <1>5 DEF SessionIInv

\* The guard of a page reads the storage, may cache the roles it finds there and may
\* drop a user whose session has expired.
LEMMA OpenStep ==
  ASSUME SessionIInv, NEW c \in Calls, NEW p \in Routes, OpenProtected(p, c)
  PROVE  SessionIInv'
<1>1. /\ UNCHANGED <<token, leaving, cookie, owner, active, soon, gone, last>>
      /\ form' = None /\ page' \in {"login", "inside", "unauthorized", "error"}
      /\ Issued' = Issued
  BY DEF OpenProtected, serverVars, clock, Issued
<1>2. /\ calls' = calls \/ (Send(c, "refresh", None) /\ GetToken \in soon)
      /\ \/ UNCHANGED <<user, roles>>
         \/ user' = NoUser /\ roles' = roles
         \/ user' = user /\ roles' = GetUserRoles /\ user.full
  BY DEF OpenProtected, GuardCrashes
<1>3. calls' \in [Calls -> Call] /\ CallsOK'
  <2>1. CASE calls' = calls
    BY <1>1, <2>1, KeepsSame, CallKept DEF CallsOK, SessionIInv, SessionTypeOK
  <2>2. CASE Send(c, "refresh", None) /\ GetToken \in soon
    <3>1. GetToken # None
      BY <2>2, Nulls DEF SessionIInv, SessionTypeOK
    <3> QED
      BY <1>1, <2>2, <3>1, SignedIn, SendStep DEF Kinds
  <2> QED
    BY <1>2, <2>1, <2>2
<1>4. GetUserRoles \in Users \cup {None}
  BY Parts DEF GetUserRoles, SessionIInv, SessionTypeOK
<1>5. roles' \in Users \cup {None}
  BY <1>2, <1>4 DEF SessionIInv, SessionTypeOK
<1>6. user' \in [tok : Tokens \cup {None}, full : BOOLEAN, lapsed : BOOLEAN]
  <2>1. NoUser \in [tok : Tokens \cup {None}, full : BOOLEAN, lapsed : BOOLEAN]
    BY DEF NoUser
  <2>2. user' = user \/ user' = NoUser
    BY <1>2
  <2> QED
    BY <2>1, <2>2 DEF SessionIInv, SessionTypeOK
<1>7. SessionTypeOK' /\ ClockOK' /\ FormAwaitsItsSignIn'
  BY <1>1, <1>3, <1>5, <1>6 DEF SessionIInv, SessionTypeOK, ClockOK, FormAwaitsItsSignIn
<1>8. KeysOK'
  BY <1>1, <1>2 DEF SessionIInv, KeysOK, NoUser
<1>9. RolesOfStoredUser'
  BY <1>1, <1>2, Parts DEF SessionIInv, RolesOfStoredUser, GetUserRoles
<1>10. GetToken' = GetToken \/ GetToken' = None
  BY <1>1, <1>2 DEF GetToken, NoUser
<1>11. SessionOfLastSignIn'
  BY <1>1, <1>10 DEF SessionIInv, SessionOfLastSignIn, CurrentUserId
<1> QED
  BY <1>3, <1>7, <1>8, <1>9, <1>11 DEF SessionIInv

LEMMA TimeStep ==
  ASSUME SessionIInv, ExpiresSoon \/ Expires \/ StatedLapses
  PROVE  SessionIInv'
<1>1. /\ UNCHANGED <<token, roles, page, form, leaving, calls, cookie, owner, active, last>>
      /\ user' \in {user, [user EXCEPT !.lapsed = TRUE]}
      /\ Issued' = Issued
  BY DEF ExpiresSoon, Expires, StatedLapses, clientVars, serverVars, clock, Issued
<1>2. user \in [tok : Tokens \cup {None}, full : BOOLEAN, lapsed : BOOLEAN]
  BY DEF SessionIInv, SessionTypeOK
<1>3. /\ user' \in [tok : Tokens \cup {None}, full : BOOLEAN, lapsed : BOOLEAN]
      /\ user'.tok = user.tok /\ user'.full = user.full
      /\ user' # user => user # NoUser
  BY <1>1, <1>2 DEF ExpiresSoon, Expires, StatedLapses, clientVars
<1>4. soon' \in SUBSET Tokens /\ gone' \in SUBSET Tokens /\ ClockOK'
  BY <1>1, Parts DEF ExpiresSoon, Expires, StatedLapses, clock, SessionIInv, SessionTypeOK, ClockOK
<1>5. SessionTypeOK'
  BY <1>1, <1>3, <1>4 DEF SessionIInv, SessionTypeOK
<1>6. user = NoUser => user' = NoUser
  BY <1>3
<1>7. KeysOK'
  BY <1>1, <1>3, <1>6 DEF SessionIInv, KeysOK
<1>8. RolesOfStoredUser'
  BY <1>1, <1>3, <1>6 DEF SessionIInv, RolesOfStoredUser
<1>9. CallsOK'
  BY <1>1, KeepsSame, CallKept DEF CallsOK
<1>10. FormAwaitsItsSignIn' /\ SessionOfLastSignIn'
  BY <1>1, <1>3 DEF SessionIInv, FormAwaitsItsSignIn, SessionOfLastSignIn, GetToken, CurrentUserId
<1> QED
  BY <1>4, <1>5, <1>7, <1>8, <1>9, <1>10 DEF SessionIInv

-----------------------------------------------------------------------------
LEMMA SessionStep == SessionIInv /\ [SessionNext]_sessionVars => SessionIInv'
<1> SUFFICES ASSUME SessionIInv, [SessionNext]_sessionVars PROVE SessionIInv'
  OBVIOUS
<1>1. ASSUME NEW c \in Calls, Serve(c) \/ Fail(c) PROVE SessionIInv'
  BY <1>1, ServeStep
<1>2. ASSUME NEW c \in Calls, Answered(c) PROVE SessionIInv'
  BY <1>2, LoginStep, RefreshStep, OtherStep, RetryStep DEF Answered
<1>3. ASSUME NEW c \in Calls, NEW u \in Users, SignIn(c, u) PROVE SessionIInv'
  BY <1>3, SignInStep
<1>4. ASSUME NEW c \in Calls, GetValidAccessToken(c) \/ CheckAndRefreshToken(c) \/ SaveProfile(c)
      PROVE  SessionIInv'
  BY <1>4, RenewStep
<1>5. ASSUME NEW c \in Calls, Logout(c) PROVE SessionIInv'
  BY <1>5, LogoutStep
<1>6. ASSUME NEW c \in Calls, NEW p \in Routes, OpenProtected(p, c) PROVE SessionIInv'
  BY <1>6, OpenStep
<1>7. CASE Reload
  BY <1>7, ReloadStep
<1>8. CASE ExpiresSoon \/ Expires \/ StatedLapses
  BY <1>8, TimeStep
<1>9. CASE UNCHANGED sessionVars
  <2>1. /\ UNCHANGED <<token, user, roles, page, form, leaving, calls, cookie, owner, active,
                       soon, gone, last>>
        /\ Issued' = Issued
    BY <1>9 DEF sessionVars, clientVars, serverVars, clock, Issued
  <2>2. CallsOK'
    BY <2>1, KeepsSame, CallKept DEF CallsOK
  <2> QED
    BY <2>1, <2>2 DEF SessionIInv, SessionTypeOK, ClockOK, KeysOK, RolesOfStoredUser,
       FormAwaitsItsSignIn, SessionOfLastSignIn, GetToken, CurrentUserId
<1> QED
  BY <1>1, <1>2, <1>3, <1>4, <1>5, <1>6, <1>7, <1>8, <1>9 DEF SessionNext

LEMMA SessionInvariant == SessionSpec => []SessionIInv
<1>1. SessionInit => SessionIInv
  BY InitOK
<1>2. SessionIInv /\ [SessionNext]_sessionVars => SessionIInv'
  BY SessionStep
<1> QED
  BY <1>1, <1>2, PTL DEF SessionSpec

\* Storage, cookie and the cached roles tell one session, and nobody is shown the
\* roles of the person before (AuthenticationService.ts).
THEOREM OneSession == SessionSpec => []SessionInv
<1>1. SessionIInv => SessionInv
  BY DEF SessionIInv, SessionInv, ClockOK, KeysOK
<1> QED
  BY <1>1, SessionInvariant, PTL

\* The session in storage is that of the last one who signed in and has not signed out,
\* unless a refresh was under way when somebody signed in or out, whose answer may
\* bring an earlier session back (AuthenticationService.ts).
THEOREM LastSignInHolds == SessionSpec => []SessionOfLastSignIn
<1>1. SessionIInv => SessionOfLastSignIn
  BY DEF SessionIInv
<1> QED
  BY <1>1, SessionInvariant, PTL

\* A sign-in form waits only for a sign-in that is in flight (login/page.tsx).
THEOREM FormsAreFreed == SessionSpec => []FormAwaitsItsSignIn
<1>1. SessionIInv => FormAwaitsItsSignIn
  BY DEF SessionIInv
<1> QED
  BY <1>1, SessionInvariant, PTL
=============================================================================
