------------------------------- MODULE AccountPages -------------------------------
(***************************************************************************)
(* The pages of a user's own account: the form that makes it (app/register) *)
(* and the card that changes it (app/profile, ProfileCard). The server is   *)
(* that of AuthController, of which only what these pages read is here.     *)
(***************************************************************************)
EXTENDS PageShell

CONSTANTS
  Typed,        \* what may be typed into a field besides nothing: "ok", "ok2", and "bad", which no rule accepts
  MaxRegisters, \* bound on the forms sent
  MaxSaves      \* bound on the PUTs of a profile

Entries == Typed \cup {""}

-----------------------------------------------------------------------------
\* The registration form.

\* The inputs, each with its error below.
NameInputs == {"firstName", "lastName", "userName", "email"}
PasswordInputs == {"password", "confirmPassword"}
NumberInputs == {"phoneNumber", "age"}
\* Gender and favourite team, which no rule is about.
ChoiceInputs == {"gender", "FavoriteTeamId"}
RegisterInputs == NameInputs \cup PasswordInputs \cup NumberInputs \cup ChoiceInputs
\* An empty form, or one in which everything but the age is filled in.
RegisterInit ==
  \E form \in {[f \in RegisterInputs |-> ""], [f \in RegisterInputs |-> IF f = "age" THEN "" ELSE "ok"]} :
    page = [name |-> "register", clicks |-> 0, form |-> form, errors |-> {}, loading |-> FALSE,
            serverError |-> FALSE, shown |-> {}, sent |-> None, sends |-> 0, accounts |-> {}, gone |-> FALSE]

\* The rules of each field by itself.
ErrorsButMismatch(form) ==
  {f \in {"firstName", "lastName", "email", "password"} : form[f] \in {"", "bad"}}
  \cup {f \in NumberInputs : form[f] = "bad"}
  \cup (IF form["userName"] \in {"", "bad"} THEN {"firstName"} ELSE {})
\* validateForm: the fields beside which an error is put; that of the user name is
\* put beside the first name.
Errors(form) ==
  ErrorsButMismatch(form)
  \cup (IF form["password"] # form["confirmPassword"] THEN {"confirmPassword"} ELSE {})

\* handleInputChange, also while a form is under way: the field's error goes.
FillIn(f, v) ==
  /\ ~page.gone /\ v # page.form[f]
  /\ Click([form |-> [page.form EXCEPT ![f] = v], errors |-> page.errors \ {f}])
\* The eye beside a password.
TogglePassword(f) ==
  /\ ~page.gone
  /\ Click([shown |-> IF f \in page.shown THEN page.shown \ {f} ELSE page.shown \cup {f}])
\* The list under a password that has been started: its length, and whether it is the
\* one typed again.
Requirements ==
  IF page.form["password"] = "" THEN {}
  ELSE (IF page.form["password"] # "bad" THEN {"length"} ELSE {})
       \cup (IF page.form["confirmPassword"] # "" /\ page.form["password"] = page.form["confirmPassword"]
             THEN {"match"} ELSE {})

\* The button is disabled meanwhile.
CanRegister == ~page.loading /\ ~page.gone
RegisterSubmit ==
  /\ CanRegister /\ page.sends < MaxRegisters
  /\ IF Errors(page.form) # {}
     THEN Click([serverError |-> FALSE, errors |-> Errors(page.form)])
     ELSE Click([serverError |-> FALSE, errors |-> {}, loading |-> TRUE, sends |-> page.sends + 1,
                 sent |-> [form |-> page.form, answer |-> None]])
\* Register: refused if the user's names are taken, and without an age, because an
\* empty one is no int.
Registrable(form) ==
  form["age"] # "" /\ \A a \in page.accounts : a["email"] # form["email"] /\ a["userName"] # form["userName"]
RegisterHandled ==
  /\ page.sent # None /\ page.sent.answer = None
  /\ LET form == page.sent.form  ok == Registrable(form) IN
       Change([accounts |-> IF ok THEN page.accounts \cup {form} ELSE page.accounts,
               sent |-> [page.sent EXCEPT !.answer = IF ok THEN "made" ELSE "refused"]])
\* Answered, or lost on the way there or back: uploadForm asks once.
Registered ==
  /\ page.sent # None
  /\ \/ page.sent.answer # None /\ page.sent.answer = "made" /\ Change([loading |-> FALSE, sent |-> None, gone |-> TRUE])
     \/ Change([loading |-> FALSE, sent |-> None, serverError |-> TRUE])

RegisterNext ==
  /\ On("register")
  /\ \/ RegisterSubmit \/ RegisterHandled \/ Registered
     \/ \E f \in RegisterInputs, v \in Entries : FillIn(f, v)
     \/ \E f \in PasswordInputs : TogglePassword(f)

-----------------------------------------------------------------------------
\* The profile.

\* The rows of the card. UpdateUserDto has no user name: the server drops it.
ProfileFields == {"username", "email", "age"}
ServerFields == {"email", "age"}
Stored == [f \in ProfileFields |-> "ok"]
\* What the cache and the page hold once the answer of an update is taken for the
\* profile: it has none of a profile's fields.
Answer == [f \in ProfileFields |-> None]

\* The card is mounted with the profile that the page fetched.
Shows(profile, known) ==
  [profile |-> profile, known |-> known, card |-> profile, edit |-> None, draft |-> "", file |-> FALSE,
   saving |-> None, feedback |-> None]
ProfileInit ==
  page = Shows(Stored, TRUE)
         ++ [name |-> "profile", clicks |-> 0, server |-> Stored, images |-> 0, cached |-> None,
             localName |-> "ok", puts |-> 0, lost |-> FALSE]

\* getUserProfile, with the cache in front of it.
Fetched == IF page.cached = None THEN page.server ELSE page.cached
\* The page is left and opened again.
OpenProfile ==
  /\ page.saving = None
  /\ Click(Shows(Fetched, page.cached = None))

\* Opening another row drops the draft of this one.
StartEdit(f) ==
  Click([edit |-> f, draft |-> IF page.card[f] = None THEN "" ELSE page.card[f]])
CancelEdit == page.edit # None /\ page.saving = None /\ Click([edit |-> None])
Draft(v) == page.edit # None /\ v # page.draft /\ Click([draft |-> v])

\* Wrong: only the field being edited is sent.
ChangedOnly(card, f) == {f}
\* handleProfileSave compares the card with the page's profile.
Changed(card, f) == {g \in ProfileFields : card[g] # page.profile[g]}

\* A save begins with the image, if one is to be sent, or with the fields.
Begun(card, f, file) ==
  [card |-> card, feedback |-> None,
   saving |-> [step |-> IF file THEN "image" ELSE "fields", card |-> card, fields |-> Changed(card, f),
               known |-> page.known, file |-> page.file, handled |-> FALSE]]
\* saveEdit
SaveEdit ==
  /\ page.edit # None /\ page.saving = None
  /\ Click([edit |-> None] ++ Begun([page.card EXCEPT ![page.edit] = page.draft], page.edit, page.file))
\* handleAvatarChange: saved at once, and kept for the next save.
ChooseAvatar ==
  /\ page.saving = None
  /\ Click([file |-> TRUE] ++ Begun(page.card, "email", TRUE))

\* The user page asks with the id that its profile has: that of an answer is missing.
SaveHandled ==
  /\ page.puts < MaxSaves /\ page.saving # None /\ page.saving.known /\ ~page.saving.handled
  /\ page.saving.step = "image" \/ page.saving.fields # {}
  /\ LET s == page.saving IN
       Change([puts |-> page.puts + 1, saving |-> [s EXCEPT !.handled = TRUE]]
              ++ IF s.step = "image" THEN [images |-> page.images + 1]
                 ELSE [server |-> [f \in ProfileFields |->
                         IF f \in s.fields \cap ServerFields THEN s.card[f] ELSE page.server[f]]])
Done(feedback) ==
  [saving |-> None, feedback |-> feedback,
   file |-> page.file /\ ~(feedback = "success" /\ page.saving.file)]
\* The answer of the image's PUT replaces the cached profile; then the fields are sent.
ImageSaved ==
  /\ page.saving # None /\ page.saving.step = "image" /\ page.saving.handled
  /\ Change([cached |-> Answer,
             saving |-> [page.saving EXCEPT !.step = "fields", !.handled = FALSE]])
\* The answer of the fields' PUT does so as well, and is then read back.
FieldsSaved ==
  /\ page.saving # None /\ page.saving.step = "fields" /\ page.saving.handled
  /\ Change([cached |-> Answer, profile |-> Answer, known |-> FALSE,
             localName |-> IF "username" \in page.saving.fields THEN page.saving.card["username"] ELSE page.localName]
            ++ Done("success"))
NothingToSave ==
  /\ page.saving # None /\ page.saving.step = "fields" /\ page.saving.fields = {}
  /\ Change(Done("success"))
\* Refused, or lost three times, there or back: what was handled is then not known.
SaveFailed ==
  /\ page.saving # None
  /\ page.saving.step = "image" \/ page.saving.fields # {}
  /\ Change(Done("error") ++ [lost |-> page.lost \/ page.saving.handled])
\* Three seconds after any save.
FeedbackGone == page.feedback # None /\ Change([feedback |-> None])

ProfileNext ==
  /\ On("profile")
  /\ \/ OpenProfile \/ CancelEdit \/ SaveEdit \/ ChooseAvatar
     \/ SaveHandled \/ ImageSaved \/ FieldsSaved \/ NothingToSave \/ SaveFailed \/ FeedbackGone
     \/ \E f \in ProfileFields : StartEdit(f)
     \/ \E v \in {"ok", "ok2"} : Draft(v)

-----------------------------------------------------------------------------
\* null is no text, no form that is under way and no save.
Texts == {"", "ok", "ok2"}
SentForm == [form : [RegisterInputs -> Entries], answer : {None, "made", "refused"}]
Profile == [ProfileFields -> Texts \cup {None}]
Save == [step : {"image", "fields"}, card : Profile, fields : SUBSET ProfileFields, known : BOOLEAN,
         file : BOOLEAN, handled : BOOLEAN]
ASSUME AccountAssumption ==
  /\ None \notin SentForm /\ None \notin Save /\ None \notin Texts \cup {"made", "success"}
  /\ "ok" \in Typed

-----------------------------------------------------------------------------
\* Forms are typed into while they are under way, answers are lost, saves fail in the
\* middle: an account is only made with the password typed twice and with every rule
\* of the form met, no name twice, and the user is only sent to sign in when one was
\* made; the card only says "Profile updated!" when the server holds every field
\* shown, those of earlier saves that failed too, except the user name, which
\* AuthController's UpdateUserDto does not take, and unless the answer of a save was
\* lost: a field then edited back is not sent (profile/page.tsx:119).
SavedAsShown ==
  /\ On("register") =>
       /\ \A a \in page.accounts :
            /\ a["password"] = a["confirmPassword"] /\ a["age"] # ""
            /\ \A f \in {"firstName", "lastName", "userName", "email", "password"} : a[f] \notin {"", "bad"}
       /\ \A a, b \in page.accounts : a["email"] = b["email"] => a = b
       /\ page.gone => page.accounts # {} /\ ~page.serverError
       /\ page.loading <=> page.sent # None
  /\ On("profile") =>
       (page.feedback = "success" /\ ~page.lost => \A f \in ServerFields : page.server[f] = page.card[f])
=============================================================================
