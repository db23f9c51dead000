----------------------------- MODULE Dashboard -----------------------------
(***************************************************************************)
(* The asynchronous functions of DashboardApp against an API whose answers *)
(* are left open: a call may be answered, refused, answered with 401, or   *)
(* fail on the way, before or after the API has acted on it.  A function   *)
(* goes on after each await with the values of the render it was called    *)
(* in, while the user goes on using the screen.                            *)
(***************************************************************************)
EXTENDS DashboardScreen

CONSTANTS
    Calls,  \* bound: that many functions wait for an answer at a time
    Over    \* a call that is over

VARIABLES
    cookie,  \* whose refresh token the browser keeps
    calls    \* the functions that wait for an answer

vars == <<ui, cookie, calls>>

Writes == {"saveCampaign", "deleteCampaign", "saveUser", "deleteUser", "provision"}
Kinds == Writes \union {"restore", "login", "logout", "listUsers"}

\* What a waiting function holds: the request it is at ("main", or "load",
\* the list it loads afterwards), the fetch it awaits, the cookie a refresh
\* was sent with, the row it writes, the row its form was filled from, and
\* the row that was being edited when it was called; ran counts how often
\* the API has acted on its write (history).
Call == [kind : Kinds, part : {"main", "load"},
         await : {"request", "refresh", "retry"},
         sent : Users \union {None},
         target : Campaigns \union Users \union {None},
         form : Campaigns \union Users \union {None},
         editing : Campaigns \union Users \union {None},
         ran : 0 .. 2]
ASSUME OverAssumption == Over \notin Call

Open(i) == calls[i] # Over

\* The loading flag a function sets first and clears in its finally block.
FlagOf(kind) ==
    CASE kind = "restore" -> "session"
      [] kind = "login" -> "auth"
      [] kind \in {"saveCampaign", "deleteCampaign"} -> "campaign"
      [] kind \in {"deleteUser", "listUsers"} -> "users"
      [] kind = "saveUser" -> "editingUser"
      [] kind = "provision" -> "provisioning"
      [] OTHER -> "none"

\* The list a function loads when its request has succeeded.
ListOf(kind) ==
    CASE kind \in {"restore", "login", "saveCampaign", "deleteCampaign"} -> "syncing"
      [] kind \in {"saveUser", "deleteUser", "listUsers"} -> "users"
      [] OTHER -> "none"

New(kind, target, form, editing) ==
    [kind |-> kind, part |-> "main", await |-> "request", sent |-> None,
     target |-> target, form |-> form, editing |-> editing, ran |-> 0]

\* A function is called from the screen u and runs up to its first await.
Start(i, u, call) ==
    /\ ~Open(i)
    /\ calls' = [calls EXCEPT ![i] = call]
    /\ ui' = Raise(u, FlagOf(call.kind))
    /\ UNCHANGED cookie

HandleLoginSubmit(i) ==
    LoginForm(ui) /\ Start(i, ui, New("login", None, None, None))

\* void logoutSession(); clearSession()
Logout(i) ==
    /\ SignedIn(ui) /\ ~Open(i)
    /\ calls' = [calls EXCEPT ![i] = New("logout", None, None, None)]
    /\ ui' = ClearSession(ui)
    /\ UNCHANGED cookie

\* openUsersModal, which calls loadUsers
OpenUsersModal(i) ==
    /\ AdminButtons(ui)
    /\ Start(i, [CloseProvisionModal(ui) EXCEPT !.usersModal = TRUE],
             [New("listUsers", None, None, None) EXCEPT !.part = "load"])

HandleProvisionUserSubmit(i) ==
    ProvisionForm(ui) /\ Start(i, ui, New("provision", None, None, None))

HandleManagedUserSubmit(i) ==
    /\ UserForm(ui)
    /\ Start(i, ui, New("saveUser", ui.editingUser, ui.userForm, ui.editingUser))

HandleDeleteManagedUser(i) ==
    \E u \in UserButtons(ui) :
        Start(i, ui, New("deleteUser", u, None, ui.editingUser))

HandleCampaignSubmit(i) ==
    /\ CampaignForm(ui)
    /\ Start(i, ui, New("saveCampaign", ui.editing, ui.form, ui.editing))

HandleDeleteCampaign(i) ==
    /\ "campaign" \notin ui.busy
    /\ \E c \in CampaignButtons(ui) :
         Start(i, ui, New("deleteCampaign", c, None, ui.editing))

Press(i) ==
    \/ HandleLoginSubmit(i) \/ Logout(i) \/ OpenUsersModal(i)
    \/ HandleProvisionUserSubmit(i) \/ HandleManagedUserSubmit(i)
    \/ HandleDeleteManagedUser(i) \/ HandleCampaignSubmit(i)
    \/ HandleDeleteCampaign(i)

----------------------------------------------------------------------------
\* The finally block
Finish(i, u) ==
    /\ calls' = [calls EXCEPT ![i] = Over]
    /\ ui' = Lower(u, FlagOf(calls[i].kind))

\* Mutant of FinishFailed: the flag is cleared where the request succeeds.
FinishFailedLoading(i, u) == calls' = [calls EXCEPT ![i] = Over] /\ ui' = u

FinishFailed(i, u) == Finish(i, u)

\* What is done before the list is loaded; a modal is closed if the row it
\* showed when the function was called is the one that was deleted.
Settled(u, call) ==
    CASE call.kind = "deleteCampaign" /\ call.editing = call.target
           -> CloseCampaignModal(u)
      [] call.kind = "deleteUser" /\ call.editing = call.target
           -> ResetManagedUserDraft(u)
      [] OTHER -> u

\* What is done last
Done(u, call) ==
    CASE call.kind = "saveCampaign" -> CloseCampaignModal(u)
      [] call.kind = "saveUser" -> ResetManagedUserDraft(u)
      [] call.kind = "provision" -> CloseProvisionModal(u)
      [] OTHER -> u

\* loadCampaigns and loadUsers set their flag and send their request.
Load(i, call, u) ==
    /\ calls' = [calls EXCEPT ![i] =
                    [call EXCEPT !.part = "load", !.await = "request", !.sent = None]]
    /\ ui' = Raise(u, ListOf(call.kind))

\* The lists are whatever the API answers.
Loaded(u, kind, data) ==
    IF ListOf(kind) = "syncing" THEN [u EXCEPT !.campaigns = data]
                                ELSE [u EXCEPT !.managed = data]
Lists(kind) == IF ListOf(kind) = "syncing" THEN SUBSET Campaigns ELSE SUBSET Users

\* runAuthenticatedRequest returns to its caller.
ReturnOk(i, call) ==
    IF call.part = "main"
    THEN IF ListOf(call.kind) = "none"
         THEN Finish(i, Done(ui, call))
         ELSE Load(i, call, Settled(ui, call))
    ELSE \E data \in Lists(call.kind) :
           Finish(i, Done(Lower(Loaded(ui, call.kind, data), ListOf(call.kind)), call))

\* It throws: the caller of a list goes on, the others end.
Throw(i, call, u) ==
    IF call.part = "main"
    THEN FinishFailed(i, IF call.kind = "restore" THEN ClearSession(u) ELSE u)
    ELSE FinishFailed(i, Done(Lower(u, ListOf(call.kind)), call))

\* Mutant of CallsForRefresh: every failure is taken for an expired token.
CallsForRefreshAnyway(answer) == answer # "ok"

CallsForRefresh(answer) == answer = "401"

Authenticated(call) == call.part = "load" \/ call.kind \in Writes
Acted(call, answer) ==
    IF call.part = "load" THEN {call.ran}
    ELSE CASE answer = "ok" -> {call.ran + 1}
           [] answer = "lost" -> {call.ran, call.ran + 1}
           [] OTHER -> {call.ran}

\* runAuthenticatedRequest, first fetch
AnswerRequest(i) ==
    /\ Open(i) /\ calls[i].await = "request" /\ Authenticated(calls[i])
    /\ \E answer \in {"ok", "refused", "lost", "401"} :
         \E ran \in Acted(calls[i], answer) :
            LET call == [calls[i] EXCEPT !.ran = ran] IN
            IF CallsForRefresh(answer)
            THEN /\ calls' = [calls EXCEPT ![i] =
                                [call EXCEPT !.await = "refresh", !.sent = cookie]]
                 /\ UNCHANGED ui
            ELSE IF answer = "ok" THEN ReturnOk(i, call) ELSE Throw(i, call, ui)
    /\ UNCHANGED cookie

\* The Set-Cookie header of an answer that arrives
SetRefreshTokenCookie(u) == cookie' = u
ClearRefreshTokenCookie == cookie' = None

\* refreshSession: the answer sets the cookie and the session.
AnswerRefresh(i) ==
    /\ Open(i) /\ calls[i].await = "refresh"
    /\ \/ /\ calls[i].sent # None
          /\ SetRefreshTokenCookie(calls[i].sent)
          /\ LET u == [ui EXCEPT !.user = calls[i].sent] IN
             IF calls[i].kind = "restore" /\ calls[i].part = "main"
             THEN Load(i, calls[i], u)
             ELSE /\ calls' = [calls EXCEPT ![i].await = "retry", ![i].sent = None]
                  /\ ui' = u
       \/ Throw(i, calls[i], ui) /\ UNCHANGED cookie

\* runAuthenticatedRequest, second fetch: a second 401 ends the session.
AnswerRetry(i) ==
    /\ Open(i) /\ calls[i].await = "retry"
    /\ \E answer \in {"ok", "refused", "lost", "401"} :
         \E ran \in Acted(calls[i], answer) :
            LET call == [calls[i] EXCEPT !.ran = ran] IN
            CASE answer = "ok" -> ReturnOk(i, call)
              [] answer = "401" -> Throw(i, call, ClearSession(ui))
              [] OTHER -> Throw(i, call, ui)
    /\ UNCHANGED cookie

\* handleLoginSubmit
AnswerLogin(i) ==
    /\ Open(i) /\ calls[i].kind = "login" /\ calls[i].part = "main"
    /\ \/ \E u \in Users :
            /\ SetRefreshTokenCookie(u)
            /\ Load(i, calls[i], [ui EXCEPT !.user = u])
       \/ Throw(i, calls[i], ui) /\ UNCHANGED cookie

\* logoutSession: nobody waits for it; its answer clears the cookie.
AnswerLogout(i) ==
    /\ Open(i) /\ calls[i].kind = "logout"
    /\ ClearRefreshTokenCookie \/ UNCHANGED cookie
    /\ calls' = [calls EXCEPT ![i] = Over]
    /\ UNCHANGED ui

Answer(i) ==
    AnswerRequest(i) \/ AnswerRefresh(i) \/ AnswerRetry(i)
        \/ AnswerLogin(i) \/ AnswerLogout(i)

----------------------------------------------------------------------------
\* The page is opened, which calls restoreSession.
Init ==
    /\ ui = InitialScreen
    /\ cookie \in Users \union {None}
    /\ \E i \in Calls :
         calls = [j \in Calls |->
                    IF j = i THEN [New("restore", None, None, None)
                                     EXCEPT !.await = "refresh", !.sent = cookie]
                             ELSE Over]

Next == \/ Touch /\ UNCHANGED <<cookie, calls>>
        \/ \E i \in Calls : Press(i) \/ Answer(i)

Spec == Init /\ [][Next]_vars

----------------------------------------------------------------------------
\* The modals are there only for somebody who is signed in.
TypeOK ==
    /\ ui \in Screen
    /\ ~SignedIn(ui) => CloseAll(ui) = ui
    /\ cookie \in Users \union {None}
    /\ calls \in [Calls -> Call \union {Over}]

\* A loading flag is up only while a function waits that will clear it: no
\* button stays disabled for good, whatever fails or overlaps, also when the
\* user has logged out in between.  (the finally blocks of
\* dashboard-app.tsx:449-1047)
BusyIsOwned ==
    \A f \in ui.busy : \E i \in Calls :
        /\ Open(i)
        /\ \/ f = FlagOf(calls[i].kind)
           \/ f = ListOf(calls[i].kind) /\ calls[i].part = "load"

\* The buttons that a flag disables keep two writes of a kind from being
\* under way together; logging out and in again does not open a gap.
\* (dashboard-app.tsx:1475-1484, 1636, 1886 and 2104)
Guarded == {"login", "saveUser", "provision", "saveCampaign", "deleteCampaign"}
OneWriteAtATime ==
    \A i, j \in Calls :
        /\ Open(i) /\ Open(j)
        /\ calls[i].kind \in Guarded /\ FlagOf(calls[i].kind) = FlagOf(calls[j].kind)
        => i = j

\* What is sent to the row of a campaign or of a user was filled from that
\* row, and what is sent as a new campaign was filled from none, although
\* answers that arrive late close modals and reset drafts.
\* (dashboard-app.tsx:279-302, 904-918 and 951-960)
SavesWhatItShows ==
    \A i \in Calls :
        Open(i) /\ calls[i].kind \in {"saveCampaign", "saveUser"}
            => calls[i].target = calls[i].form

\* However often tokens expire, the API acts on a write at most once, and on
\* every write the user is told has succeeded.
\* (dashboard-app.tsx:393-411)
TakesEffectOnce ==
    \A i \in Calls : Open(i) =>
        /\ calls[i].ran <= 1
        /\ calls[i].kind \in Writes /\ calls[i].part = "load" => calls[i].ran = 1

\* A logout that overlaps nothing else is final: with nobody signed in and
\* no function waiting but logouts and logins that are not answered yet,
\* nothing is started and nobody appears before a login is answered.
\* (dashboard-app.tsx:279-302 and 361-372)
Out ==
    /\ ~SignedIn(ui)
    /\ \A i \in Calls : Open(i) =>
         calls[i].kind \in {"logout", "login"} /\ calls[i].part = "main"
LoggedInBy(i) ==
    /\ Open(i) /\ calls[i].kind = "login"
    /\ Open(i)' /\ calls'[i].part = "load"
OutUntilLogin == [][Out => Out' \/ \E i \in Calls : LoggedInBy(i)]_vars

\* Somebody appears on the screen only by signing in or when the page is
\* opened: once logged out, the screen stays so.
\* (dashboard-app.tsx:361-372 and 1197-1204)
LogoutSticks ==
    [][~SignedIn(ui) /\ SignedIn(ui)'
         => \E i \in Calls : /\ Open(i) /\ calls'[i] # calls[i]
                             /\ calls[i].kind \in {"login", "restore"}]_vars
=============================================================================
