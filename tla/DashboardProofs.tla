-------------------------- MODULE DashboardProofs --------------------------
(***************************************************************************)
(* Proofs about Dashboard, for any number of accounts, campaigns and       *)
(* functions that wait at the same time.                                   *)
(*                                                                         *)
(* The invariant IInv says what the screen looks like between two events   *)
(* (ScreenOK), what a waiting function holds (CallOK), and adds the two    *)
(* properties about loading flags, which need each other: a flag is        *)
(* lowered by the one function that raised it.                             *)
(***************************************************************************)
EXTENDS Dashboard, TLAPS

\* Nothing but the lists is left to somebody who is not signed in.
Bare(u) ==
    /\ ~u.campaignModal /\ ~u.usersModal /\ ~u.provisionModal
    /\ u.editing = None /\ u.form = None
    /\ u.editingUser = None /\ u.userForm = None

ScreenOK(u) ==
    /\ u \in Screen
    /\ u.editing = u.form /\ u.editingUser = u.userForm
    /\ u.user = None => Bare(u)

CallOK(call, busy) ==
    /\ call \in Call
    /\ call.ran = (IF call.part = "load" /\ call.kind \in Writes THEN 1 ELSE 0)
    /\ call.part = "main" /\ call.await = "refresh"
         => call.kind \in Writes \union {"restore"}
    /\ call.part = "main" /\ call.await = "retry" => call.kind \in Writes
    /\ call.kind \in {"saveCampaign", "saveUser"} => call.target = call.form
    /\ call.kind \in Guarded => FlagOf(call.kind) \in busy

IInv ==
    /\ ScreenOK(ui)
    /\ cookie \in Users \union {None}
    /\ calls \in [Calls -> Call \union {Over}]
    /\ \A i \in Calls : Open(i) => CallOK(calls[i], ui.busy)
    /\ BusyIsOwned /\ OneWriteAtATime

----------------------------------------------------------------------------
LEMMA FlagFacts ==
    /\ \A k \in Kinds : FlagOf(k) \in Flags \union {"none"}
    /\ \A k \in Kinds \ {"logout"} : FlagOf(k) \in Flags
    /\ FlagOf("logout") = "none"
    /\ \A k \in Kinds : ListOf(k) \in {"syncing", "users", "none"}
    /\ \A k \in Guarded : k \in Kinds /\ FlagOf(k) \notin {"syncing", "users", "none"}
    /\ \A k \in Guarded, l \in Kinds : FlagOf(k) = FlagOf(l) => l \in Guarded
    /\ {"syncing", "users"} \subseteq Flags /\ "none" \notin Flags
BY DEF FlagOf, ListOf, Kinds, Writes, Flags, Guarded

\* Closing modals, resetting drafts and clearing the session leave a proper
\* screen and every flag.
LEMMA Closings ==
    ASSUME NEW u, ScreenOK(u)
    PROVE  /\ ScreenOK(ResetCampaignDraft(u)) /\ ResetCampaignDraft(u).busy = u.busy
           /\ ScreenOK(ResetManagedUserDraft(u))
           /\ ResetManagedUserDraft(u).busy = u.busy
           /\ ScreenOK(CloseProvisionModal(u)) /\ CloseProvisionModal(u).busy = u.busy
           /\ ScreenOK(CloseUsersModal(u)) /\ CloseUsersModal(u).busy = u.busy
           /\ ScreenOK(CloseCampaignModal(u)) /\ CloseCampaignModal(u).busy = u.busy
           /\ ScreenOK(ClearSession(u)) /\ ClearSession(u).busy = u.busy
<1> USE ScreenAssumption DEF ScreenOK, Screen, Bare
<1>1. ScreenOK(ResetCampaignDraft(u)) /\ ResetCampaignDraft(u).busy = u.busy
    BY DEF ResetCampaignDraft
<1>2. ScreenOK(ResetManagedUserDraft(u)) /\ ResetManagedUserDraft(u).busy = u.busy
    BY DEF ResetManagedUserDraft
<1>3. ScreenOK(CloseProvisionModal(u)) /\ CloseProvisionModal(u).busy = u.busy
    BY DEF CloseProvisionModal
<1>4. ScreenOK(CloseUsersModal(u)) /\ CloseUsersModal(u).busy = u.busy
    BY DEF CloseUsersModal, ResetManagedUserDraft
<1>5. ScreenOK(CloseCampaignModal(u)) /\ CloseCampaignModal(u).busy = u.busy
    BY DEF CloseCampaignModal, ResetCampaignDraft
<1>6. ScreenOK(ClearSession(u)) /\ ClearSession(u).busy = u.busy
    BY DEF ClearSession, CloseAll, CloseUsersModal, CloseProvisionModal,
           CloseCampaignModal, ResetCampaignDraft, ResetManagedUserDraft
<1> QED  BY <1>1, <1>2, <1>3, <1>4, <1>5, <1>6

LEMMA DoneSettled ==
    ASSUME NEW u, ScreenOK(u), NEW call
    PROVE  /\ ScreenOK(Done(u, call)) /\ Done(u, call).busy = u.busy
           /\ ScreenOK(Settled(u, call)) /\ Settled(u, call).busy = u.busy
BY Closings DEF Done, Settled

LEMMA FlagsMove ==
    ASSUME NEW u, ScreenOK(u), NEW flag
    PROVE  /\ ScreenOK(Lower(u, flag)) /\ Lower(u, flag).busy = u.busy \ {flag}
           /\ flag \in Flags =>
                ScreenOK(Raise(u, flag)) /\ Raise(u, flag).busy = u.busy \union {flag}
BY DEF Lower, Raise, ScreenOK, Screen, Bare

----------------------------------------------------------------------------
\* A function ends: its flags come down.
LEMMA Ends ==
    ASSUME IInv, NEW i \in Calls, Open(i), calls' = [calls EXCEPT ![i] = Over],
           ScreenOK(ui'), cookie' \in Users \union {None},
           ui'.busy = (ui.busy \ (IF calls[i].part = "load"
                                  THEN {ListOf(calls[i].kind)} ELSE {}))
                      \ {FlagOf(calls[i].kind)}
    PROVE  IInv'
<1>1. /\ ~Open(i)'
      /\ \A j \in Calls \ {i} : calls'[j] = calls[j] /\ (Open(j)' <=> Open(j))
      /\ calls' \in [Calls -> Call \union {Over}]
    BY DEF IInv, Open
<1>2. \A j \in Calls : Open(j) => CallOK(calls[j], ui.busy) /\ calls[j].kind \in Kinds
    BY DEF IInv, CallOK, Call
<1>3. ASSUME NEW j \in Calls, Open(j)' PROVE CallOK(calls'[j], ui'.busy)
  <2>1. j # i /\ calls'[j] = calls[j] /\ Open(j)
      BY <1>1, <1>3
  <2>2. calls[j].kind \in Guarded => FlagOf(calls[j].kind) # FlagOf(calls[i].kind)
      BY <2>1 DEF IInv, OneWriteAtATime
  <2>3. calls[j].kind \in Guarded => FlagOf(calls[j].kind) # ListOf(calls[i].kind)
      BY <1>2, FlagFacts
  <2> QED  BY <1>2, <2>1, <2>2, <2>3 DEF CallOK
<1>4. BusyIsOwned'
    BY <1>1 DEF IInv, BusyIsOwned
<1>5. OneWriteAtATime'
    BY <1>1 DEF IInv, OneWriteAtATime
<1> QED  BY <1>1, <1>3, <1>4, <1>5 DEF IInv

\* A function goes on, or begins: the flags it answers for go up.
LEMMA GoesOn ==
    ASSUME IInv, NEW i \in Calls, NEW call, CallOK(call, ui'.busy),
           calls' = [calls EXCEPT ![i] = call], call # Over,
           ScreenOK(ui'), cookie' \in Users \union {None},
           ui.busy \subseteq ui'.busy,
           \A f \in ui'.busy \ ui.busy :
              \/ f = FlagOf(call.kind)
              \/ f = ListOf(call.kind) /\ call.part = "load",
           \/ /\ Open(i) /\ call.kind = calls[i].kind
              /\ calls[i].part = "load" => call.part = "load"
           \/ /\ ~Open(i)
              /\ call.kind \in Guarded => FlagOf(call.kind) \notin ui.busy
    PROVE  IInv'
<1>1. /\ Open(i)' /\ calls'[i] = call
      /\ \A j \in Calls \ {i} : calls'[j] = calls[j] /\ (Open(j)' <=> Open(j))
    BY DEF IInv, Open
<1>2. calls' \in [Calls -> Call \union {Over}]
    BY DEF IInv, CallOK
<1>3. \A j \in Calls : Open(j)' => CallOK(calls'[j], ui'.busy)
    BY <1>1 DEF IInv, CallOK
<1>4. BusyIsOwned'
    BY <1>1 DEF IInv, BusyIsOwned
<1>5. ASSUME NEW j \in Calls, j # i, Open(j),
             FlagOf(call.kind) = FlagOf(calls[j].kind),
             call.kind \in Guarded \/ calls[j].kind \in Guarded
      PROVE  FALSE
  <2>1. calls[j].kind \in Kinds /\ call.kind \in Kinds
      BY <1>5 DEF IInv, CallOK, Call
  <2>2. call.kind \in Guarded /\ calls[j].kind \in Guarded
      BY <1>5, <2>1, FlagFacts
  <2>3. FlagOf(calls[j].kind) \in ui.busy
      BY <1>5, <2>2 DEF IInv, CallOK
  <2>4. CASE ~Open(i)
      BY <1>5, <2>2, <2>3, <2>4
  <2>5. CASE Open(i) /\ call.kind = calls[i].kind
      BY <1>5, <2>2, <2>5 DEF IInv, OneWriteAtATime
  <2> QED  BY <2>4, <2>5
<1>6. OneWriteAtATime'
    BY <1>1, <1>5 DEF IInv, OneWriteAtATime
<1> QED  BY <1>1, <1>2, <1>3, <1>4, <1>6 DEF IInv

----------------------------------------------------------------------------
LEMMA Initially == Init => IInv
<1> SUFFICES ASSUME Init PROVE IInv
    OBVIOUS
<1> USE ScreenAssumption, OverAssumption
<1>1. ScreenOK(ui)
    BY DEF Init, InitialScreen, ScreenOK, Screen, Bare, Flags
<1>2. PICK i \in Calls :
        calls = [j \in Calls |->
                   IF j = i THEN [New("restore", None, None, None)
                                    EXCEPT !.await = "refresh", !.sent = cookie]
                            ELSE Over]
    BY DEF Init
<1>3. /\ calls[i] = [kind |-> "restore", part |-> "main", await |-> "refresh",
                     sent |-> cookie, target |-> None, form |-> None,
                     editing |-> None, ran |-> 0]
      /\ \A j \in Calls : j # i => calls[j] = Over
    BY <1>2 DEF New
<1>4. cookie \in Users \union {None}
    BY DEF Init
<1>5. CallOK(calls[i], ui.busy)
    BY <1>3, <1>4 DEF CallOK, Call, Kinds, Writes, Guarded
<1>6. calls \in [Calls -> Call \union {Over}]
    BY <1>2, <1>3, <1>5 DEF CallOK
<1>7. ui.busy = {"session"} /\ FlagOf("restore") = "session" /\ Open(i)
    BY <1>3, <1>5 DEF Init, InitialScreen, FlagOf, CallOK, Open
<1>8. BusyIsOwned /\ OneWriteAtATime
    BY <1>3, <1>7 DEF BusyIsOwned, OneWriteAtATime, Open
<1> QED  BY <1>1, <1>3, <1>4, <1>5, <1>6, <1>8 DEF IInv, Open

LEMMA TouchPreserves ==
    ASSUME IInv, Touch, UNCHANGED <<cookie, calls>>
    PROVE  IInv'
<1> USE ScreenAssumption
<1>0. ScreenOK(ui)
    BY DEF IInv
<1>1. ScreenOK(ui') /\ ui'.busy = ui.busy
  <2>1. CASE OpenProvisionModal
    <3>1. /\ ScreenOK(CloseUsersModal(ui))
          /\ CloseUsersModal(ui).busy = ui.busy
          /\ CloseUsersModal(ui).user = ui.user
        BY <1>0, Closings DEF CloseUsersModal, ResetManagedUserDraft, ScreenOK, Screen
    <3>2. ui.user # None
        BY <1>0, <2>1 DEF OpenProvisionModal, AdminButtons, ScreenOK, Bare
    <3> QED  BY <2>1, <3>1, <3>2 DEF OpenProvisionModal, ScreenOK, Screen
  <2>2. CASE StartManagedUserEdit
      BY <1>0, <2>2 DEF StartManagedUserEdit, UserButtons, ScreenOK, Screen, Bare
  <2>3. CASE OpenCreateCampaignModal
    <3>1. /\ ScreenOK(ResetCampaignDraft(ui))
          /\ ResetCampaignDraft(ui).busy = ui.busy
          /\ ResetCampaignDraft(ui).user = ui.user
        BY <1>0, Closings DEF ResetCampaignDraft, ScreenOK, Screen
    <3> QED  BY <2>3, <3>1 DEF OpenCreateCampaignModal, SignedIn, ScreenOK, Screen
  <2>4. CASE HandleEditCampaign
      BY <1>0, <2>4
      DEF HandleEditCampaign, CampaignButtons, SignedIn, ScreenOK, Screen, Bare
  <2>5. CASE HandleEscape \/ Cancel
      BY <1>0, <2>5, Closings DEF HandleEscape, Cancel
  <2> QED  BY <2>1, <2>2, <2>3, <2>4, <2>5 DEF Touch
<1>2. calls' = calls /\ cookie' = cookie
    OBVIOUS
<1> QED  BY <1>1, <1>2 DEF IInv, BusyIsOwned, OneWriteAtATime, Open

----------------------------------------------------------------------------
\* A function that is called from a proper screen
LEMMA Starts ==
    ASSUME IInv, NEW i \in Calls, NEW u, ScreenOK(u), u.busy = ui.busy,
           NEW call, Start(i, u, call), call \in Call, call.kind # "logout",
           call.await = "request", call.ran = 0,
           call.part = "main" \/ call.kind = "listUsers",
           call.kind \in {"saveCampaign", "saveUser"} => call.target = call.form,
           call.kind \in Guarded => FlagOf(call.kind) \notin ui.busy
    PROVE  IInv'
<1>1. call.kind \in Kinds /\ FlagOf(call.kind) \in Flags
    BY FlagFacts DEF Call
<1>2. /\ ScreenOK(ui') /\ ui'.busy = ui.busy \union {FlagOf(call.kind)}
      /\ calls' = [calls EXCEPT ![i] = call] /\ cookie' = cookie /\ ~Open(i)
    BY <1>1, FlagsMove DEF Start
<1>3. CallOK(call, ui'.busy)
    BY <1>2 DEF CallOK, Writes
<1>4. call # Over
    BY OverAssumption
<1> QED  BY <1>2, <1>3, <1>4, GoesOn DEF IInv

LEMMA NewTyped ==
    ASSUME NEW kind \in Kinds, NEW target \in Campaigns \union Users \union {None},
           NEW form \in Campaigns \union Users \union {None},
           NEW editing \in Campaigns \union Users \union {None}
    PROVE  New(kind, target, form, editing) \in Call
BY DEF New, Call

LEMMA PressPreserves ==
    ASSUME IInv, NEW i \in Calls, Press(i)
    PROVE  IInv'
<1> USE ScreenAssumption
<1>0. ScreenOK(ui) /\ ui \in Screen
    BY DEF IInv, ScreenOK
<1>f. /\ FlagOf("login") = "auth" /\ FlagOf("provision") = "provisioning"
      /\ FlagOf("saveUser") = "editingUser" /\ FlagOf("saveCampaign") = "campaign"
      /\ FlagOf("deleteCampaign") = "campaign"
    BY DEF FlagOf
<1>k. Writes \union {"login", "logout", "listUsers"} \subseteq Kinds
      /\ {"deleteUser", "listUsers"} \cap Guarded = {}
    BY DEF Kinds, Writes, Guarded
<1>1. CASE HandleLoginSubmit(i)
  <2> DEFINE call == New("login", None, None, None)
  <2>1. call \in Call
      BY <1>k, NewTyped
  <2> QED  BY <1>0, <1>1, <1>f, <2>1, Starts DEF HandleLoginSubmit, LoginForm, New
<1>2. CASE Logout(i)
  <2> DEFINE call == New("logout", None, None, None)
  <2>1. call \in Call /\ call # Over
      BY <1>k, NewTyped, OverAssumption
  <2>2. ScreenOK(ui') /\ ui'.busy = ui.busy
      BY <1>0, <1>2, Closings DEF Logout
  <2>3. CallOK(call, ui'.busy)
      BY <2>1 DEF CallOK, New, Writes, Guarded
  <2>4. call.kind \notin Guarded
      BY DEF New, Guarded
  <2> QED  BY <1>2, <2>1, <2>2, <2>3, <2>4, GoesOn DEF Logout, IInv
<1>3. CASE OpenUsersModal(i)
  <2> DEFINE u == [CloseProvisionModal(ui) EXCEPT !.usersModal = TRUE]
             call == [New("listUsers", None, None, None) EXCEPT !.part = "load"]
  <2>1. call \in Call /\ call.kind = "listUsers" /\ call.await = "request"
        /\ call.ran = 0
      BY <1>k DEF New, Call
  <2>2. ui.user # None
      BY <1>3 DEF OpenUsersModal, AdminButtons
  <2>3. ScreenOK(u) /\ u.busy = ui.busy
    <3>1. /\ ScreenOK(CloseProvisionModal(ui))
          /\ CloseProvisionModal(ui).busy = ui.busy
          /\ CloseProvisionModal(ui).user = ui.user
        BY <1>0, Closings DEF CloseProvisionModal, Screen
    <3> QED  BY <2>2, <3>1 DEF ScreenOK, Screen
  <2> HIDE DEF u, call
  <2>4. Start(i, u, call)
      BY <1>3 DEF OpenUsersModal, u, call
  <2> QED  BY <1>k, <2>1, <2>3, <2>4, Starts
<1>4. CASE HandleProvisionUserSubmit(i)
  <2> DEFINE call == New("provision", None, None, None)
  <2>1. call \in Call
      BY <1>k, NewTyped DEF Writes
  <2> QED  BY <1>0, <1>4, <1>f, <2>1, Starts
           DEF HandleProvisionUserSubmit, ProvisionForm, New
<1>5. CASE HandleManagedUserSubmit(i)
  <2> DEFINE call == New("saveUser", ui.editingUser, ui.userForm, ui.editingUser)
  <2>1. call \in Call /\ ui.editingUser = ui.userForm
      BY <1>0, <1>k, NewTyped DEF Writes, ScreenOK, Screen
  <2> QED  BY <1>0, <1>5, <1>f, <2>1, Starts
           DEF HandleManagedUserSubmit, UserForm, New
<1>6. CASE HandleDeleteManagedUser(i)
  <2>1. PICK u \in UserButtons(ui) :
          Start(i, ui, New("deleteUser", u, None, ui.editingUser))
      BY <1>6 DEF HandleDeleteManagedUser
  <2>2. u \in Users /\ ui.editingUser \in Users \union {None}
      BY <1>0 DEF UserButtons, Screen
  <2>3. New("deleteUser", u, None, ui.editingUser) \in Call
      BY <1>k, <2>2, NewTyped DEF Writes
  <2> QED  BY <1>0, <1>k, <2>1, <2>3, Starts DEF New
<1>7. CASE HandleCampaignSubmit(i)
  <2> DEFINE call == New("saveCampaign", ui.editing, ui.form, ui.editing)
  <2>1. call \in Call /\ ui.editing = ui.form
      BY <1>0, <1>k, NewTyped DEF Writes, ScreenOK, Screen
  <2> QED  BY <1>0, <1>7, <1>f, <2>1, Starts
           DEF HandleCampaignSubmit, CampaignForm, New
<1>8. CASE HandleDeleteCampaign(i)
  <2>1. PICK c \in CampaignButtons(ui) :
          Start(i, ui, New("deleteCampaign", c, None, ui.editing))
      BY <1>8 DEF HandleDeleteCampaign
  <2>2. c \in Campaigns /\ ui.editing \in Campaigns \union {None}
      BY <1>0 DEF CampaignButtons, Screen
  <2>3. New("deleteCampaign", c, None, ui.editing) \in Call
      BY <1>k, <2>2, NewTyped DEF Writes
  <2> QED  BY <1>0, <1>8, <1>f, <2>1, <2>3, Starts DEF HandleDeleteCampaign, New
<1> QED  BY <1>1, <1>2, <1>3, <1>4, <1>5, <1>6, <1>7, <1>8 DEF Press

----------------------------------------------------------------------------
LEMMA FinishPreserves ==
    ASSUME IInv, NEW i \in Calls, Open(i), NEW u, ScreenOK(u), Finish(i, u),
           cookie' \in Users \union {None},
           u.busy = ui.busy \ (IF calls[i].part = "load"
                               THEN {ListOf(calls[i].kind)} ELSE {})
    PROVE  IInv'
<1> DEFINE v == Lower(u, FlagOf(calls[i].kind))
<1>1. ScreenOK(v) /\ v.busy = u.busy \ {FlagOf(calls[i].kind)}
    BY FlagsMove
<1>2. ui' = v /\ calls' = [calls EXCEPT ![i] = Over]
    BY DEF Finish
<1> HIDE DEF v
<1> QED  BY <1>1, <1>2, Ends

LEMMA ThrowPreserves ==
    ASSUME IInv, NEW i \in Calls, Open(i), NEW call,
           call.part = calls[i].part, call.kind = calls[i].kind,
           NEW u, ScreenOK(u), u.busy = ui.busy, Throw(i, call, u),
           cookie' \in Users \union {None}
    PROVE  IInv'
<1>1. calls[i].part \in {"main", "load"}
    BY DEF IInv, CallOK, Call
<1>2. CASE call.part = "main"
    BY <1>2, Closings, FinishPreserves DEF Throw, FinishFailed
<1>3. CASE call.part = "load"
  <2> DEFINE v == Done(Lower(u, ListOf(call.kind)), call)
  <2>1. ScreenOK(v) /\ v.busy = ui.busy \ {ListOf(call.kind)}
      BY FlagsMove, DoneSettled
  <2>2. Finish(i, v)
      BY <1>3 DEF Throw, FinishFailed
  <2> HIDE DEF v
  <2> QED  BY <1>3, <2>1, <2>2, FinishPreserves
<1> QED  BY <1>1, <1>2, <1>3

LEMMA LoadPreserves ==
    ASSUME IInv, NEW i \in Calls, Open(i), calls[i].part = "main",
           NEW call \in Call, call.kind = calls[i].kind,
           call.target = calls[i].target, call.form = calls[i].form,
           call.ran = (IF call.kind \in Writes THEN 1 ELSE 0),
           ListOf(call.kind) # "none",
           NEW u, ScreenOK(u), u.busy = ui.busy, Load(i, call, u),
           cookie' \in Users \union {None}
    PROVE  IInv'
<1> DEFINE next == [call EXCEPT !.part = "load", !.await = "request", !.sent = None]
<1>1. /\ next \in Call /\ next.part = "load" /\ next.kind = call.kind
      /\ next.target = call.target /\ next.form = call.form
      /\ next.ran = call.ran /\ next # Over
    BY OverAssumption DEF Call
<1>2. calls' = [calls EXCEPT ![i] = next]
    BY DEF Load
<1>3. ListOf(call.kind) \in Flags
    BY FlagFacts DEF Call
<1>4. ScreenOK(ui') /\ ui'.busy = ui.busy \union {ListOf(call.kind)}
    BY <1>3, FlagsMove DEF Load
<1> HIDE DEF next
<1>5. CallOK(next, ui'.busy)
    BY <1>1, <1>4 DEF IInv, CallOK
<1> QED  BY <1>1, <1>2, <1>4, <1>5, GoesOn

LEMMA ReturnPreserves ==
    ASSUME IInv, NEW i \in Calls, Open(i), NEW ran \in 0 .. 2,
           ran = (IF calls[i].kind \in Writes THEN 1 ELSE 0),
           ReturnOk(i, [calls[i] EXCEPT !.ran = ran]),
           cookie' \in Users \union {None}
    PROVE  IInv'
<1> DEFINE call == [calls[i] EXCEPT !.ran = ran]
<1>1. calls[i] \in Call /\ CallOK(calls[i], ui.busy) /\ ScreenOK(ui)
    BY DEF IInv, CallOK
<1>2. /\ call \in Call /\ call.part = calls[i].part /\ call.kind = calls[i].kind
      /\ call.target = calls[i].target /\ call.form = calls[i].form
      /\ call.ran = ran /\ call.part \in {"main", "load"}
    BY <1>1 DEF Call
<1>3. ReturnOk(i, call)
    OBVIOUS
<1> HIDE DEF call
<1>4. CASE call.part = "main" /\ ListOf(call.kind) = "none"
    BY <1>1, <1>2, <1>3, <1>4, DoneSettled, FinishPreserves DEF ReturnOk
<1>5. CASE call.part = "main" /\ ListOf(call.kind) # "none"
    BY <1>1, <1>2, <1>3, <1>5, DoneSettled, LoadPreserves DEF ReturnOk
<1>6. CASE call.part = "load"
  <2>1. PICK data \in Lists(call.kind) :
          Finish(i, Done(Lower(Loaded(ui, call.kind, data), ListOf(call.kind)), call))
      BY <1>3, <1>6 DEF ReturnOk
  <2>2. /\ ScreenOK(Loaded(ui, call.kind, data))
        /\ Loaded(ui, call.kind, data).busy = ui.busy
      BY <1>1 DEF Loaded, Lists, ScreenOK, Screen, Bare
  <2> DEFINE v == Lower(Loaded(ui, call.kind, data), ListOf(call.kind))
  <2>3. ScreenOK(v) /\ v.busy = ui.busy \ {ListOf(call.kind)}
      BY <2>2, FlagsMove
  <2> HIDE DEF v
  <2>4. ScreenOK(Done(v, call)) /\ Done(v, call).busy = ui.busy \ {ListOf(call.kind)}
      BY <2>3, DoneSettled
  <2> QED  BY <1>2, <1>6, <2>1, <2>4, FinishPreserves DEF v
<1> QED  BY <1>2, <1>4, <1>5, <1>6

\* A fetch that was answered with anything but a first 401
LEMMA FetchPreserves ==
    ASSUME IInv, NEW i \in Calls, Open(i), cookie' = cookie,
           calls[i].part = "load" \/ calls[i].kind \in Writes,
           NEW answer, NEW ran \in Acted(calls[i], answer),
           \/ answer = "ok" /\ ReturnOk(i, [calls[i] EXCEPT !.ran = ran])
           \/ Throw(i, [calls[i] EXCEPT !.ran = ran], ui)
           \/ Throw(i, [calls[i] EXCEPT !.ran = ran], ClearSession(ui))
    PROVE  IInv'
<1> DEFINE call == [calls[i] EXCEPT !.ran = ran]
<1>1. /\ calls[i] \in Call /\ CallOK(calls[i], ui.busy) /\ ScreenOK(ui)
      /\ cookie' \in Users \union {None}
    BY DEF IInv, CallOK
<1>2. call.part = calls[i].part /\ call.kind = calls[i].kind
    BY <1>1 DEF Call
<1>3. answer = "ok" => /\ ran \in 0 .. 2
                       /\ ran = (IF calls[i].kind \in Writes THEN 1 ELSE 0)
    BY <1>1 DEF Acted, CallOK, Call
<1>4. CASE answer = "ok" /\ ReturnOk(i, call)
    BY <1>1, <1>3, <1>4, ReturnPreserves
<1>5. CASE Throw(i, call, ui) \/ Throw(i, call, ClearSession(ui))
  <2> HIDE DEF call
  <2> QED  BY <1>1, <1>2, <1>5, Closings, ThrowPreserves
<1> QED  BY <1>4, <1>5

\* A fetch that is followed by another one of the same request
LEMMA FetchAgain ==
    ASSUME IInv, NEW i \in Calls, Open(i), NEW call, CallOK(call, ui.busy),
           calls' = [calls EXCEPT ![i] = call], call.kind = calls[i].kind,
           call.part = calls[i].part, ScreenOK(ui'), ui'.busy = ui.busy,
           cookie' \in Users \union {None}
    PROVE  IInv'
<1>1. call # Over
    BY OverAssumption DEF CallOK
<1> QED  BY <1>1, GoesOn

LEMMA AnswerPreserves ==
    ASSUME IInv, NEW i \in Calls, Answer(i)
    PROVE  IInv'
<1> USE ScreenAssumption
<1>0. Open(i) /\ CallOK(calls[i], ui.busy) /\ calls[i] \in Call /\ ScreenOK(ui)
    BY DEF Answer, AnswerRequest, AnswerRefresh, AnswerRetry, AnswerLogin,
           AnswerLogout, IInv, CallOK
<1>1. CASE AnswerRequest(i)
  <2>1. /\ calls[i].await = "request"
        /\ calls[i].part = "load" \/ calls[i].kind \in Writes
        /\ cookie' = cookie
      BY <1>1 DEF AnswerRequest, Authenticated
  <2>2. PICK answer \in {"ok", "refused", "lost", "401"} :
          \E ran \in Acted(calls[i], answer) :
            LET call == [calls[i] EXCEPT !.ran = ran] IN
            IF CallsForRefresh(answer)
            THEN /\ calls' = [calls EXCEPT ![i] =
                                [call EXCEPT !.await = "refresh", !.sent = cookie]]
                 /\ UNCHANGED ui
            ELSE IF answer = "ok" THEN ReturnOk(i, call) ELSE Throw(i, call, ui)
      BY <1>1 DEF AnswerRequest
  <2>3. CASE answer = "401"
    <3> DEFINE call == [calls[i] EXCEPT !.await = "refresh", !.sent = cookie]
    <3>1. Acted(calls[i], answer) = {calls[i].ran}
        BY <2>3 DEF Acted
    <3>2. calls' = [calls EXCEPT ![i] = call] /\ ui' = ui
        BY <1>0, <2>2, <2>3, <3>1 DEF CallsForRefresh, Call
    <3>3. CallOK(call, ui.busy) /\ call.kind = calls[i].kind
          /\ call.part = calls[i].part
        BY <1>0, <2>1 DEF CallOK, Call, IInv
    <3> QED  BY <1>0, <2>1, <3>2, <3>3, FetchAgain DEF IInv
  <2>4. CASE answer # "401"
      BY <1>0, <2>1, <2>2, <2>4, FetchPreserves DEF CallsForRefresh
  <2> QED  BY <2>3, <2>4
<1>2. CASE AnswerRefresh(i)
  <2>1. CASE Throw(i, calls[i], ui) /\ cookie' = cookie
      BY <1>0, <2>1, ThrowPreserves DEF IInv
  <2>2. CASE /\ calls[i].sent # None /\ cookie' = calls[i].sent
             /\ LET u == [ui EXCEPT !.user = calls[i].sent] IN
                IF calls[i].kind = "restore" /\ calls[i].part = "main"
                THEN Load(i, calls[i], u)
                ELSE /\ calls' = [calls EXCEPT ![i].await = "retry", ![i].sent = None]
                     /\ ui' = u
    <3> DEFINE u == [ui EXCEPT !.user = calls[i].sent]
    <3>1. /\ calls[i].sent \in Users /\ cookie' \in Users \union {None}
          /\ ScreenOK(u) /\ u.busy = ui.busy
        BY <1>0, <2>2 DEF Call, ScreenOK, Screen
    <3>2. CASE calls[i].kind = "restore" /\ calls[i].part = "main"
      <4>1. Load(i, calls[i], u) /\ ListOf("restore") = "syncing"
          BY <2>2, <3>2 DEF ListOf
      <4>2. calls[i].ran = (IF calls[i].kind \in Writes THEN 1 ELSE 0)
          BY <1>0, <3>2 DEF CallOK, Writes
      <4> HIDE DEF u
      <4> QED  BY <1>0, <3>1, <3>2, <4>1, <4>2, LoadPreserves
    <3>3. CASE ~(calls[i].kind = "restore" /\ calls[i].part = "main")
      <4> DEFINE call == [calls[i] EXCEPT !.await = "retry", !.sent = None]
      <4>1. calls' = [calls EXCEPT ![i] = call] /\ ui' = u
          BY <1>0, <2>2, <3>3 DEF Call, IInv
      <4>2. calls[i].await = "refresh"
          BY <1>2 DEF AnswerRefresh
      <4>3. CallOK(call, ui.busy) /\ call.kind = calls[i].kind
            /\ call.part = calls[i].part
          BY <1>0, <3>3, <4>2 DEF CallOK, Call
      <4> HIDE DEF u, call
      <4> QED  BY <1>0, <3>1, <4>1, <4>3, FetchAgain
    <3> QED  BY <3>2, <3>3
  <2> QED  BY <1>2, <2>1, <2>2 DEF AnswerRefresh, SetRefreshTokenCookie
<1>3. CASE AnswerRetry(i)
  <2>1. /\ calls[i].part = "load" \/ calls[i].kind \in Writes
        /\ cookie' = cookie
      BY <1>0, <1>3 DEF AnswerRetry, CallOK, Call
  <2>2. PICK answer \in {"ok", "refused", "lost", "401"} :
          \E ran \in Acted(calls[i], answer) :
            LET call == [calls[i] EXCEPT !.ran = ran] IN
            CASE answer = "ok" -> ReturnOk(i, call)
              [] answer = "401" -> Throw(i, call, ClearSession(ui))
              [] OTHER -> Throw(i, call, ui)
      BY <1>3 DEF AnswerRetry
  <2> QED  BY <1>0, <2>1, <2>2, FetchPreserves
<1>4. CASE AnswerLogin(i)
  <2>1. CASE Throw(i, calls[i], ui) /\ cookie' = cookie
      BY <1>0, <2>1, ThrowPreserves DEF IInv
  <2>2. ASSUME NEW v \in Users, cookie' = v,
               Load(i, calls[i], [ui EXCEPT !.user = v])
        PROVE  IInv'
    <3> DEFINE u == [ui EXCEPT !.user = v]
    <3>1. ScreenOK(u) /\ u.busy = ui.busy
        BY <1>0 DEF ScreenOK, Screen
    <3>2. /\ calls[i].kind = "login" /\ calls[i].part = "main"
          /\ ListOf("login") = "syncing"
        BY <1>4 DEF AnswerLogin, ListOf
    <3>3. calls[i].ran = (IF calls[i].kind \in Writes THEN 1 ELSE 0)
        BY <1>0, <3>2 DEF CallOK, Writes
    <3> HIDE DEF u
    <3>4. Load(i, calls[i], u)
        BY <2>2 DEF u
    <3> QED  BY <1>0, <2>2, <3>1, <3>2, <3>3, <3>4, LoadPreserves
  <2> QED  BY <1>4, <2>1, <2>2 DEF AnswerLogin, SetRefreshTokenCookie
<1>5. CASE AnswerLogout(i)
  <2>1. /\ calls' = [calls EXCEPT ![i] = Over] /\ ui' = ui
        /\ cookie' \in Users \union {None} /\ calls[i].kind = "logout"
      BY <1>5 DEF AnswerLogout, ClearRefreshTokenCookie, IInv
  <2>2. "none" \notin ui.busy /\ ListOf("logout") = "none"
      BY <1>0, FlagFacts DEF ScreenOK, Screen, ListOf
  <2>3. ui'.busy = (ui.busy \ (IF calls[i].part = "load"
                                THEN {ListOf(calls[i].kind)} ELSE {}))
                   \ {FlagOf(calls[i].kind)}
      BY <2>1, <2>2, FlagFacts
  <2> QED  BY <1>0, <2>1, <2>3, Ends
<1> QED  BY <1>1, <1>2, <1>3, <1>4, <1>5 DEF Answer

----------------------------------------------------------------------------
LEMMA Preserved == IInv /\ [Next]_vars => IInv'
<1>1. ASSUME IInv, UNCHANGED vars PROVE IInv'
    BY <1>1 DEF vars, IInv, BusyIsOwned, OneWriteAtATime, Open
<1> QED  BY <1>1, TouchPreserves, PressPreserves, AnswerPreserves DEF Next

LEMMA Invariance == Spec => []IInv
BY Initially, Preserved, PTL DEF Spec

\* The screen and the waiting functions keep their types, and no modal is
\* left open when nobody is signed in.
THEOREM TypeCorrect == Spec => []TypeOK
<1>1. ASSUME IInv PROVE TypeOK
  <2>1. ~SignedIn(ui) => CloseAll(ui) = ui
      BY <1>1 DEF IInv, ScreenOK, Screen, Bare, SignedIn, CloseAll, CloseUsersModal,
         CloseProvisionModal, CloseCampaignModal, ResetCampaignDraft,
         ResetManagedUserDraft
  <2> QED  BY <1>1, <2>1 DEF IInv, ScreenOK, TypeOK
<1> QED  BY <1>1, Invariance, PTL

\* For any number of overlapping functions, every loading flag that is up
\* has a waiting function that will lower it.
THEOREM FlagsOwned == Spec => []BusyIsOwned
<1>1. IInv => BusyIsOwned
    BY DEF IInv
<1> QED  BY <1>1, Invariance, PTL

\* Two guarded writes that share a flag are never under way together.
THEOREM Exclusion == Spec => []OneWriteAtATime
<1>1. IInv => OneWriteAtATime
    BY DEF IInv
<1> QED  BY <1>1, Invariance, PTL

\* What is saved to a row was filled from that row.
THEOREM RightRow == Spec => []SavesWhatItShows
<1>1. IInv => SavesWhatItShows
    BY DEF IInv, CallOK, SavesWhatItShows
<1> QED  BY <1>1, Invariance, PTL

\* The refresh and the retry after a 401 never repeat a write.
THEOREM OnceOnly == Spec => []TakesEffectOnce
<1>1. IInv => TakesEffectOnce
    BY DEF IInv, CallOK, TakesEffectOnce
<1> QED  BY <1>1, Invariance, PTL

----------------------------------------------------------------------------
\* A bare screen offers nothing but the login form.
LEMMA BareOffers ==
    ASSUME IInv, Out
    PROVE  /\ ~AdminButtons(ui) /\ CampaignButtons(ui) = {} /\ UserButtons(ui) = {}
           /\ ~ProvisionForm(ui) /\ ~UserForm(ui) /\ ~CampaignForm(ui)
           /\ ~Touch
<1>1. Bare(ui) /\ ui.user = None
    BY DEF IInv, ScreenOK, Out, SignedIn
<1>2. /\ ~AdminButtons(ui) /\ CampaignButtons(ui) = {} /\ UserButtons(ui) = {}
      /\ ~ProvisionForm(ui) /\ ~UserForm(ui) /\ ~CampaignForm(ui)
    BY <1>1, ScreenAssumption
    DEF Bare, AdminButtons, CampaignButtons, SignedIn, UserButtons, ProvisionForm,
        UserForm, CampaignForm
<1>3. ~Touch
    BY <1>1, <1>2
    DEF Touch, OpenProvisionModal, StartManagedUserEdit, OpenCreateCampaignModal,
        HandleEditCampaign, HandleEscape, Cancel, Bare, SignedIn
<1> QED  BY <1>2, <1>3

LEMMA OutStep ==
    ASSUME IInv, Out, [Next]_vars
    PROVE  Out' \/ \E i \in Calls : LoggedInBy(i)
<1>1. CASE UNCHANGED vars
    BY <1>1 DEF vars, Out, Open
<1>2. CASE \E i \in Calls : Press(i)
  <2>1. PICK i \in Calls : HandleLoginSubmit(i)
      BY <1>2, BareOffers
      DEF Press, Logout, OpenUsersModal, HandleProvisionUserSubmit,
          HandleManagedUserSubmit, HandleDeleteManagedUser, HandleCampaignSubmit,
          HandleDeleteCampaign, Out
  <2>2. /\ calls' = [calls EXCEPT ![i] = New("login", None, None, None)]
        /\ ui'.user = ui.user
      BY <2>1 DEF HandleLoginSubmit, Start, Raise, IInv, ScreenOK, Screen
  <2> QED  BY <2>2 DEF Out, SignedIn, Open, New, IInv
<1>3. ASSUME NEW i \in Calls, Answer(i)
      PROVE  Out' \/ \E j \in Calls : LoggedInBy(j)
  <2>1. /\ Open(i) /\ calls[i].kind \in {"logout", "login"}
        /\ calls[i].part = "main" /\ calls[i].await \notin {"refresh", "retry"}
        /\ calls[i] \in Call
    <3>1. Open(i)
        BY <1>3 DEF Answer, AnswerRequest, AnswerRefresh, AnswerRetry, AnswerLogin,
                    AnswerLogout
    <3> QED  BY <3>1 DEF Out, IInv, CallOK, Writes
  <2>2. AnswerLogin(i) \/ AnswerLogout(i)
      BY <1>3, <2>1
      DEF Answer, AnswerRequest, AnswerRefresh, AnswerRetry, Authenticated, Writes
  <2>3. CASE AnswerLogout(i)
      BY <2>3 DEF AnswerLogout, Out, Open, SignedIn, IInv
  <2>4. CASE AnswerLogin(i)
    <3>1. CASE Throw(i, calls[i], ui)
      <4>1. calls[i].kind # "restore"
          BY <2>4 DEF AnswerLogin
      <4>2. calls' = [calls EXCEPT ![i] = Over] /\ ui'.user = ui.user
          BY <2>1, <3>1, <4>1
          DEF Throw, FinishFailed, Finish, Lower, IInv, ScreenOK, Screen
      <4> QED  BY <4>2 DEF Out, Open, SignedIn, IInv
    <3>2. CASE \E u \in Users : Load(i, calls[i], [ui EXCEPT !.user = u])
      <4> DEFINE call == [calls[i] EXCEPT !.part = "load", !.await = "request",
                                          !.sent = None]
      <4>1. calls' = [calls EXCEPT ![i] = call]
          BY <3>2 DEF Load
      <4>2. call \in Call /\ call.part = "load"
          BY <2>1 DEF Call
      <4>3. Open(i)' /\ calls'[i].part = "load"
          BY <4>1, <4>2, OverAssumption DEF Open, IInv
      <4> QED  BY <2>1, <2>4, <4>3 DEF LoggedInBy, AnswerLogin
    <3> QED  BY <2>4, <3>1, <3>2 DEF AnswerLogin
  <2> QED  BY <2>2, <2>3, <2>4
<1> QED  BY <1>1, <1>2, <1>3, BareOffers DEF Next

\* Once logged out with nothing else under way, the screen stays so until
\* somebody logs in: the reappearance that LogoutSticks shows takes a function
\* that was waiting at the logout.
THEOREM OutStays == Spec => OutUntilLogin
<1>1. IInv /\ [Next]_vars => [Out => Out' \/ \E i \in Calls : LoggedInBy(i)]_vars
    BY OutStep
<1> QED  BY <1>1, Invariance, PTL DEF Spec, OutUntilLogin
=============================================================================
