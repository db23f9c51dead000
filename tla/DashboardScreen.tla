-------------------------- MODULE DashboardScreen --------------------------
(***************************************************************************)
(* The screen of the web dashboard: who is shown as signed in, the lists,  *)
(* the modals with their drafts and the loading flags, and what each       *)
(* synchronous function of DashboardApp does to them.                      *)
(*                                                                         *)
(* Left out: messages and the timers that remove them, the language, the   *)
(* theme, the search box and the panels that fold; the texts typed into a  *)
(* form, except for the row the form was filled from.                      *)
(***************************************************************************)
EXTENDS Integers

CONSTANTS
    Users,      \* accounts, as the list of users shows them
    Admins,     \* those whose role is ADMIN
    Campaigns,  \* campaigns, as the list of campaigns shows them
    None        \* nobody, no campaign, no cookie

ASSUME ScreenAssumption == Admins \subseteq Users /\ None \notin Users \union Campaigns

VARIABLE ui

Flags == {"session", "auth", "campaign", "syncing", "users", "editingUser",
          "provisioning"}

\* user stands for the states user and session, which are always set
\* together.  editing and form are editingCampaignId and the row campaignForm
\* was filled from, editingUser and userForm the same for managed users.
Screen == [user : Users \union {None},
           campaigns : SUBSET Campaigns, managed : SUBSET Users,
           campaignModal : BOOLEAN,
           editing : Campaigns \union {None}, form : Campaigns \union {None},
           usersModal : BOOLEAN,
           editingUser : Users \union {None}, userForm : Users \union {None},
           provisionModal : BOOLEAN,
           busy : SUBSET Flags]

InitialScreen ==
    [user |-> None, campaigns |-> {}, managed |-> {},
     campaignModal |-> FALSE, editing |-> None, form |-> None,
     usersModal |-> FALSE, editingUser |-> None, userForm |-> None,
     provisionModal |-> FALSE, busy |-> {"session"}]

\* Mutant of ResetCampaignDraft: the form is emptied, the id forgotten about.
ResetCampaignForm(u) == [u EXCEPT !.form = None]

ResetCampaignDraft(u) == [u EXCEPT !.editing = None, !.form = None]
ResetManagedUserDraft(u) == [u EXCEPT !.editingUser = None, !.userForm = None]

CloseProvisionModal(u) == [u EXCEPT !.provisionModal = FALSE]
CloseUsersModal(u) == ResetManagedUserDraft([u EXCEPT !.usersModal = FALSE])
CloseCampaignModal(u) == ResetCampaignDraft([u EXCEPT !.campaignModal = FALSE])

CloseAll(u) == CloseUsersModal(CloseProvisionModal(CloseCampaignModal(u)))

\* Mutant of ClearSession: a modal is left open.
ClearSessionOnly(u) == [u EXCEPT !.user = None, !.campaigns = {}]

\* Mutant of ClearSession: the loading flags are cleared with the rest.
ClearSessionAndFlags(u) ==
    CloseAll([u EXCEPT !.user = None, !.campaigns = {}, !.busy = {}])

\* Neither the list of users nor a loading flag is touched.
ClearSession(u) == CloseAll([u EXCEPT !.user = None, !.campaigns = {}])

SignedIn(u) == u.user # None

Raise(u, flag) == [u EXCEPT !.busy = u.busy \union {flag}]
Lower(u, flag) == [u EXCEPT !.busy = u.busy \ {flag}]

----------------------------------------------------------------------------
\* What the screen offers: the forms that can be submitted and the rows that
\* have enabled buttons
LoginForm(u) == ~SignedIn(u) /\ u.busy \intersect {"session", "auth"} = {}
AdminButtons(u) == u.user \in Admins

\* Mutant of CampaignButtons: the list is shown whoever is there, and a load
\* that is answered after the logout fills it again.
CampaignButtonsAnyway(u) == u.campaigns

CampaignButtons(u) == IF SignedIn(u) THEN u.campaigns ELSE {}
ProvisionForm(u) == u.provisionModal /\ "provisioning" \notin u.busy
UserButtons(u) ==
    IF u.usersModal /\ "users" \notin u.busy THEN u.managed \ {u.user} ELSE {}
UserForm(u) == u.usersModal /\ u.editingUser # None /\ "editingUser" \notin u.busy
CampaignForm(u) == u.campaignModal /\ "campaign" \notin u.busy

----------------------------------------------------------------------------
\* Buttons that start no request
OpenProvisionModal ==
    /\ AdminButtons(ui) \/ ui.usersModal
    /\ ui' = [CloseUsersModal(ui) EXCEPT !.provisionModal = TRUE]

StartManagedUserEdit ==
    \E u \in UserButtons(ui) :
        ui' = [ui EXCEPT !.editingUser = u, !.userForm = u]

OpenCreateCampaignModal ==
    /\ SignedIn(ui)
    /\ ui' = [ResetCampaignDraft(ui) EXCEPT !.campaignModal = TRUE]

HandleEditCampaign ==
    \E c \in CampaignButtons(ui) :
        ui' = [ui EXCEPT !.editing = c, !.form = c, !.campaignModal = TRUE]

\* The Escape key closes one modal at a time.
HandleEscape ==
    \/ ui.campaignModal /\ ui' = CloseCampaignModal(ui)
    \/ ~ui.campaignModal /\ ui.usersModal /\ ui' = CloseUsersModal(ui)
    \/ /\ ~ui.campaignModal /\ ~ui.usersModal /\ ui.provisionModal
       /\ ui' = CloseProvisionModal(ui)

\* The buttons "close" and "cancel", and a click beside the modal
Cancel ==
    \/ ui.campaignModal /\ ui' = CloseCampaignModal(ui)
    \/ ui.usersModal /\ ui' = CloseUsersModal(ui)
    \/ ui.usersModal /\ ui' = ResetManagedUserDraft(ui)
    \/ ui.provisionModal /\ ui' = CloseProvisionModal(ui)

Touch ==
    \/ OpenProvisionModal \/ StartManagedUserEdit
    \/ OpenCreateCampaignModal \/ HandleEditCampaign
    \/ HandleEscape \/ Cancel
=============================================================================
