---------------------------- MODULE CampaignsApi ----------------------------
(***************************************************************************)
(* The API as far as the campaign table goes: signed-in clients create,    *)
(* edit and remove campaigns, from the dashboard and otherwise, while an   *)
(* administrator deletes accounts.  Nobody signs in or out here.           *)
(***************************************************************************)
EXTENDS CampaignTable, Accounts

VARIABLE raced  \* the handlers during whose request a table changed (history)

\* Gone also stands for a campaign that is not in the book.
ASSUME BlankAssumption == Gone \notin [owner : Users, title : Names]

vars == <<users, campaigns, sessions, now, pc, req, raced>>

TypeOK ==
    /\ users \in [Users -> Account \union {Gone}]
    /\ campaigns \in [Campaigns -> Campaign \union {Fresh, Gone}]
    /\ raced \subseteq Requests
    /\ now \in 0 .. MaxTime

----------------------------------------------------------------------------
\* Everybody is signed in.
Init ==
    /\ users \in [Users -> Account]
    /\ EmailsUnique /\ Admins # {}
    /\ campaigns = [c \in Campaigns |-> Fresh]
    /\ sessions = {[sub |-> u, role |-> users[u].role, iat |-> 0] : u \in Users}
    /\ now = 0
    /\ pc = [r \in Requests |-> "cut"]
    /\ req = [r \in Requests |-> NoData]
    /\ raced = {}

Handle(r) ==
    /\ TableStep(r) \/ DeleteUser(r) \/ RemoveAccount(r)
    /\ raced' = (raced \ {r}) \union
                  (IF UNCHANGED tables
                   THEN IF pc'[r] \in Answers THEN {} ELSE raced \intersect {r}
                   ELSE {x \in Requests \ {r} : ~Idle(x)})
    /\ UNCHANGED <<sessions, now>>

Tick ==
    /\ now < MaxTime
    /\ now' = now + 1
    /\ UNCHANGED <<tables, sessions, pc, req, raced>>

Next == Tick \/ \E r \in Requests : Handle(r)

Spec == Init /\ [][Next]_vars

----------------------------------------------------------------------------
\* Although every check of a name, an owner or an account is made on an
\* earlier read, the table behaves as if each request were one step: names
\* are unique per owner, campaigns keep their owner, and an account that
\* owns campaigns stays.  (campaigns.service.ts:27-195, schema.prisma:43-49)
Book == INSTANCE CampaignBook WITH
    Members <- Users, Entries <- Campaigns, Titles <- Names, Blank <- Gone,
    present <- {u \in Users : Exists(u)},
    book <- [c \in Campaigns |->
               IF Stored(c)
               THEN [owner |-> campaigns[c].owner, title |-> campaigns[c].name]
               ELSE Gone]
BookKept == Book!Spec

\* A range of dates that ends before it starts is stored only by an update
\* during which a table changed: its check was made on another row.
\* (campaigns.service.ts:126-130 and 159)
RangeBreaksOnlyInRace ==
    [][\A r \in Requests, c \in Campaigns :
         At(r, "update") /\ pc'[r] # pc[r] /\ campaigns'[c] # campaigns[c]
           /\ ~InRange(campaigns'[c].start, campaigns'[c].end)
            => r \in raced]_vars

\* A request is answered with an internal error only when a table changed
\* since it was received, or when its sender's account is gone and only the
\* token is left.  (campaigns.service.ts:33-71, 132-138, 159 and 184)
FailsOnlyInRace ==
    [][\A r \in Requests :
         pc'[r] = "500" /\ pc'[r] # pc[r]
            => r \in raced \/ ~Exists(req[r].by.sub)]_vars

\* Only its owner or an administrator changes or removes a campaign, also
\* when it was edited between the check and the write.
\* (campaigns.service.ts:222-230)
OnlyOwnersOrAdmins ==
    [][\A r \in Requests, c \in Campaigns :
         pc'[r] # pc[r] /\ Stored(c) /\ campaigns'[c] # campaigns[c]
            => Access(req[r].by, campaigns[c])]_vars

\* Opening a campaign in the form and saving it untouched leaves it on the
\* days it was on, seen from the browser.  (formatters.ts:68-120)
EditKeepsDays ==
    \A c \in Campaigns : Stored(c) =>
        FormOf(Payload(FormOf(campaigns[c]))) = FormOf(campaigns[c])

\* What the form lets pass on an existing campaign, the API accepts.
\* (validation.ts:107-112, campaigns.service.ts:126-129)
EditIsAccepted ==
    \A c \in Campaigns : Stored(c) /\ FormValid(FormOf(campaigns[c]), TRUE) =>
        Accepted(campaigns[c], Payload(FormOf(campaigns[c])))
=============================================================================
