--------------------------- MODULE CampaignTable ---------------------------
(***************************************************************************)
(* CampaignsService: who may touch a campaign, the name that is unique per *)
(* owner, the range of dates, and the writes, each apart from the reads    *)
(* its checks were made on.  Status, budget and description decide         *)
(* nothing here; the calls of the scheduler are the subject of             *)
(* CampaignExpiration and taken to succeed.                                *)
(***************************************************************************)
EXTENDS CampaignForms

CONSTANTS
    Campaigns,  \* ids of the campaigns that may ever exist
    Dates       \* instants that clients other than the dashboard send

\* A row of the campaign table.
Campaign == [owner : Users, name : Names, start : Int, end : Int \union {NoEnd}]
ASSUME RowsAssumption ==
    Dates \subseteq Int /\ {Fresh, Gone} \cap Campaign = {}

Stored(c) == campaigns[c] \notin {Fresh, Gone}
Taken(name, owner, c) ==
    \E d \in Campaigns \ {c} :
        Stored(d) /\ campaigns[d].name = name /\ campaigns[d].owner = owner

\* assertAccess
Access(s, row) == s.role = "ADMIN" \/ row.owner = s.sub

\* Mutant of Accepted: only the dates of the request itself are compared.
AcceptedAlone(row, patch) ==
    /\ NotInPast(patch.start) /\ NotInPast(patch.end)
    /\ patch.start # Keep /\ patch.end # Keep => InRange(patch.start, patch.end)

\* Mutant of Value: an absent field overwrites the stored one.
ValueSent(field, old) == field

\* A field that is absent from the request keeps what the row holds.
Value(field, old) == IF field = Keep THEN old ELSE field

\* update's checks of the dates, against the row findOne returned
Accepted(row, patch) ==
    /\ NotInPast(patch.start) /\ NotInPast(patch.end)
    /\ InRange(Value(patch.start, row.start), Value(patch.end, row.end))

\* Bound: a campaign is created only while an id is left for it.
IdLeft == Cardinality({r \in Requests : At(r, "create")})
            < Cardinality({c \in Campaigns : campaigns[c] = Fresh})

\* create, up to ensureCampaignNameIsAvailable
Create(r) ==
    /\ Idle(r) /\ IdLeft
    /\ \E s \in Admitted, new \in Submitted(FALSE)
                              \union [name : Names, start : Dates,
                                      end : Dates \union {NoEnd}] :
         IF ~Accepted(new, new) THEN Answer(r, "400")
         ELSE IF Taken(new.name, s.sub, NoData) THEN Answer(r, "409")
         ELSE Await(r, "create", [by |-> s, new |-> new])
    /\ UNCHANGED tables

\* prisma.campaign.create: the unique index, then the foreign key
StoreNew(r, c) ==
    LET owner == req[r].by.sub
        new == req[r].new
    IN
    /\ At(r, "create")
    /\ campaigns[c] = Fresh
    /\ \/ Taken(new.name, owner, c) /\ Answer(r, "409") /\ UNCHANGED campaigns
       \/ /\ ~Taken(new.name, owner, c) /\ ~Exists(owner)
          /\ Answer(r, "500") /\ UNCHANGED campaigns
       \/ /\ ~Taken(new.name, owner, c) /\ Exists(owner)
          /\ campaigns' =
               [campaigns EXCEPT ![c] = [owner |-> owner, name |-> new.name,
                                         start |-> new.start, end |-> new.end]]
          /\ Answer(r, "200")
    /\ UNCHANGED users

\* The dashboard sends every field; other clients may send one.
Nothing == [name |-> Keep, start |-> Keep, end |-> Keep]
Patch == Submitted(TRUE)
         \union {[Nothing EXCEPT !.name = n] : n \in Names}
         \union {[Nothing EXCEPT !.start = t] : t \in Dates}
         \union {[Nothing EXCEPT !.end = t] : t \in Dates \union {NoEnd}}

\* update: findOne and the checks of the dates
Update(r) ==
    /\ Idle(r)
    /\ \E s \in Admitted, c \in Campaigns, patch \in Patch :
         \/ ~Stored(c) /\ Answer(r, "404")
         \/ Stored(c) /\ ~Access(s, campaigns[c]) /\ Answer(r, "403")
         \/ /\ Stored(c) /\ Access(s, campaigns[c])
            /\ ~Accepted(campaigns[c], patch)
            /\ Answer(r, "400")
         \/ /\ Stored(c) /\ Access(s, campaigns[c])
            /\ Accepted(campaigns[c], patch)
            /\ Await(r, IF patch.name \in {Keep, campaigns[c].name}
                        THEN "update" ELSE "name",
                     [by |-> s, id |-> c, patch |-> patch,
                      owner |-> campaigns[c].owner])
    /\ UNCHANGED tables

\* Mutant of UpdateName: the check of a new name is left out.
UpdateNameUnchecked(r) ==
    At(r, "name") /\ Await(r, "update", req[r]) /\ UNCHANGED tables

\* update: ensureCampaignNameIsAvailable, a read of its own
UpdateName(r) ==
    /\ At(r, "name")
    /\ IF Taken(req[r].patch.name, req[r].owner, req[r].id)
       THEN Answer(r, "409")
       ELSE Await(r, "update", req[r])
    /\ UNCHANGED tables

\* prisma.campaign.update, whose errors P2025 and P2002 nobody translates
StoreUpdate(r) ==
    LET c == req[r].id
        old == campaigns[c]
        patch == req[r].patch
        new == [owner |-> old.owner, name |-> Value(patch.name, old.name),
                start |-> Value(patch.start, old.start),
                end |-> Value(patch.end, old.end)]
    IN
    /\ At(r, "update")
    /\ IF Stored(c) /\ ~Taken(new.name, new.owner, c)
       THEN campaigns' = [campaigns EXCEPT ![c] = new] /\ Answer(r, "200")
       ELSE Answer(r, "500") /\ UNCHANGED campaigns
    /\ UNCHANGED users

\* Mutant of Remove: the row is looked up, its owner is not looked at.
RemoveAnybodys(r) ==
    /\ Idle(r)
    /\ \E s \in Admitted, c \in Campaigns :
         IF Stored(c) THEN Await(r, "remove", [by |-> s, id |-> c])
                      ELSE Answer(r, "404")
    /\ UNCHANGED tables

\* remove: findOne
Remove(r) ==
    /\ Idle(r)
    /\ \E s \in Admitted, c \in Campaigns :
         \/ ~Stored(c) /\ Answer(r, "404")
         \/ Stored(c) /\ ~Access(s, campaigns[c]) /\ Answer(r, "403")
         \/ /\ Stored(c) /\ Access(s, campaigns[c])
            /\ Await(r, "remove", [by |-> s, id |-> c])
    /\ UNCHANGED tables

\* prisma.campaign.delete
StoreRemove(r) ==
    LET c == req[r].id IN
    /\ At(r, "remove")
    /\ IF Stored(c)
       THEN campaigns' = [campaigns EXCEPT ![c] = Gone] /\ Answer(r, "200")
       ELSE Answer(r, "500") /\ UNCHANGED campaigns
    /\ UNCHANGED users

TableStep(r) ==
    \/ Create(r) \/ \E c \in Campaigns : StoreNew(r, c)
    \/ Update(r) \/ UpdateName(r) \/ StoreUpdate(r)
    \/ Remove(r) \/ StoreRemove(r)
=============================================================================
