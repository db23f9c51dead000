-------------------------- MODULE CampaignRequests --------------------------
(***************************************************************************)
(* CampaignsService.create, update and remove as far as expiration goes:   *)
(* the end date and the status of the row, and the calls to the scheduler  *)
(* service.  Names, start dates and who may touch a campaign only decide   *)
(* which requests are turned away before anything happens; here a client   *)
(* may send any request that passes the end-date check.                    *)
(***************************************************************************)
EXTENDS ExpirationScheduler

CONSTANTS
    DayLength,  \* units of time in a day
    Keep        \* a field an update leaves out

\* A request handler that is not running: the last one replied or threw.
Answered == {"ok", "error"}

\* assertDatesAreNotInPast compares days, so an end date earlier today passes.
Day(t) == t \div DayLength
NotInPast(end) == end \in Date => Day(end) >= Day(now)

\* The fields of an update that matter here.
Patch == [id : Campaigns, end : Date \union {NoEnd, Keep},
          status : {"OPEN", "COMPLETED", Keep}]

\* Mutant of Patched: an end date that is left out is written all the same.
PatchedBlindly(row, patch) ==
    [end |-> patch.end,
     status |-> IF patch.status = Keep THEN row.status ELSE patch.status]

Patched(row, patch) ==
    [end |-> IF patch.end = Keep THEN row.end ELSE patch.end,
     status |-> IF patch.status = Keep THEN row.status ELSE patch.status]

\* A client's write of a row takes the credit for it back from the worker,
\* unless the row stays completed.
Store(c, row) ==
    /\ db' = [db EXCEPT ![c] = row]
    /\ auto' = IF row.status = "COMPLETED" THEN auto ELSE auto \ {c}

\* create: checks and prisma.campaign.create
Create(r) ==
    /\ pc[r] \in Answered
    /\ \E c \in Campaigns, row \in Row :
         /\ db[c] = Fresh
         /\ NotInPast(row.end)
         /\ Store(c, row)
         /\ Call(r, RefreshPc(row),
                 [id |-> c, end |-> row.end, status |-> row.status])
    /\ UNCHANGED jobs

\* update: findOne and checks, then prisma.campaign.update, which throws
\* when the row has gone in between
UpdateFind(r) ==
    /\ pc[r] \in Answered
    /\ \E patch \in Patch :
         /\ Exists(patch.id)
         /\ NotInPast(patch.end)
         /\ Call(r, "update", patch)
    /\ UNCHANGED <<jobs, db, auto>>

Update(r) ==
    LET c == arg[r].id
        row == Patched(db[c], arg[r])
    IN
    /\ At(r, "update")
    /\ IF Exists(c)
       THEN /\ Store(c, row)
            /\ Call(r, RefreshPc(row),
                    [id |-> c, end |-> row.end, status |-> row.status])
       ELSE Call(r, "error", IdOnly(c)) /\ UNCHANGED <<db, auto>>
    /\ UNCHANGED jobs

\* remove: findOne, then prisma.campaign.delete
DeleteFind(r) ==
    /\ pc[r] \in Answered
    /\ \E c \in Campaigns : Exists(c) /\ Call(r, "delete", IdOnly(c))
    /\ UNCHANGED <<jobs, db, auto>>

Delete(r) ==
    LET c == arg[r].id IN
    /\ At(r, "delete")
    /\ IF Exists(c)
       THEN Store(c, Gone) /\ GoTo(r, "unsched")
       ELSE GoTo(r, "error") /\ UNCHANGED <<db, auto>>
    /\ UNCHANGED <<jobs, arg>>

RequestStep(r) ==
    \/ Create(r) \/ UpdateFind(r) \/ Update(r) \/ DeleteFind(r) \/ Delete(r)
    \/ ServiceStep(r) /\ UNCHANGED <<db, auto>>
=============================================================================
