------------------------- MODULE CampaignLifecycle -------------------------
(***************************************************************************)
(* What campaign expiration promises to the people who own campaigns, with *)
(* no queue, no worker and no failure in sight: clients create, edit and   *)
(* delete campaigns as they like, and the system on its own account does   *)
(* one thing only - it turns an open campaign whose end date has been      *)
(* reached into a COMPLETED one.                                           *)
(*                                                                         *)
(* CampaignExpiration implements this module (see Lifecycle there).        *)
(***************************************************************************)
EXTENDS Naturals

CONSTANTS
    Campaigns,  \* ids of the campaigns that may ever exist
    MaxTime,    \* bound: the clock runs from 0 to MaxTime
    NoEnd       \* the NULL of the endDate column

VARIABLES
    db,         \* the campaign table: db[c] is the row of campaign c
    now,        \* the time of day, in units of which several make a day
    auto        \* the campaigns whose COMPLETED was written by the system

lifecycleVars == <<db, now, auto>>

Date == 0 .. MaxTime

\* Draft, active and paused campaigns are treated alike by the expiration
\* code, so the three are the one status OPEN.  A row that is not there yet
\* and a row that was deleted have a status of their own.
Row == [end : Date \union {NoEnd}, status : {"OPEN", "COMPLETED"}]
Fresh == [end |-> NoEnd, status |-> "FRESH"]
Gone == [end |-> NoEnd, status |-> "DELETED"]

Exists(c) == db[c].status \in {"OPEN", "COMPLETED"}
Open(c) == db[c].status = "OPEN"

\* An open campaign whose end date has been reached.
Due(c) == Open(c) /\ db[c].end \in Date /\ db[c].end <= now

TypeOK ==
    /\ db \in [Campaigns -> Row \union {Fresh, Gone}]
    /\ now \in Date
    /\ auto \subseteq Campaigns

----------------------------------------------------------------------------
Init ==
    /\ db \in [Campaigns -> Row \union {Fresh, Gone}]
    /\ now = 0
    /\ auto = {}

Tick == /\ now < MaxTime
        /\ now' = now + 1
        /\ UNCHANGED <<db, auto>>

\* A client creates, edits or deletes a campaign.  A campaign never comes
\* back once deleted, and a client's write never counts as the system's.
Write(c, row) ==
    /\ \/ db[c] = Fresh /\ row \in Row
       \/ Exists(c) /\ row \in Row \union {Gone}
    /\ db' = [db EXCEPT ![c] = row]
    /\ auto' = IF row.status = "COMPLETED" THEN auto ELSE auto \ {c}
    /\ UNCHANGED now

\* The system completes a campaign: only an open one, only when it is due.
Expire(c) ==
    /\ Due(c)
    /\ db' = [db EXCEPT ![c].status = "COMPLETED"]
    /\ auto' = auto \union {c}
    /\ UNCHANGED now

Next ==
    \/ Tick
    \/ \E c \in Campaigns : Expire(c)
    \/ \E c \in Campaigns, row \in Row \union {Gone} : Write(c, row)

Spec == Init /\ [][Next]_lifecycleVars
=============================================================================
