------------------------ MODULE ExpirationScheduler ------------------------
(***************************************************************************)
(* CampaignExpirationSchedulerService: the code that keeps the queue in    *)
(* step with the campaign table.  It runs inside its callers - a request   *)
(* handler of the API, the job handler of a worker, the initializer of a   *)
(* worker - so each caller is a thread with a program counter pc[t] and    *)
(* the campaign it passed, arg[t].  Every await of the code is a step.     *)
(*                                                                         *)
(*   refreshCampaignSchedule       "refresh" -> "unsched" or return        *)
(*   scheduleCampaignExpiration    "unsched" -> "remove" -> "add" -> "readd" *)
(*   unscheduleCampaignExpiration  "unsched" -> "remove"                   *)
(*   refreshAllSchedules           "list" -> "jobs" -> "loop" -> "done"    *)
(***************************************************************************)
EXTENDS CampaignQueue, FiniteSets

CONSTANTS
    Requests    \* request handlers running at the same time in the API

VARIABLES
    db,         \* the campaign table, see CampaignLifecycle
    auto,       \* ghost: the campaigns whose COMPLETED a worker wrote
    pc,         \* pc[t]: the await thread t is at
    arg,        \* arg[t]: the campaign (or the job) t works on
    bootRows,   \* bootRows[w]: the rows the initializer of w has yet to visit
    bootJobs    \* bootJobs[w]: the listed jobs it has not matched to a row

Row == [end : Date \union {NoEnd}, status : {"OPEN", "COMPLETED"}]
Fresh == [end |-> NoEnd, status |-> "FRESH"]
Gone == [end |-> NoEnd, status |-> "DELETED"]

Exists(c) == db[c].status \in {"OPEN", "COMPLETED"}
Open(c) == db[c].status = "OPEN"
Due(c) == Open(c) /\ db[c].end \in Date /\ db[c].end <= now

\* CampaignScheduleTarget
Target == [id : Campaigns, end : Date \union {NoEnd},
           status : {"OPEN", "COMPLETED"}]
TargetOf(c) == [id |-> c, end |-> db[c].end, status |-> db[c].status]
Schedulable(row) == row.end # NoEnd /\ row.status # "COMPLETED"

\* For a call that passes the id only: nothing is to be scheduled.
IdOnly(c) == [id |-> c, end |-> NoEnd, status |-> "OPEN"]

\* What an idle thread works on: any constant will do.
Nothing == IdOnly(CHOOSE c \in Campaigns : TRUE)

----------------------------------------------------------------------------
(* Threads.  The initializer of worker w runs beside its job handler.      *)

Boot(w) == <<"boot", w>>
Boots == {Boot(w) : w \in Workers}
Threads == Requests \union Workers \union Boots

ServicePc == {"refresh", "unsched", "remove", "add", "readd"}

\* Where a thread goes on when the service returns, and when it throws.
ReturnPc(t) == IF t \in Requests THEN "ok"
               ELSE IF t \in Workers THEN "ack" ELSE "loop"
ThrowPc(t) == IF t \in Requests THEN "error"
              ELSE IF t \in Workers THEN "nack" ELSE "exit"

At(t, label) == pc[t] = label
GoTo(t, label) == pc' = [pc EXCEPT ![t] = label]

\* The first await of refreshCampaignSchedule(row).
RefreshPc(row) == IF Schedulable(row) THEN "refresh" ELSE "unsched"

\* Thread t calls the service: label is the first await of the call.
Call(t, label, row) ==
    /\ GoTo(t, label)
    /\ arg' = [arg EXCEPT ![t] = row]

----------------------------------------------------------------------------
(* refreshCampaignSchedule, scheduleCampaignExpiration and                 *)
(* unscheduleCampaignExpiration                                            *)

\* Mutant of Refresh: any job is taken for the schedule.
RefreshAnyJob(t) ==
    /\ At(t, "refresh")
    /\ GoTo(t, IF HasJob(arg[t].id) THEN ReturnPc(t) ELSE "unsched")
    /\ UNCHANGED <<jobs, arg>>

\* A job with the same end date, whatever its state, is taken for a schedule.
Refresh(t) ==
    LET c == arg[t].id IN
    /\ At(t, "refresh")
    /\ GoTo(t, IF HasJob(c) /\ jobs[c].end = arg[t].end
               THEN ReturnPc(t) ELSE "unsched")
    /\ UNCHANGED <<jobs, arg>>

UnscheduledPc(t) == IF Schedulable(arg[t]) THEN "add" ELSE ReturnPc(t)

Unschedule(t) ==
    /\ At(t, "unsched")
    /\ GoTo(t, IF HasJob(arg[t].id) THEN "remove" ELSE UnscheduledPc(t))
    /\ UNCHANGED <<jobs, arg>>

\* Mutant of Remove: the lock is not looked at.
RemoveByForce(t) ==
    /\ At(t, "remove")
    /\ GoTo(t, UnscheduledPc(t))
    /\ jobs' = Removed(arg[t].id)
    /\ UNCHANGED arg

\* job.remove: fails on a locked job, the caller's own job included.
Remove(t) ==
    LET c == arg[t].id IN
    /\ At(t, "remove")
    /\ IF Locked(c)
       THEN GoTo(t, ThrowPc(t)) /\ UNCHANGED jobs
       ELSE GoTo(t, UnscheduledPc(t)) /\ jobs' = Removed(c)
    /\ UNCHANGED arg

Add(t) ==
    /\ pc[t] \in {"add", "readd"}
    /\ jobs' = Added(arg[t].id, arg[t].end)
    /\ GoTo(t, ReturnPc(t))
    /\ UNCHANGED arg

ServiceStep(t) == Refresh(t) \/ Unschedule(t) \/ Remove(t) \/ Add(t)

\* The await of thread t rejects.  Only the first add is tried again.
CallFailedPc(t) == IF At(t, "add") THEN "readd" ELSE ThrowPc(t)

----------------------------------------------------------------------------
(* refreshAllSchedules, run once when a worker starts                      *)

\* campaign.findMany where endDate is not null
ListRows(w) ==
    /\ At(Boot(w), "list")
    /\ GoTo(Boot(w), "jobs")
    /\ bootRows' = [bootRows EXCEPT ![w] =
                      {TargetOf(c) : c \in {d \in Campaigns :
                                       Exists(d) /\ db[d].end # NoEnd}}]
    /\ UNCHANGED <<jobs, arg, bootJobs>>

\* queue.getJobs: failed and active jobs are not listed
ListJobs(w) ==
    /\ At(Boot(w), "jobs")
    /\ GoTo(Boot(w), "loop")
    /\ bootJobs' = [bootJobs EXCEPT ![w] =
                      {[id |-> c, end |-> jobs[c].end] :
                          c \in {d \in Campaigns : Listed(d)}}]
    /\ UNCHANGED <<jobs, arg, bootRows>>

\* Mutant of VisitRow: the end dates are not compared.
VisitRowAnyDate(w) ==
    /\ At(Boot(w), "loop")
    /\ \E row \in bootRows[w] :
         LET listed == {j \in bootJobs[w] : j.id = row.id} IN
         /\ bootRows' = [bootRows EXCEPT ![w] = @ \ {row}]
         /\ bootJobs' = [bootJobs EXCEPT ![w] = @ \ listed]
         /\ \/ /\ row.status = "COMPLETED" /\ listed # {}
               /\ Call(Boot(w), "remove", IdOnly(row.id))
            \/ /\ row.status # "COMPLETED" /\ listed = {}
               /\ Call(Boot(w), "unsched", row)
            \/ /\ (row.status = "COMPLETED") <=> (listed = {})
               /\ UNCHANGED <<pc, arg>>
    /\ UNCHANGED jobs

\* One turn of the loop over the campaigns.
VisitRow(w) ==
    /\ At(Boot(w), "loop")
    /\ \E row \in bootRows[w] :
         LET listed == {j \in bootJobs[w] : j.id = row.id}
             inStep == \E j \in listed : j.end = row.end
         IN
         /\ bootRows' = [bootRows EXCEPT ![w] = @ \ {row}]
         /\ bootJobs' = [bootJobs EXCEPT ![w] = @ \ listed]
         /\ \/ /\ row.status = "COMPLETED" /\ listed # {}
               /\ Call(Boot(w), "remove", IdOnly(row.id))
            \/ /\ row.status # "COMPLETED" /\ ~inStep
               /\ Call(Boot(w), "unsched", row)
            \/ /\ IF row.status = "COMPLETED" THEN listed = {} ELSE inStep
               /\ UNCHANGED <<pc, arg>>
    /\ UNCHANGED jobs

\* One turn of the loop over the jobs left over.
VisitOrphan(w) ==
    /\ At(Boot(w), "loop")
    /\ bootRows[w] = {}
    /\ \E j \in bootJobs[w] :
         /\ bootJobs' = [bootJobs EXCEPT ![w] = @ \ {j}]
         /\ Call(Boot(w), "remove", IdOnly(j.id))
    /\ UNCHANGED <<jobs, bootRows>>

BootDone(w) ==
    /\ At(Boot(w), "loop")
    /\ bootRows[w] = {} /\ bootJobs[w] = {}
    /\ Call(Boot(w), "done", Nothing)
    /\ UNCHANGED <<jobs, bootRows, bootJobs>>

BootStep(w) == ListRows(w) \/ ListJobs(w) \/ VisitRow(w) \/ VisitOrphan(w)
                 \/ BootDone(w)

----------------------------------------------------------------------------
\* Campaign c has exactly the schedule its row asks for: a job for its end
\* date that has not failed, or no job that could still run.
InStep(c) ==
    IF Exists(c) /\ Schedulable(db[c])
    THEN Live(c) /\ jobs[c].end = db[c].end
    ELSE ~Live(c)
=============================================================================
