--------------------------- MODULE CampaignQueue ---------------------------
(***************************************************************************)
(* The BullMQ queue "campaigns" as the API and the worker use it, and the  *)
(* clock its delays run on.  BullMQ is not part of this repository, so     *)
(* the module says what the code relies on:                                *)
(*   - a job has the id of its campaign, so a campaign has at most one job *)
(*     and adding a second one is silently ignored;                        *)
(*   - a delayed job becomes waiting when its end date is reached;         *)
(*   - a worker that takes a job holds its lock, and removing a locked job *)
(*     is an error, whoever asks;                                          *)
(*   - a job whose lock has gone is put back to waiting, the second time   *)
(*     it is failed; a failed job is kept and never runs again.            *)
(***************************************************************************)
EXTENDS Naturals

CONSTANTS
    Campaigns,  \* ids of the campaigns that may ever exist
    Workers,    \* worker processes
    MaxTime,    \* bound: the clock runs from 0 to MaxTime
    NoEnd,      \* the NULL of the endDate column
    NoLock,     \* nobody holds the lock of a job
    Orphaned    \* the lock of a worker that is gone, not yet expired

VARIABLES
    jobs,       \* jobs[c] is the job of campaign c, NoJob when there is none
    now         \* the current time

Date == 0 .. MaxTime

\* Mutant of Attempts: one attempt less.
TwoAttempts == 2

Attempts == 3   \* options.attempts of every job the scheduler adds
MaxStalls == 1  \* BullMQ's default maxStalledCount

JobState == {"none", "delayed", "waiting", "active", "failed"}
Job == [end : Date,                 \* job.data.endDate
        state : JobState,
        tries : 0 .. Attempts,      \* attempts that ended in an error
        stalls : 0 .. MaxStalls,
        lock : Workers \union {NoLock, Orphaned}]

NoJob == [end |-> 0, state |-> "none", tries |-> 0, stalls |-> 0,
          lock |-> NoLock]

HasJob(c) == jobs[c].state # "none"
Locked(c) == jobs[c].lock # NoLock

\* What getJobs(['delayed', 'waiting', 'prioritized']) returns.
Listed(c) == jobs[c].state \in {"delayed", "waiting"}

\* A job that is still going to run, or is running.
Live(c) == jobs[c].state \in {"delayed", "waiting", "active"}

----------------------------------------------------------------------------
(* Operations the services call.                                           *)

NewJob(end) == [end |-> end,
                state |-> IF end <= now THEN "waiting" ELSE "delayed",
                tries |-> 0, stalls |-> 0, lock |-> NoLock]

\* queue.add with the delay max(end - now, 0).
Added(c, end) ==
    IF HasJob(c) THEN jobs
    ELSE [jobs EXCEPT ![c] = NewJob(end)]

\* job.remove on a job that is not locked.
Removed(c) == [jobs EXCEPT ![c] = NoJob]

\* A worker takes a waiting job, holding its lock.
Claimed(c, w) == [jobs EXCEPT ![c].state = "active", ![c].lock = w]

\* The handler of worker w returned: removeOnComplete.  A worker that lost
\* the lock changes nothing.
Finished(c, w) == IF jobs[c].lock = w THEN Removed(c) ELSE jobs

\* Mutant of Errored: no limit on the attempts.
ErroredWithoutLimit(c, w) ==
    IF jobs[c].lock # w THEN jobs
    ELSE [jobs EXCEPT ![c].lock = NoLock, ![c].state = "delayed"]

\* The handler of worker w threw: another attempt after a backoff, until
\* the attempts are used up.
Errored(c, w) ==
    IF jobs[c].lock # w THEN jobs
    ELSE [jobs EXCEPT ![c] =
            [jobs[c] EXCEPT !.lock = NoLock,
                            !.tries = jobs[c].tries + 1,
                            !.state = IF jobs[c].tries + 1 < Attempts
                                      THEN "delayed" ELSE "failed"]]

\* Worker w is gone: its locks are no longer renewed.
Abandoned(w) ==
    [c \in Campaigns |->
        IF jobs[c].lock = w THEN [jobs[c] EXCEPT !.lock = Orphaned]
        ELSE jobs[c]]

----------------------------------------------------------------------------
(* What the queue does by itself.                                          *)

\* The backoff of a retry is not counted: the retry runs some time later.
Promote(c) ==
    /\ jobs[c].state = "delayed"
    /\ jobs[c].end <= now
    /\ jobs' = [jobs EXCEPT ![c].state = "waiting"]

ExpireLock(c) ==
    /\ jobs[c].lock = Orphaned
    /\ jobs' = [jobs EXCEPT ![c].lock = NoLock]

RecoverStalled(c) ==
    /\ jobs[c].state = "active"
    /\ ~Locked(c)
    /\ jobs' = [jobs EXCEPT ![c] =
                   IF jobs[c].stalls < MaxStalls
                   THEN [jobs[c] EXCEPT !.state = "waiting",
                                        !.stalls = jobs[c].stalls + 1]
                   ELSE [jobs[c] EXCEPT !.state = "failed"]]

\* A worker that is alive but does not get to renew a lock in time.
LoseLock(c) ==
    /\ jobs[c].lock \in Workers
    /\ jobs' = [jobs EXCEPT ![c].lock = NoLock]

Tick == now < MaxTime /\ now' = now + 1
=============================================================================
