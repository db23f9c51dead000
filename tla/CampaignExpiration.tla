------------------------- MODULE CampaignExpiration -------------------------
(***************************************************************************)
(* The API and the workers around the campaign table and the queue: every  *)
(* interleaving of the awaits of request handlers, job handlers and        *)
(* initializers, and the failures each of them may meet.                   *)
(***************************************************************************)
EXTENDS ExpirationConsumer, CampaignRequests

CONSTANTS
    FaultKinds, \* the kinds of fault that may happen, a subset of Faults
    MaxFaults   \* bound: how many of them may happen

VARIABLES
    faults      \* how many faults have happened

vars == <<jobs, now, db, auto, pc, arg, bootRows, bootJobs, faults>>
bootVars == <<bootRows, bootJobs>>

Faults == {"call", "late", "kill", "lock"}

ASSUME ConstantsAssumption ==
    /\ MaxTime \in Nat /\ ClockSkew \in Nat /\ MaxFaults \in Nat
    /\ DayLength \in Nat \ {0} /\ Campaigns # {}
    /\ FaultKinds \subseteq Faults

ASSUME NamesAssumption ==
    /\ {NoLock, Orphaned} \cap Workers = {} /\ NoLock # Orphaned
    /\ NoEnd \notin Nat /\ Keep \notin Nat \union {NoEnd, "OPEN", "COMPLETED"}
    /\ Requests \cap Workers = {}
    /\ Boots \cap (Requests \union Workers) = {}

----------------------------------------------------------------------------
RequestPc == ServicePc \union Answered \union {"update", "delete"}
WorkerPc == ServicePc \union
    {"down", "idle", "find", "complete", "latest", "ack", "nack"}
BootPc == ServicePc \union {"off", "list", "jobs", "loop", "done", "exit"}
PcOf(t) == IF t \in Requests THEN RequestPc
           ELSE IF t \in Workers THEN WorkerPc ELSE BootPc

QueueType ==
    /\ jobs \in [Campaigns -> Job]
    /\ \A c \in Campaigns : /\ Locked(c) => jobs[c].state = "active"
                            /\ Live(c) => jobs[c].tries < Attempts
    /\ now \in Date
TableType == /\ db \in [Campaigns -> Row \union {Fresh, Gone}]
             /\ auto \subseteq Campaigns
ThreadType == /\ pc \in [Threads -> RequestPc \union WorkerPc \union BootPc]
              /\ \A t \in Threads : pc[t] \in PcOf(t)
              /\ arg \in [Threads -> Patch]
BootType == /\ bootRows \in [Workers -> SUBSET Target]
            /\ bootJobs \in [Workers -> SUBSET [id : Campaigns, end : Date]]

\* A thread inside the scheduler service has a campaign to pass, one with an
\* end date where a job is compared or added.
ArgOK ==
    \A t \in Threads :
       /\ pc[t] \in ServicePc \union {"delete"} => arg[t] \in Target
       /\ pc[t] \in {"refresh", "add", "readd"} => Schedulable(arg[t])

TypeOK ==
    /\ QueueType /\ TableType /\ ThreadType /\ BootType /\ ArgOK
    /\ faults \in 0 .. MaxFaults

----------------------------------------------------------------------------
(* Initial states: no request is running.                                  *)

InitThreads(workerPc, bootPc) ==
    /\ now = 0
    /\ auto = {}
    /\ pc = [t \in Threads |-> IF t \in Requests THEN "ok"
                               ELSE IF t \in Workers THEN workerPc ELSE bootPc]
    /\ arg = [t \in Threads |-> Nothing]
    /\ bootRows = [w \in Workers |-> {}]
    /\ bootJobs = [w \in Workers |-> {}]

\* A job as some earlier history may have left it, its worker gone.  A job
\* that never ran has no tries; those of a failed job no longer matter.
Leftover ==
    {NoJob} \union
    {j \in Job :
        /\ j.state # "none" /\ j.tries < Attempts
        /\ j.lock = IF j.state = "active" THEN Orphaned ELSE NoLock
        /\ j.state \in {"waiting", "active"} => j.end <= 0
        /\ j.end > 0 \/ j.state = "failed" => j.tries = 0 /\ j.stalls = 0}

\* The workers start on a table and a queue that need not agree.  The failed
\* attempts a job has behind it are counted as faults that have happened.
Init ==
    /\ db \in [Campaigns -> Row \union {Fresh, Gone}]
    /\ jobs \in [Campaigns -> Leftover]
    /\ \A c \in Campaigns : db[c] = Fresh => jobs[c] = NoJob
    /\ faults \in 0 .. MaxFaults
    /\ \A c \in Campaigns : jobs[c].tries <= faults
    /\ InitThreads("down", "off")

\* The queue is in step with the table.
InitInStep ==
    /\ db \in [Campaigns -> Row \union {Fresh}]
    /\ jobs = [c \in Campaigns |->
                 IF Schedulable(db[c]) THEN NewJob(db[c].end) ELSE NoJob]
    /\ faults = 0

\* In step, and the workers have been up for a while, or are yet to start.
InitUp == InitThreads("idle", "done") /\ InitInStep
InitDown == InitThreads("down", "off") /\ InitInStep

----------------------------------------------------------------------------
Request(r) == RequestStep(r) /\ UNCHANGED <<now, bootVars, faults>>

Worker(w) == ConsumerStep(w) /\ UNCHANGED <<now, bootVars, faults>>

Initializer(w) ==
    \/ BootStep(w) /\ UNCHANGED <<now, db, auto, faults>>
    \/ ServiceStep(Boot(w)) /\ UNCHANGED <<now, db, auto, bootVars, faults>>
    \/ BootExit(w) /\ UNCHANGED <<now, faults>>

Restart(w) == Start(w) /\ UNCHANGED <<now, faults>>

Queue(c) ==
    /\ \/ Promote(c)
       \/ ExpireLock(c)
       \/ RecoverStalled(c) /\ \E w \in Workers : Up(w)
    /\ UNCHANGED <<now, db, auto, pc, arg, bootVars, faults>>

Time == Tick /\ UNCHANGED <<jobs, db, auto, pc, arg, bootVars, faults>>

----------------------------------------------------------------------------
(* Faults.                                                                 *)

Fault(kind) ==
    /\ kind \in FaultKinds
    /\ faults < MaxFaults
    /\ faults' = faults + 1

\* Awaits of the database or the queue, made by the code itself.
CallPc == ServicePc \union {"update", "delete", "find", "complete", "latest",
                            "list", "jobs"}

\* The awaited call is rejected and has done nothing.
CallFails(t) ==
    /\ Fault("call")
    /\ pc[t] \in CallPc
    /\ GoTo(t, CallFailedPc(t))
    /\ UNCHANGED <<jobs, now, db, auto, arg, bootVars>>

\* The call has done its work but the answer is lost.
CallFailsLate(t) ==
    LET c == arg[t].id IN
    /\ Fault("late")
    /\ \/ /\ At(t, "update") /\ Exists(c)
          /\ Store(c, Patched(db[c], arg[t]))
          /\ UNCHANGED jobs
       \/ /\ At(t, "delete") /\ Exists(c)
          /\ Store(c, Gone)
          /\ UNCHANGED jobs
       \/ /\ At(t, "complete") /\ StillScheduled(t)
          /\ CompleteWrite(t)
          /\ UNCHANGED jobs
       \/ /\ At(t, "remove") /\ ~Locked(c)
          /\ jobs' = Removed(c)
          /\ UNCHANGED <<db, auto>>
       \/ /\ pc[t] \in {"add", "readd"}
          /\ jobs' = Added(c, arg[t].end)
          /\ UNCHANGED <<db, auto>>
    /\ GoTo(t, CallFailedPc(t))
    /\ UNCHANGED <<now, arg, bootVars>>

\* The answer of a handler never reaches the queue: its lock runs out.
AnswerLost(w) ==
    /\ Fault("late")
    /\ pc[w] \in {"ack", "nack"}
    /\ Call(w, "idle", Nothing)
    /\ jobs' = Abandoned(w)
    /\ UNCHANGED <<now, db, auto, bootVars>>

\* The API dies with request r under way, between the write and the schedule
\* for instance.  Requests that die together are faults one after the other.
ApiDies(r) ==
    /\ Fault("kill")
    /\ pc[r] \notin Answered
    /\ GoTo(r, "error")
    /\ UNCHANGED <<jobs, now, db, auto, arg, bootVars>>

\* A worker dies, its initializer with it.
WorkerDies(w) == Fault("kill") /\ Up(w) /\ Stop(w) /\ UNCHANGED now

LockLost(c) ==
    /\ Fault("lock")
    /\ LoseLock(c)
    /\ UNCHANGED <<now, db, auto, pc, arg, bootVars>>

AnyFault ==
    \/ \E t \in Threads : CallFails(t) \/ CallFailsLate(t)
    \/ \E r \in Requests : ApiDies(r)
    \/ \E w \in Workers : AnswerLost(w) \/ WorkerDies(w)
    \/ \E c \in Campaigns : LockLost(c)

----------------------------------------------------------------------------
Next ==
    \/ \E r \in Requests : Request(r)
    \/ \E w \in Workers : Worker(w) \/ Initializer(w) \/ Restart(w)
    \/ \E c \in Campaigns : Queue(c)
    \/ Time
    \/ AnyFault

Spec == Init /\ [][Next]_vars
SpecUp == InitUp /\ [][Next]_vars
SpecDown == InitDown /\ [][Next]_vars

\* A request handler that has started goes on to its answer; clients need
\* not send another.  A worker that is down is started again by whatever
\* supervises it.
Fairness ==
    /\ \A r \in Requests : WF_vars(pc[r] \notin Answered /\ Request(r))
    /\ \A w \in Workers : /\ WF_vars(Worker(w))
                          /\ WF_vars(Initializer(w))
                          /\ WF_vars(Restart(w))
    /\ \A c \in Campaigns : WF_vars(Queue(c))
    /\ WF_vars(Time)

LiveSpec == Spec /\ Fairness
LiveSpecUp == SpecUp /\ Fairness

----------------------------------------------------------------------------
(* Properties.                                                             *)

\* A campaign that asks for a job, and the job it asks for.
Wanted(c) == Open(c) /\ db[c].end # NoEnd
Kept(c) == Live(c) /\ jobs[c].end = db[c].end

\* Whatever races with whatever and whatever fails, a worker completes only
\* a campaign that is open and whose current end date has been reached: the
\* consumer's check and its conditional updateMany together are enough
\* (campaign-expiration.consumer.ts 45-72).
Lifecycle == INSTANCE CampaignLifecycle
CompletesOnlyWhenDue == Lifecycle!Spec

\* The job of a campaign is never handled by two workers at once, although
\* requests and initializers remove it and add it again under the same id
\* all the time - as long as no worker loses a lock.
OneHandlerPerCampaign ==
    faults = 0 \/ "lock" \notin FaultKinds =>
       \A v, w \in Workers :
          Busy(v) /\ Busy(w) /\ arg[v].id = arg[w].id => v = w

\* With one writer and no worker about, a request that is answered without
\* an error leaves exactly the schedule its row asks for, whatever failed
\* before or during it - the first add and its repetition included.
AnsweredInStep ==
    [][\A r \in Requests :
          pc[r] \notin Answered /\ pc'[r] = "ok" => InStep(arg[r].id)']_vars

\* A worker that has finished its initializer has repaired the schedules:
\* every open campaign with an end date has a job for that date, although
\* jobs ran, failed and were retried while the initializer worked.
BootRepairs ==
    [][\A w \in Workers :
          pc[Boot(w)] # "done" /\ pc'[Boot(w)] = "done" =>
             \A c \in Campaigns : Wanted(c) => Kept(c)]_vars

\* The initializer discards a job only if the table does not ask for it.
BootDropsOnlyStale ==
    [][\A w \in Workers :
          LET c == arg[Boot(w)].id IN
          /\ At(Boot(w), "remove") /\ pc'[Boot(w)] = "loop"
          /\ Live(c)
          => ~(Open(c) /\ db[c].end = jobs[c].end)]_vars

\* A campaign whose end date is reached is completed - or moved, or deleted.
DueGetsCompleted == \A c \in Campaigns : Due(c) ~> ~Due(c)

\* A job whose time has come does not go on for ever: its handler returns, or
\* its attempts are used up - of a deleted campaign's job, of one that fails
\* to remove itself when its campaign has moved, of one whose answer is lost.
DueJobsEnd ==
    \A c \in Campaigns :
       Live(c) /\ jobs[c].end <= now ~> ~(Live(c) /\ jobs[c].end <= now)

\* A schedule nobody touches is carried out: a job that has not failed yet
\* completes its campaign although as many awaits as it has further attempts
\* are rejected - unless a client comes back to it.
NoRequest == \A r \in Requests : pc[r] \in Answered
ScheduledRuns ==
    \A c \in Campaigns :
       /\ NoRequest /\ Due(c)
       /\ Listed(c) /\ jobs[c].end = db[c].end /\ jobs[c].tries = 0
       ~> ~Due(c) \/ ~NoRequest

\* The job of an open campaign, waiting for the campaign's end date.
Scheduled(c) ==
    /\ Wanted(c) /\ Kept(c)
    /\ jobs[c].state = "delayed" /\ jobs[c].tries = 0 /\ jobs[c].stalls = 0

Untouched(c) == \A r \in Requests : pc[r] \in Answered \/ arg[r].id # c

\* From the moment the last request has left a scheduled campaign alone, the
\* campaign has its job until it is completed: no handler returns early, is
\* rejected, or loses its answer so that the job is used up and the campaign
\* is still open (consumer 40-83, attempts of the scheduler's options).
UntouchedKept ==
    \A c \in Campaigns :
       [](Scheduled(c) /\ []Untouched(c) => [](Wanted(c) => Kept(c)))

Quiet ==
    /\ NoRequest
    /\ \A w \in Workers : pc[w] = "idle" /\ pc[Boot(w)] = "done"

\* When nothing is running, every open campaign with an end date has a job
\* for that date that is still going to run.
NoLostSchedule ==
    Quiet => \A c \in Campaigns : Wanted(c) => Kept(c)

\* A job whose campaign has moved to another date is rescheduled, it is not
\* given up for good.
MovedIsRescheduled ==
    Quiet => \A c \in Campaigns :
                Wanted(c) /\ jobs[c].state = "failed" =>
                   jobs[c].end = db[c].end
=============================================================================
