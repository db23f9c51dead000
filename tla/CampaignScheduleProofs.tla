---------------------- MODULE CampaignScheduleProofs ----------------------
(***************************************************************************)
(* Proof that a request nobody disturbs leaves its campaign in step, for   *)
(* any number of requests that work on different campaigns, and whatever   *)
(* fails on the way.                                                       *)
(***************************************************************************)
EXTENDS CampaignExpirationProofs

(* No worker is about, and the requests that are under way are for         *)
(* different campaigns: any number of them, and any number of faults.      *)
Calm ==
    /\ \A w \in Workers : ~Up(w)
    /\ \A q, r \in Requests :
          /\ pc[q] \notin Answered /\ pc[r] \notin Answered
          /\ arg[q].id = arg[r].id
          => q = r

(* Without a worker no job has run, and no initializer is under way.       *)
NoJobRuns ==
    /\ \A c \in Campaigns : /\ jobs[c].state \in {"none", "delayed", "waiting"}
                            /\ jobs[c].lock = NoLock
    /\ \A w \in Workers : At(Boot(w), "off")

(* Once a request has written its row, it works for the row as it is       *)
(* stored; where it adds a job there is none, or the one it added before.  *)
WorksForRow(r) ==
    LET c == arg[r].id
        stored == Exists(c) /\ arg[r] = TargetOf(c)
    IN
    /\ pc[r] = "delete" => ~Schedulable(arg[r])
    /\ pc[r] \in {"refresh", "add", "readd"} => stored
    /\ pc[r] \in {"unsched", "remove"} =>
          stored \/ (~Exists(c) /\ ~Schedulable(arg[r]))
    /\ pc[r] = "add" => ~HasJob(c)
    /\ pc[r] = "readd" => ~HasJob(c) \/ jobs[c].end = arg[r].end

CalmInv == NoJobRuns /\ \A r \in Requests : WorksForRow(r)

(* A step of a request, or a fault that befalls it.                        *)
AtRequest(r) == Request(r) \/ CallFails(r) \/ CallFailsLate(r) \/ ApiDies(r)

(* While no worker is about, a step is a request's, or the table and the   *)
(* threads stay as they are and at most a job becomes waiting.             *)
LEMMA CalmSteps ==
    ASSUME TypeOK, Calm, Calm', NoJobRuns, [Next]_vars
    PROVE  \/ \E r \in Requests : AtRequest(r)
           \/ /\ UNCHANGED <<db, pc, arg>>
              /\ \/ jobs' = jobs
                 \/ \E c \in Campaigns : Promote(c)
<1> USE ThreadFacts DEF TypeOK, ThreadType
<1>1. \A w \in Workers : /\ pc[w] = "down" /\ pc[Boot(w)] = "off"
                         /\ pc'[w] = "down"
  BY DEF Calm, NoJobRuns, Up, At
<1>2. ASSUME NEW t \in Threads, pc[t] \notin {"down", "off"}
      PROVE  t \in Requests
  BY <1>1, <1>2 DEF Threads, Boots
<1>3. ASSUME NEW w \in Workers PROVE ~Worker(w) /\ ~Initializer(w) /\ ~Restart(w)
  <2>1. ~Worker(w)
    BY <1>1 DEF Worker, ConsumerStep, Take, Find, Complete, Latest, Ack, Nack, At,
                ServiceStep, Refresh, Unschedule, Remove, Add
  <2>2. ~Initializer(w)
    BY <1>1 DEF Initializer, BootStep, BootExit, ListRows, ListJobs, VisitRow,
                VisitOrphan, BootDone, At, ServiceStep, Refresh, Unschedule,
                Remove, Add
  <2>3. ~Restart(w)
    BY <1>1 DEF Restart, Start
  <2>4. QED
    BY <2>1, <2>2, <2>3
<1>4. ASSUME NEW c \in Campaigns, Queue(c)
      PROVE  UNCHANGED <<db, pc, arg>> /\ Promote(c)
  <2>1. ~ExpireLock(c) /\ ~RecoverStalled(c)
    BY NamesAssumption DEF ExpireLock, RecoverStalled, NoJobRuns
  <2>2. QED
    BY <1>4, <2>1 DEF Queue
<1>5. CASE AnyFault
  <2>1. ASSUME NEW t \in Threads, CallFails(t) \/ CallFailsLate(t)
        PROVE  t \in Requests
    BY <1>2, <2>1 DEF CallFails, CallFailsLate, At, CallPc, ServicePc
  <2>2. ASSUME NEW w \in Workers PROVE ~AnswerLost(w) /\ ~WorkerDies(w)
    BY <1>1 DEF AnswerLost, WorkerDies, Up
  <2>3. ASSUME NEW c \in Campaigns PROVE ~LockLost(c)
    BY NamesAssumption DEF LockLost, LoseLock, NoJobRuns
  <2>4. QED
    BY <1>5, <2>1, <2>2, <2>3 DEF AnyFault, AtRequest
<1>6. CASE Time \/ UNCHANGED vars
  BY <1>6 DEF Time, vars
<1>7. QED
  BY <1>3, <1>4, <1>5, <1>6 DEF Next, AtRequest

(* A request touches the row and the job of its own campaign only, and it  *)
(* is answered only after it has been under way.                           *)
LEMMA RequestLocal ==
    ASSUME TypeOK, NEW r \in Requests, AtRequest(r)
    PROVE  /\ \A q \in Requests \ {r} : pc'[q] = pc[q] /\ arg'[q] = arg[q]
           /\ \A w \in Workers : pc'[Boot(w)] = pc[Boot(w)]
           /\ \A c \in Campaigns : c # arg'[r].id =>
                 db'[c] = db[c] /\ jobs'[c] = jobs[c]
           /\ pc'[r] \in Answered =>
                 pc[r] \notin Answered /\ arg'[r].id = arg[r].id
<1> USE ThreadFacts DEF TypeOK, ThreadType, QueueType, TableType, GoTo, Call, At,
        Answered
<1>1. CASE Create(r)
  <2>1. PICK c \in Campaigns, row \in Row :
           /\ Store(c, row)
           /\ Call(r, RefreshPc(row),
                   [id |-> c, end |-> row.end, status |-> row.status])
    BY <1>1 DEF Create
  <2>2. arg'[r].id = c /\ pc'[r] \notin Answered
    BY <2>1 DEF RefreshPc
  <2>3. QED
    BY <1>1, <2>1, <2>2 DEF Create, Store
<1>2. CASE UpdateFind(r) \/ DeleteFind(r)
  BY <1>2 DEF UpdateFind, DeleteFind
<1>3. CASE Update(r)
  BY <1>3 DEF Update, Store, IdOnly, RefreshPc
<1>4. CASE Delete(r)
  BY <1>4 DEF Delete, Store
<1>5. CASE ServiceStep(r) /\ UNCHANGED <<db, auto>>
  BY <1>5 DEF ServiceStep, Refresh, Unschedule, Remove, Add, Removed, Added
<1>6. CASE CallFails(r)
  BY <1>6 DEF CallFails, CallPc, ServicePc
<1>7. CASE CallFailsLate(r)
  BY <1>7 DEF CallFailsLate, Store, CompleteWrite, Removed, Added
<1>8. CASE ApiDies(r)
  BY <1>8 DEF ApiDies
<1>9. QED
  BY <1>1, <1>2, <1>3, <1>4, <1>5, <1>6, <1>7, <1>8
     DEF AtRequest, Request, RequestStep

(* The service keeps to the row and the job it found.                      *)
LEMMA ServiceWorks ==
    ASSUME TypeOK, NoJobRuns, NEW r \in Requests, WorksForRow(r), ServiceStep(r),
           db' = db, now' = now
    PROVE  WorksForRow(r)' /\ (pc'[r] = "ok" => InStep(arg[r].id)')
<1> DEFINE c == arg[r].id
<1> USE ThreadFacts DEF TypeOK, ThreadType, GoTo, At
<1>1. /\ c \in Campaigns /\ arg' = arg
      /\ ReturnPc(r) = "ok" /\ ThrowPc(r) = "error"
  BY DEF ServiceStep, Refresh, Unschedule, Remove, Add, Patch, ReturnPc, ThrowPc
<1>2. /\ jobs \in [Campaigns -> Job]
      /\ jobs[c].state \in {"none", "delayed", "waiting"} /\ jobs[c].lock = NoLock
  BY <1>1 DEF QueueType, NoJobRuns
<1>3. /\ Exists(c)' <=> Exists(c)
      /\ TargetOf(c)' = TargetOf(c) /\ Schedulable(arg[r])' = Schedulable(arg[r])
  BY <1>1 DEF Exists, TargetOf, Schedulable
<1>4. ASSUME Exists(c), arg[r] = TargetOf(c)
      PROVE  (Schedulable(db[c]) <=> Schedulable(arg[r])) /\ arg[r].end = db[c].end
  BY <1>4 DEF Schedulable, TargetOf
<1>5. InStep(c)' = IF Exists(c) /\ Schedulable(db[c])
                   THEN Live(c)' /\ jobs'[c].end = db[c].end
                   ELSE ~Live(c)'
  BY <1>1, <1>3 DEF InStep, Schedulable
<1> USE DEF WorksForRow
<1>6. CASE Refresh(r)
  <2>1. jobs' = jobs /\ Exists(c) /\ arg[r] = TargetOf(c)
    BY <1>6 DEF Refresh
  <2>2. CASE HasJob(c) /\ jobs[c].end = arg[r].end
    <3>1. pc'[r] = "ok" /\ Live(c)'
      BY <1>1, <1>2, <1>6, <2>1, <2>2 DEF Refresh, Live, HasJob
    <3>2. Schedulable(arg[r])
      BY <1>6 DEF ArgOK, Refresh
    <3>3. QED
      BY <1>1, <1>4, <1>5, <2>1, <2>2, <3>1, <3>2
  <2>3. CASE ~(HasJob(c) /\ jobs[c].end = arg[r].end)
    BY <1>1, <1>3, <1>6, <2>1, <2>3 DEF Refresh
  <2>4. QED
    BY <2>2, <2>3
<1>7. ASSUME pc[r] \in {"unsched", "remove"}, ~HasJob(c)',
             pc'[r] = UnscheduledPc(r)
      PROVE  WorksForRow(r)' /\ (pc'[r] = "ok" => InStep(arg[r].id)')
  <2>1. ~Live(c)'
    BY <1>7 DEF HasJob, Live
  <2>2. \/ Exists(c) /\ arg[r] = TargetOf(c)
        \/ ~Exists(c) /\ ~Schedulable(arg[r])
    BY <1>7
  <2>3. CASE Schedulable(arg[r])
    BY <1>1, <1>3, <1>7, <2>2, <2>3 DEF UnscheduledPc
  <2>4. CASE ~Schedulable(arg[r])
    BY <1>1, <1>4, <1>5, <1>7, <2>1, <2>2, <2>4 DEF UnscheduledPc
  <2>5. QED
    BY <2>3, <2>4
<1>8. CASE Unschedule(r)
  <2>1. CASE HasJob(c)
    BY <1>1, <1>3, <1>8, <2>1 DEF Unschedule
  <2>2. CASE ~HasJob(c)
    BY <1>7, <1>8, <2>2 DEF Unschedule, HasJob
  <2>3. QED
    BY <2>1, <2>2
<1>9. CASE Remove(r)
  <2>1. jobs' = Removed(c) /\ pc' = [pc EXCEPT ![r] = UnscheduledPc(r)]
    BY <1>2, <1>9 DEF Remove, Locked
  <2>2. ~HasJob(c)'
    BY <1>1, <1>2, <2>1 DEF Removed, HasJob, NoJob
  <2>3. QED
    BY <1>7, <1>9, <2>1, <2>2 DEF Remove
<1>10. CASE Add(r)
  <2>1. /\ Exists(c) /\ arg[r] = TargetOf(c) /\ Schedulable(arg[r])
        /\ pc'[r] = "ok" /\ jobs' = Added(c, arg[r].end)
        /\ ~HasJob(c) \/ jobs[c].end = arg[r].end
    BY <1>1, <1>10 DEF Add, ArgOK
  <2>2. Live(c)' /\ jobs'[c].end = arg[r].end
    BY <1>1, <1>2, <2>1 DEF Added, NewJob, HasJob, Live
  <2>3. QED
    BY <1>1, <1>4, <1>5, <2>1, <2>2
<1>11. QED
  BY <1>6, <1>8, <1>9, <1>10 DEF ServiceStep

(* A handler that writes the row goes on with the row it wrote.            *)
LEMMA WriterWorks ==
    ASSUME TypeOK, NoJobRuns, NEW r \in Requests, WorksForRow(r), Request(r)
    PROVE  WorksForRow(r)' /\ (pc'[r] = "ok" => InStep(arg[r].id)')
<1> USE ThreadFacts DEF TypeOK, ThreadType, GoTo, Call, At
<1>1. arg[r] \in Patch /\ arg[r].id \in Campaigns
  BY DEF Patch
<1>2. ASSUME NEW c \in Campaigns, NEW row \in Row, Store(c, row),
             Call(r, RefreshPc(row),
                  [id |-> c, end |-> row.end, status |-> row.status])
      PROVE  WorksForRow(r)' /\ pc'[r] # "ok"
  <2>1. db'[c] = row /\ arg'[r] = [id |-> c, end |-> row.end, status |-> row.status]
    BY <1>2 DEF Store, TableType
  <2>2. Exists(c)' /\ arg'[r] = TargetOf(c)'
    BY <2>1 DEF Exists, TargetOf, Row
  <2>3. pc'[r] \in {"refresh", "unsched"} /\ arg'[r].id = c
    BY <1>2, <2>1 DEF RefreshPc
  <2>4. QED
    BY <2>2, <2>3 DEF WorksForRow
<1>3. CASE Create(r)
  BY <1>2, <1>3 DEF Create
<1>4. CASE UpdateFind(r)
  BY <1>4 DEF UpdateFind, WorksForRow
<1>5. CASE Update(r)
  <2>1. Exists(arg[r].id) => Patched(db[arg[r].id], arg[r]) \in Row
    BY <1>1, PatchFacts, RowFacts
  <2>2. CASE Exists(arg[r].id)
    BY <1>1, <1>2, <1>5, <2>1, <2>2 DEF Update
  <2>3. CASE ~Exists(arg[r].id)
    BY <1>5, <2>3 DEF Update, WorksForRow
  <2>4. QED
    BY <2>2, <2>3
<1>6. CASE DeleteFind(r)
  <2>1. PICK c \in Campaigns : Call(r, "delete", IdOnly(c))
    BY <1>6 DEF DeleteFind
  <2>2. pc'[r] = "delete" /\ arg'[r] = IdOnly(c)
    BY <2>1
  <2>3. ~Schedulable(arg[r])'
    BY <2>2 DEF Schedulable, IdOnly
  <2>4. QED
    BY <2>2, <2>3 DEF WorksForRow
<1>7. CASE Delete(r)
  <2>1. arg' = arg /\ pc[r] = "delete" /\ pc'[r] \in {"unsched", "error"}
    BY <1>7 DEF Delete
  <2>2. pc'[r] = "unsched" => db'[arg[r].id] = Gone
    BY <1>1, <1>7 DEF Delete, Store, TableType
  <2>3. pc'[r] = "unsched" => ~Exists(arg[r].id)'
    BY <2>1, <2>2 DEF Exists, Gone
  <2>4. ~Schedulable(arg[r])'
    BY <2>1 DEF WorksForRow, Schedulable
  <2>5. QED
    BY <2>1, <2>3, <2>4 DEF WorksForRow
<1>8. CASE ServiceStep(r) /\ UNCHANGED <<db, auto>>
  BY <1>8, ServiceWorks DEF Request
<1>9. QED
  BY <1>3, <1>4, <1>5, <1>6, <1>7, <1>8 DEF Request, RequestStep

(* A fault ends the request, or has its add tried again.                   *)
LEMMA FaultWorks ==
    ASSUME TypeOK, NEW r \in Requests, WorksForRow(r),
           CallFails(r) \/ CallFailsLate(r) \/ ApiDies(r)
    PROVE  WorksForRow(r)' /\ pc'[r] # "ok"
<1> USE ThreadFacts DEF TypeOK, ThreadType, GoTo, At
<1>1. arg' = arg /\ arg[r].id \in Campaigns
  BY DEF CallFails, CallFailsLate, ApiDies, Patch
<1>2. CASE pc'[r] = "error"
  BY <1>2 DEF WorksForRow
<1>3. CASE pc[r] = "add" /\ pc'[r] = "readd"
  <2>1. db' = db /\ (jobs' = jobs \/ jobs' = Added(arg[r].id, arg[r].end))
    BY <1>3 DEF CallFails, CallFailsLate, ApiDies
  <2>2. Exists(arg[r].id) /\ arg[r] = TargetOf(arg[r].id) /\ ~HasJob(arg[r].id)
    BY <1>3 DEF WorksForRow
  <2>3. Exists(arg[r].id)' /\ arg'[r] = TargetOf(arg[r].id)'
    BY <1>1, <2>1, <2>2 DEF Exists, TargetOf
  <2>4. ~HasJob(arg[r].id)' \/ jobs'[arg[r].id].end = arg[r].end
    BY <1>1, <2>1, <2>2 DEF Added, NewJob, HasJob, QueueType
  <2>5. QED
    BY <1>1, <1>3, <2>3, <2>4 DEF WorksForRow
<1>4. QED
  BY <1>2, <1>3 DEF CallFails, CallFailsLate, ApiDies, CallFailedPc, ThrowPc

(* What a request works for is not touched by the others.                  *)
LEMMA OthersWork ==
    ASSUME TypeOK, Calm, Calm', NEW q \in Requests, NEW r \in Requests, q # r,
           AtRequest(r), WorksForRow(q)
    PROVE  WorksForRow(q)'
<1> DEFINE c == arg[q].id
<1>1. pc'[q] = pc[q] /\ arg'[q] = arg[q] /\ c \in Campaigns
  BY ThreadFacts, RequestLocal DEF TypeOK, ThreadType, Patch
<1>2. CASE pc[q] \in Answered
  BY <1>1, <1>2 DEF WorksForRow, Answered
<1>3. CASE pc[q] \notin Answered
  <2>1. c # arg'[r].id
    BY <1>1, <1>3, RequestLocal DEF Calm
  <2>2. db'[c] = db[c] /\ jobs'[c] = jobs[c]
    BY <1>1, <2>1, RequestLocal
  <2>3. /\ Exists(c)' <=> Exists(c)
        /\ TargetOf(c)' = TargetOf(c) /\ (HasJob(c)' <=> HasJob(c))
        /\ Schedulable(arg[q])' <=> Schedulable(arg[q])
    BY <1>1, <2>2 DEF Exists, TargetOf, HasJob, Schedulable
  <2>4. QED
    BY <1>1, <2>2, <2>3 DEF WorksForRow
<1>4. QED
  BY <1>2, <1>3

(* No job runs as long as no worker is about.                              *)
LEMMA StaysQuiet ==
    ASSUME TypeOK, Calm, Calm', NoJobRuns, [Next]_vars
    PROVE  NoJobRuns'
<1> USE ThreadFacts DEF TypeOK, QueueType
<1>1. CASE /\ UNCHANGED <<db, pc, arg>>
           /\ jobs' = jobs \/ \E c \in Campaigns : Promote(c)
  BY <1>1 DEF NoJobRuns, Promote, At, Job
<1>2. ASSUME NEW r \in Requests, AtRequest(r) PROVE NoJobRuns'
  <2>1. \A w \in Workers : At(Boot(w), "off")'
    BY <1>2, RequestLocal DEF NoJobRuns, At
  <2>2. \/ jobs' = jobs
        \/ \E c : jobs' = Removed(c)
        \/ \E c, end : jobs' = Added(c, end)
    BY <1>2 DEF AtRequest, Request, RequestStep, Create, UpdateFind, Update,
                DeleteFind, Delete, ServiceStep, Refresh, Unschedule, Remove, Add,
                CallFails, CallFailsLate, ApiDies
  <2>3. QED
    BY <2>1, <2>2 DEF NoJobRuns, Removed, Added, NewJob, NoJob
<1>3. QED
  BY <1>1, <1>2, CalmSteps

LEMMA CalmStep ==
    ASSUME TypeOK, Calm, Calm', CalmInv, [Next]_vars
    PROVE  /\ CalmInv'
           /\ \A r \in Requests : pc[r] \notin Answered /\ pc'[r] = "ok"
                                     => InStep(arg[r].id)'
<1> USE DEF CalmInv
<1>1. NoJobRuns'
  BY StaysQuiet
<1>2. CASE /\ UNCHANGED <<db, pc, arg>>
           /\ jobs' = jobs \/ \E c \in Campaigns : Promote(c)
  <2>1. ASSUME NEW r \in Requests PROVE WorksForRow(r)'
    <3>1. arg[r].id \in Campaigns
      BY ThreadFacts DEF TypeOK, ThreadType, Patch
    <3>2. /\ HasJob(arg[r].id)' <=> HasJob(arg[r].id)
          /\ jobs'[arg[r].id].end = jobs[arg[r].id].end
      BY <1>2, <3>1 DEF Promote, HasJob, TypeOK, QueueType, Job
    <3>3. QED
      BY <1>2, <3>1, <3>2 DEF WorksForRow, Exists, TargetOf, Schedulable
  <2>2. QED
    BY <1>1, <1>2, <2>1 DEF Answered
<1>3. ASSUME NEW r \in Requests, AtRequest(r)
      PROVE  /\ \A q \in Requests : WorksForRow(q)'
             /\ \A q \in Requests : pc[q] \notin Answered /\ pc'[q] = "ok"
                                       => InStep(arg[q].id)'
  <2>1. WorksForRow(r)' /\ (pc'[r] = "ok" => InStep(arg[r].id)')
    BY <1>3, WriterWorks, FaultWorks DEF AtRequest
  <2>2. \A q \in Requests \ {r} : WorksForRow(q)'
    BY <1>3, OthersWork
  <2>3. \A q \in Requests \ {r} : pc'[q] = pc[q]
    BY <1>3, RequestLocal
  <2>4. QED
    BY <2>1, <2>2, <2>3 DEF Answered
<1>4. QED
  BY <1>1, <1>2, <1>3, CalmSteps

LEMMA CalmInit ==
    ASSUME Calm, InitUp \/ InitDown
    PROVE  CalmInv
<1> USE ThreadFacts
<1>1. \A r \in Requests : WorksForRow(r)
  BY DEF InitUp, InitDown, InitThreads, WorksForRow
<1>2. \A w \in Workers : At(Boot(w), "off")
  BY DEF InitUp, InitDown, InitThreads, Calm, Up, At
<1>3. \A c \in Campaigns : /\ jobs[c].state \in {"none", "delayed", "waiting"}
                           /\ jobs[c].lock = NoLock
  <2>1. \A end : /\ NewJob(end).state \in {"delayed", "waiting"}
                 /\ NewJob(end).lock = NoLock
    BY DEF NewJob
  <2>2. NoJob.state = "none" /\ NoJob.lock = NoLock
    BY DEF NoJob
  <2>3. QED
    BY <2>1, <2>2 DEF InitUp, InitDown, InitInStep
<1>4. QED
  BY <1>1, <1>2, <1>3 DEF CalmInv, NoJobRuns

(* A request that is answered without an error leaves exactly the schedule *)
(* its row asks for, for any number of requests side by side and whatever  *)
(* of their calls failed before or during it, as long as no other request  *)
(* is under way for the same campaign and no worker is up.  The two        *)
(* conditions are what the overlaps of a second writer and of a running    *)
(* job break (campaigns.service.ts writes the row and then calls the       *)
(* scheduler, in two awaits).                                              *)
THEOREM InStepWhenCalm ==
    (SpecUp \/ SpecDown) /\ []Calm => AnsweredInStep
<1>1. (InitUp \/ InitDown) /\ Calm => CalmInv
  BY CalmInit
<1>2. TypeOK /\ Calm /\ Calm' /\ CalmInv /\ [Next]_vars => CalmInv'
  BY CalmStep
<1>3. TypeOK /\ Calm /\ Calm' /\ CalmInv /\ [Next]_vars
         => [\A r \in Requests : pc[r] \notin Answered /\ pc'[r] = "ok"
                                    => InStep(arg[r].id)']_vars
  BY CalmStep
<1>4. QED
  BY <1>1, <1>2, <1>3, TypeCorrect, PTL DEF SpecUp, SpecDown, AnsweredInStep

(* An API with one request at a time and no worker is always calm.         *)
COROLLARY OneRequestInStep ==
    ASSUME Workers = {}, \A q, r \in Requests : q = r
    PROVE  SpecUp => AnsweredInStep
<1>1. Calm
  BY DEF Calm
<1>2. SpecUp => []Calm
  BY <1>1, PTL
<1>3. QED
  BY <1>2, InStepWhenCalm, PTL
=============================================================================
