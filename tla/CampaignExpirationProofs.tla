---------------------- MODULE CampaignExpirationProofs ----------------------
(***************************************************************************)
(* Proofs about CampaignExpiration for any number of campaigns, requests,  *)
(* workers and faults, and any clock skew.                                 *)
(***************************************************************************)
EXTENDS CampaignExpiration, TLAPS

(* The threads of a worker are two different threads, and no request's.    *)
LEMMA ThreadFacts ==
    /\ \A r \in Requests : r \in Threads /\ r \notin Workers
    /\ \A w \in Workers : /\ w \in Threads /\ w \notin Requests
                          /\ Boot(w) \in Threads
                          /\ Boot(w) \notin Requests /\ Boot(w) \notin Workers
    /\ \A v, w \in Workers : Boot(v) = Boot(w) => v = w
BY NamesAssumption DEF Threads, Boots, Boot

----------------------------------------------------------------------------
(* The queue: a job keeps its type, only an active job is locked, and a    *)
(* job that can still run has an attempt left.                             *)

(* One job changes: it is enough to look at that job.                      *)
LEMMA OneJobChanges ==
    ASSUME QueueType, NEW c \in Campaigns, NEW j \in Job,
           jobs' = [jobs EXCEPT ![c] = j],
           j.lock # NoLock => j.state = "active",
           j.state \in {"delayed", "waiting", "active"} => j.tries < Attempts,
           now' = now
    PROVE  QueueType'
<1>1. jobs' \in [Campaigns -> Job] /\ now' \in Date
  BY DEF QueueType
<1>2. ASSUME NEW d \in Campaigns
      PROVE  /\ Locked(d)' => jobs'[d].state = "active"
             /\ Live(d)' => jobs'[d].tries < Attempts
  BY DEF QueueType, Locked, Live
<1>3. QED
  BY <1>1, <1>2 DEF QueueType, Live, Locked

LEMMA NoJobType == NoJob \in Job /\ 0 \in Date
<1>1. 0 \in Date
  BY ConstantsAssumption DEF Date
<1>2. QED
  BY <1>1 DEF NoJob, Job, JobState, Attempts, MaxStalls

(* What the scheduler service does to the queue.                           *)
LEMMA ServiceOperations ==
    ASSUME QueueType, NEW c \in Campaigns, now' = now,
           \/ jobs' = jobs
           \/ jobs' = Removed(c)
           \/ \E end \in Date : jobs' = Added(c, end)
    PROVE  QueueType'
<1> USE NoJobType
<1>1. CASE jobs' = jobs
  BY <1>1 DEF QueueType, Locked, Live
<1>2. CASE jobs' = Removed(c)
  BY <1>2, OneJobChanges DEF Removed, NoJob
<1>3. ASSUME NEW end \in Date, jobs' = Added(c, end)
      PROVE  QueueType'
  <2>1. CASE HasJob(c)
    BY <1>1, <1>3, <2>1 DEF Added
  <2>2. CASE ~HasJob(c)
    <3>1. /\ NewJob(end) \in Job /\ NewJob(end).lock = NoLock
          /\ NewJob(end).tries < Attempts
      BY <1>3 DEF NewJob, Job, JobState, Attempts, MaxStalls
    <3>2. jobs' = [jobs EXCEPT ![c] = NewJob(end)]
      BY <1>3, <2>2 DEF Added
    <3>3. QED
      BY <3>1, <3>2, OneJobChanges
  <2>3. QED
    BY <2>1, <2>2
<1>4. QED
  BY <1>1, <1>2, <1>3

(* What a worker does to the queue before and after its handler.           *)
LEMMA HandlerOperations ==
    ASSUME QueueType, NEW c \in Campaigns, NEW w \in Workers, now' = now,
           \/ jobs[c].state = "waiting" /\ jobs' = Claimed(c, w)
           \/ jobs' = Finished(c, w)
           \/ jobs' = Errored(c, w)
    PROVE  QueueType'
<1>1. CASE jobs[c].state = "waiting" /\ jobs' = Claimed(c, w)
  <2> DEFINE j == [jobs[c] EXCEPT !.state = "active", !.lock = w]
  <2>1. j \in Job /\ j.state = "active" /\ j.tries = jobs[c].tries
    BY DEF QueueType, Job, JobState
  <2>2. jobs' = [jobs EXCEPT ![c] = j]
    BY <1>1 DEF Claimed, QueueType, Job
  <2>3. j.tries < Attempts
    BY <2>1, <1>1 DEF QueueType, Live
  <2> HIDE DEF j
  <2>4. QED
    BY <2>1, <2>2, <2>3, OneJobChanges
<1>2. CASE jobs' = Finished(c, w)
  BY <1>2, ServiceOperations DEF Finished
<1>3. CASE jobs' = Errored(c, w)
  <2>1. CASE jobs[c].lock # w
    BY <1>3, <2>1, ServiceOperations DEF Errored
  <2>2. CASE jobs[c].lock = w
    <3> DEFINE j == [jobs[c] EXCEPT !.lock = NoLock, !.tries = @ + 1,
                        !.state = IF jobs[c].tries + 1 < Attempts
                                  THEN "delayed" ELSE "failed"]
    <3>1. jobs[c].tries + 1 \in 0 .. Attempts
      <4>1. jobs[c].state = "active"
        BY <2>2, NamesAssumption DEF QueueType, Locked
      <4>2. QED
        BY <4>1 DEF QueueType, Live, Job, Attempts
    <3>2. /\ j \in Job /\ j.lock = NoLock
          /\ j.state \in {"delayed", "waiting", "active"} => j.tries < Attempts
      BY <3>1 DEF QueueType, Job, JobState
    <3>3. jobs' = [jobs EXCEPT ![c] = j]
      BY <1>3, <2>2 DEF Errored
    <3> HIDE DEF j
    <3>4. QED
      BY <3>2, <3>3, OneJobChanges
  <2>3. QED
    BY <2>1, <2>2
<1>4. QED
  BY <1>1, <1>2, <1>3

(* The queue's own steps.                                                  *)
LEMMA QueueSteps ==
    ASSUME QueueType, NEW c \in Campaigns, now' = now,
           Promote(c) \/ ExpireLock(c) \/ RecoverStalled(c) \/ LoseLock(c)
    PROVE  QueueType'
<1>1. CASE Promote(c)
  <2> DEFINE j == [jobs[c] EXCEPT !.state = "waiting"]
  <2>1. /\ j \in Job /\ j.lock = jobs[c].lock /\ j.tries = jobs[c].tries
        /\ jobs' = [jobs EXCEPT ![c] = j]
    BY <1>1 DEF Promote, QueueType, Job, JobState
  <2>2. j.lock = NoLock /\ j.tries < Attempts
    BY <1>1, <2>1 DEF Promote, QueueType, Live, Locked
  <2> HIDE DEF j
  <2>3. QED
    BY <2>1, <2>2, OneJobChanges
<1>2. CASE ExpireLock(c) \/ LoseLock(c)
  <2> DEFINE j == [jobs[c] EXCEPT !.lock = NoLock]
  <2>1. /\ j \in Job /\ j.lock = NoLock
        /\ j.tries = jobs[c].tries /\ j.state = jobs[c].state
        /\ jobs' = [jobs EXCEPT ![c] = j]
    BY <1>2 DEF ExpireLock, LoseLock, QueueType, Job
  <2>2. j.state \in {"delayed", "waiting", "active"} => j.tries < Attempts
    BY <2>1 DEF QueueType, Live
  <2> HIDE DEF j
  <2>3. QED
    BY <2>1, <2>2, OneJobChanges
<1>3. CASE RecoverStalled(c)
  <2>1. jobs[c].tries < Attempts /\ jobs[c].lock = NoLock
    BY <1>3 DEF RecoverStalled, QueueType, Live, Locked
  <2>2. CASE jobs[c].stalls < MaxStalls
    <3> DEFINE j == [jobs[c] EXCEPT !.state = "waiting",
                                    !.stalls = jobs[c].stalls + 1]
    <3>1. jobs[c].stalls + 1 \in 0 .. MaxStalls
      BY <2>2 DEF QueueType, Job, MaxStalls
    <3>2. j \in Job /\ j.lock = NoLock /\ j.tries = jobs[c].tries
      BY <2>1, <3>1 DEF QueueType, Job, JobState
    <3>3. jobs' = [jobs EXCEPT ![c] = j]
      BY <1>3, <2>2 DEF RecoverStalled
    <3> HIDE DEF j
    <3>4. QED
      BY <2>1, <3>2, <3>3, OneJobChanges
  <2>3. CASE ~(jobs[c].stalls < MaxStalls)
    <3> DEFINE j == [jobs[c] EXCEPT !.state = "failed"]
    <3>1. j \in Job /\ j.lock = NoLock /\ j.state = "failed"
      BY <2>1 DEF QueueType, Job, JobState
    <3>2. jobs' = [jobs EXCEPT ![c] = j]
      BY <1>3, <2>3 DEF RecoverStalled
    <3> HIDE DEF j
    <3>3. QED
      BY <3>1, <3>2, OneJobChanges
  <2>4. QED
    BY <2>2, <2>3
<1>4. QED
  BY <1>1, <1>2, <1>3

(* A worker that goes leaves its locks behind.                             *)
LEMMA AbandonedType ==
    ASSUME QueueType, NEW w \in Workers, jobs' = Abandoned(w), now' = now
    PROVE  QueueType'
<1>1. ASSUME NEW c \in Campaigns
      PROVE  /\ jobs'[c] \in Job
             /\ jobs'[c].state = jobs[c].state
             /\ jobs'[c].tries = jobs[c].tries
             /\ jobs'[c].lock # NoLock => jobs[c].lock # NoLock
  <2>1. CASE jobs[c].lock = w
    <3>1. jobs'[c] = [jobs[c] EXCEPT !.lock = Orphaned]
      BY <2>1 DEF Abandoned
    <3>2. QED
      BY <2>1, <3>1, NamesAssumption DEF QueueType, Job
  <2>2. CASE jobs[c].lock # w
    BY <2>2 DEF Abandoned, QueueType
  <2>3. QED
    BY <2>1, <2>2
<1>2. jobs' \in [Campaigns -> Job]
  BY <1>1 DEF Abandoned
<1>3. QED
  BY <1>1, <1>2 DEF QueueType, Live, Locked

----------------------------------------------------------------------------
(* The threads: moving one thread to a label of its own kind keeps the     *)
(* types, and only that thread's part of the invariant has to be looked at. *)

ThreadInv == ThreadType /\ ArgOK

LEMMA Moved ==
    ASSUME ThreadInv, NEW t \in Threads, NEW label \in PcOf(t),
           GoTo(t, label), arg' = arg,
           label \in ServicePc \union {"delete"} => arg[t] \in Target,
           label \in {"refresh", "add", "readd"} => Schedulable(arg[t])
    PROVE  ThreadInv'
BY DEF ThreadInv, ThreadType, ArgOK, GoTo, Schedulable, PcOf

LEMMA Called ==
    ASSUME ThreadInv, NEW t \in Threads, NEW label \in PcOf(t),
           NEW row \in Patch, Call(t, label, row),
           label \in ServicePc \union {"delete"} => row \in Target,
           label \in {"refresh", "add", "readd"} => Schedulable(row)
    PROVE  ThreadInv'
BY DEF ThreadInv, ThreadType, ArgOK, Call, GoTo, Schedulable, PcOf

(* A thread in the scheduler service.                                      *)
LEMMA ServiceLabels ==
    ASSUME NEW t \in Threads
    PROVE  /\ ServicePc \subseteq PcOf(t)
           /\ ReturnPc(t) \in PcOf(t) /\ ThrowPc(t) \in PcOf(t)
           /\ ReturnPc(t) \notin ServicePc /\ ThrowPc(t) \notin ServicePc
BY DEF PcOf, RequestPc, WorkerPc, BootPc, ReturnPc, ThrowPc, ServicePc, Answered

LEMMA ServiceTypes ==
    ASSUME QueueType, ThreadInv, NEW t \in Threads, ServiceStep(t), now' = now
    PROVE  QueueType' /\ ThreadInv'
<1> DEFINE c == arg[t].id
<1>1. arg[t] \in Target /\ c \in Campaigns
  <2>1. pc[t] \in ServicePc
    BY DEF ServiceStep, Refresh, Unschedule, Remove, Add, At, ServicePc
  <2>2. QED
    BY <2>1 DEF ThreadInv, ArgOK, Target
<1>2. pc[t] \in {"refresh", "add", "readd"} => Schedulable(arg[t])
  BY DEF ThreadInv, ArgOK
<1>3. Schedulable(arg[t]) => arg[t].end \in Date
  BY <1>1 DEF Schedulable, Target
<1> HIDE DEF c
<1>4. CASE Refresh(t)
  <2>1. jobs' = jobs /\ arg' = arg
    BY <1>4 DEF Refresh
  <2>2. GoTo(t, ReturnPc(t)) \/ GoTo(t, "unsched")
    BY <1>4 DEF Refresh, GoTo
  <2>3. QED
    BY <1>1, <2>1, <2>2, ServiceLabels, ServiceOperations, Moved DEF ServicePc
<1>5. ASSUME arg' = arg, GoTo(t, UnscheduledPc(t)) PROVE ThreadInv'
  BY <1>1, <1>5, ServiceLabels, Moved DEF UnscheduledPc, ServicePc
<1>6. CASE Unschedule(t)
  <2>1. jobs' = jobs /\ arg' = arg
    BY <1>6 DEF Unschedule
  <2>2. GoTo(t, "remove") \/ GoTo(t, UnscheduledPc(t))
    BY <1>6 DEF Unschedule, GoTo
  <2>3. QED
    BY <1>1, <1>5, <2>1, <2>2, ServiceLabels, ServiceOperations, Moved
       DEF ServicePc
<1>7. CASE Remove(t)
  <2>1. arg' = arg /\ (jobs' = jobs \/ jobs' = Removed(c))
    BY <1>7 DEF Remove, c
  <2>2. GoTo(t, ThrowPc(t)) \/ GoTo(t, UnscheduledPc(t))
    BY <1>7 DEF Remove
  <2>3. QED
    BY <1>1, <1>5, <2>1, <2>2, ServiceLabels, ServiceOperations, Moved
       DEF ServicePc
<1>8. CASE Add(t)
  <2>1. arg' = arg /\ jobs' = Added(c, arg[t].end) /\ GoTo(t, ReturnPc(t))
    BY <1>8 DEF Add, c
  <2>2. arg[t].end \in Date
    BY <1>2, <1>3, <1>8 DEF Add
  <2>3. QED
    BY <1>1, <2>1, <2>2, ServiceLabels, ServiceOperations, Moved
       DEF ServicePc
<1>9. QED
  BY <1>4, <1>6, <1>7, <1>8 DEF ServiceStep

----------------------------------------------------------------------------
(* Type correctness, one lemma per part of the next-state relation.        *)

LEMMA PatchFacts ==
    /\ Target \subseteq Patch
    /\ \A c \in Campaigns : IdOnly(c) \in Target /\ ~Schedulable(IdOnly(c))
    /\ Nothing \in Target
    /\ \A row \in Row, patch \in Patch : Patched(row, patch) \in Row
    /\ \A c \in Campaigns, row \in Row :
          [id |-> c, end |-> row.end, status |-> row.status] \in Target
<1>1. Target \subseteq Patch
  BY DEF Target, Patch
<1>2. \A c \in Campaigns : IdOnly(c) \in Target /\ ~Schedulable(IdOnly(c))
  BY DEF IdOnly, Target, Schedulable
<1>3. Nothing \in Target
  <2>1. (CHOOSE c \in Campaigns : TRUE) \in Campaigns
    BY ConstantsAssumption
  <2>2. QED
    BY <1>2, <2>1 DEF Nothing
<1>4. \A row \in Row, patch \in Patch : Patched(row, patch) \in Row
  BY DEF Patched, Row, Patch
<1>5. \A c \in Campaigns, row \in Row :
         [id |-> c, end |-> row.end, status |-> row.status] \in Target
  BY DEF Row, Target
<1>6. QED
  BY <1>1, <1>2, <1>3, <1>4, <1>5

LEMMA RowFacts ==
    ASSUME TableType, NEW c \in Campaigns
    PROVE  /\ Exists(c) => db[c] \in Row /\ TargetOf(c) \in Target
           /\ Open(c) => Exists(c)
           /\ \A row \in Row \union {Gone} : Store(c, row) => TableType'
<1>1. Exists(c) => db[c] \in Row
  BY DEF TableType, Exists, Fresh, Gone
<1>2. QED
  BY <1>1 DEF Open, Exists, TargetOf, Row, Target, TableType, Store

LEMMA RequestTypes ==
    ASSUME TypeOK, NEW r \in Requests, Request(r)
    PROVE  TypeOK'
<1> USE ThreadFacts DEF TypeOK
<1>1. now' = now /\ BootType' /\ faults' \in 0 .. MaxFaults /\ RequestStep(r)
  BY DEF Request, BootType, bootVars
<1>2. r \in Threads /\ PcOf(r) = RequestPc /\ ThreadInv
  BY DEF PcOf, ThreadInv
<1>3. arg[r] \in Patch
  BY <1>2 DEF ThreadType
<1>4. ASSUME jobs' = jobs PROVE QueueType'
  BY <1>1, <1>4 DEF QueueType, Locked, Live
<1>5. ASSUME NEW row \in Row, NEW c \in Campaigns,
             Call(r, RefreshPc(row),
                  [id |-> c, end |-> row.end, status |-> row.status])
      PROVE  ThreadInv'
  <2> DEFINE target == [id |-> c, end |-> row.end, status |-> row.status]
  <2>1. target \in Target /\ target \in Patch
    BY PatchFacts
  <2>2. RefreshPc(row) = "refresh" => Schedulable(target)
    BY DEF RefreshPc, Schedulable
  <2>3. RefreshPc(row) \in {"refresh", "unsched"}
    BY DEF RefreshPc
  <2>4. RefreshPc(row) \in PcOf(r)
    BY <1>2, <2>3 DEF RequestPc, ServicePc
  <2> HIDE DEF target
  <2>5. Call(r, RefreshPc(row), target)
    BY <1>5 DEF target
  <2>6. QED
    BY <1>2, <2>1, <2>2, <2>3, <2>4, <2>5, Called
<1>6. CASE Create(r)
  <2>1. PICK c \in Campaigns, row \in Row :
           /\ Store(c, row)
           /\ Call(r, RefreshPc(row),
                   [id |-> c, end |-> row.end, status |-> row.status])
    BY <1>6 DEF Create
  <2>2. QED
    BY <1>1, <1>4, <1>5, <1>6, <2>1, RowFacts DEF Create, ThreadInv
<1>7. CASE UpdateFind(r)
  <2>1. PICK patch \in Patch : Call(r, "update", patch)
    BY <1>7 DEF UpdateFind
  <2>2. ThreadInv'
    BY <1>2, <2>1, Called DEF RequestPc, ServicePc
  <2>3. QED
    BY <1>1, <1>4, <1>7, <2>2 DEF UpdateFind, TableType, ThreadInv
<1>8. CASE Update(r)
  <2> DEFINE c == arg[r].id
  <2>1. c \in Campaigns
    BY <1>3 DEF Patch
  <2>2. CASE Exists(c)
    <3>1. Patched(db[c], arg[r]) \in Row
      BY <1>3, <2>1, <2>2, PatchFacts, RowFacts
    <3>2. QED
      BY <1>1, <1>4, <1>5, <1>8, <2>1, <2>2, <3>1, RowFacts
         DEF Update, ThreadInv
  <2>3. CASE ~Exists(c)
    <3>1. Call(r, "error", IdOnly(c)) /\ UNCHANGED <<jobs, db, auto>>
      BY <1>8, <2>3 DEF Update
    <3>2. ThreadInv'
      BY <1>2, <2>1, <3>1, PatchFacts, Called
         DEF RequestPc, ServicePc, Answered
    <3>3. QED
      BY <1>1, <1>4, <3>1, <3>2 DEF TableType, ThreadInv
  <2>4. QED
    BY <2>2, <2>3
<1>9. CASE DeleteFind(r)
  <2>1. PICK c \in Campaigns : Call(r, "delete", IdOnly(c))
    BY <1>9 DEF DeleteFind
  <2>2. ThreadInv'
    BY <1>2, <2>1, PatchFacts, Called DEF RequestPc, ServicePc
  <2>3. QED
    BY <1>1, <1>4, <1>9, <2>2 DEF DeleteFind, TableType, ThreadInv
<1>10. CASE Delete(r)
  <2>1. arg[r] \in Target /\ arg[r].id \in Campaigns
    BY <1>2, <1>10 DEF Delete, At, ThreadInv, ArgOK, Target
  <2>2. arg' = arg /\ (GoTo(r, "unsched") \/ GoTo(r, "error"))
    BY <1>10 DEF Delete
  <2>3. ThreadInv'
    BY <1>2, <2>1, <2>2, Moved DEF RequestPc, ServicePc, Answered
  <2>4. TableType'
    BY <1>10, <2>1, RowFacts DEF Delete, TableType
  <2>5. QED
    BY <1>1, <1>4, <1>10, <2>3, <2>4 DEF Delete, ThreadInv
<1>11. CASE ServiceStep(r) /\ UNCHANGED <<db, auto>>
  BY <1>1, <1>2, <1>11, ServiceTypes DEF TableType, ThreadInv
<1>12. QED
  BY <1>1, <1>6, <1>7, <1>8, <1>9, <1>10, <1>11 DEF RequestStep

LEMMA WorkerTypes ==
    ASSUME TypeOK, NEW w \in Workers, Worker(w)
    PROVE  TypeOK'
<1> USE ThreadFacts DEF TypeOK
<1> DEFINE c == arg[w].id
<1>1. now' = now /\ BootType' /\ faults' \in 0 .. MaxFaults /\ ConsumerStep(w)
  BY DEF Worker, BootType, bootVars
<1>2. w \in Threads /\ PcOf(w) = WorkerPc /\ ThreadInv
  BY DEF PcOf, ThreadInv
<1>3. arg[w] \in Patch /\ c \in Campaigns
  BY <1>2 DEF ThreadType, Patch
<1>4. ASSUME jobs' = jobs PROVE QueueType'
  BY <1>1, <1>4 DEF QueueType, Locked, Live
<1>5. ASSUME UNCHANGED <<db, auto>> PROVE TableType'
  BY <1>5 DEF TableType
<1>6. CASE Take(w)
  <2>1. PICK d \in Campaigns :
           /\ jobs[d].state = "waiting"
           /\ jobs' = Claimed(d, w)
           /\ Call(w, "find", [id |-> d, end |-> jobs[d].end, status |-> "OPEN"])
    BY <1>6 DEF Take
  <2>2. [id |-> d, end |-> jobs[d].end, status |-> "OPEN"] \in Patch
    BY DEF QueueType, Job, Patch
  <2>3. ThreadInv'
    BY <1>2, <2>1, <2>2, Called DEF WorkerPc, ServicePc
  <2>4. QueueType'
    BY <1>1, <2>1, HandlerOperations
  <2>5. QED
    BY <1>1, <1>5, <1>6, <2>3, <2>4 DEF Take, ThreadInv
<1>7. CASE Find(w)
  <2>1. \/ Call(w, "ack", arg[w]) \/ Call(w, "complete", arg[w])
        \/ Exists(c) /\ Schedulable(db[c]) /\ Call(w, "refresh", TargetOf(c))
    BY <1>7 DEF Find
  <2>2. Schedulable(db[c]) => Schedulable(TargetOf(c))
    BY DEF Schedulable, TargetOf
  <2>3. Exists(c) => TargetOf(c) \in Target /\ TargetOf(c) \in Patch
    BY <1>3, RowFacts, PatchFacts
  <2>4. ThreadInv'
    BY <1>2, <1>3, <2>1, <2>2, <2>3, Called DEF WorkerPc, ServicePc
  <2>5. QED
    BY <1>1, <1>4, <1>5, <1>7, <2>4 DEF Find, ThreadInv
<1>8. CASE Complete(w)
  <2>1. arg' = arg /\ jobs' = jobs /\ (GoTo(w, "ack") \/ GoTo(w, "latest"))
    BY <1>8 DEF Complete
  <2>2. ThreadInv'
    BY <1>2, <2>1, Moved DEF WorkerPc, ServicePc
  <2>3. ASSUME StillScheduled(w), CompleteWrite(w) PROVE TableType'
    <3>1. db[c] \in Row
      BY <1>3, <2>3, RowFacts DEF StillScheduled
    <3>2. [db[c] EXCEPT !.status = "COMPLETED"] \in Row
      BY <3>1 DEF Row
    <3>3. QED
      BY <1>3, <2>3, <3>2 DEF CompleteWrite, TableType
  <2>4. QED
    BY <1>1, <1>4, <1>5, <1>8, <2>1, <2>2, <2>3 DEF Complete, ThreadInv
<1>9. CASE Latest(w)
  <2>1. \/ Call(w, "ack", arg[w])
        \/ Exists(c) /\ Call(w, RefreshPc(db[c]), TargetOf(c))
    BY <1>9 DEF Latest
  <2>2. /\ RefreshPc(db[c]) \in {"refresh", "unsched"}
        /\ RefreshPc(db[c]) = "refresh" => Schedulable(TargetOf(c))
    BY DEF RefreshPc, Schedulable, TargetOf
  <2>3. Exists(c) => TargetOf(c) \in Target /\ TargetOf(c) \in Patch
    BY <1>3, RowFacts, PatchFacts
  <2>4. ThreadInv'
    BY <1>2, <1>3, <2>1, <2>2, <2>3, Called DEF WorkerPc, ServicePc
  <2>5. QED
    BY <1>1, <1>4, <1>5, <1>9, <2>4 DEF Latest, ThreadInv
<1>10. CASE Ack(w) \/ Nack(w)
  <2>1. /\ Call(w, "idle", Nothing) /\ UNCHANGED <<db, auto>>
        /\ jobs' = Finished(c, w) \/ jobs' = Errored(c, w)
    BY <1>10 DEF Ack, Nack
  <2>2. ThreadInv'
    BY <1>2, <2>1, PatchFacts, Called DEF WorkerPc, ServicePc
  <2>3. QueueType'
    BY <1>1, <1>3, <2>1, HandlerOperations
  <2>4. QED
    BY <1>1, <1>5, <2>1, <2>2, <2>3 DEF ThreadInv
<1>11. CASE ServiceStep(w) /\ UNCHANGED <<db, auto>>
  BY <1>1, <1>2, <1>5, <1>11, ServiceTypes DEF ThreadInv
<1>12. QED
  BY <1>1, <1>6, <1>7, <1>8, <1>9, <1>10, <1>11 DEF ConsumerStep

(* A worker process that comes up or goes down.                            *)
LEMMA StartStopTypes ==
    ASSUME TypeOK, NEW w \in Workers, now' = now, Start(w) \/ Stop(w)
    PROVE  QueueType' /\ TableType' /\ ThreadType' /\ BootType' /\ ArgOK'
<1> USE ThreadFacts DEF TypeOK
<1>1. /\ PcOf(w) = WorkerPc /\ PcOf(Boot(w)) = BootPc
      /\ \A t \in Threads : PcOf(t) \subseteq RequestPc \union WorkerPc \union BootPc
  BY DEF PcOf
<1>2. TableType'
  BY DEF Start, Stop, TableType
<1>3. CASE Start(w)
  <2>1. QueueType' /\ BootType'
    BY <1>3 DEF Start, QueueType, Locked, Live, BootType
  <2>2. ThreadType'
    BY <1>1, <1>3 DEF Start, ThreadType, WorkerPc, BootPc, PcOf
  <2>3. ArgOK'
    BY <1>3 DEF Start, ThreadType, ArgOK, Schedulable, ServicePc
  <2>4. QED
    BY <1>2, <2>1, <2>2, <2>3
<1>4. CASE Stop(w)
  <2>1. QueueType'
    BY <1>4, AbandonedType DEF Stop
  <2>2. BootType'
    BY <1>4 DEF Stop, BootType
  <2>3. Nothing \in Patch
    BY PatchFacts
  <2>4. arg' \in [Threads -> Patch]
    BY <1>4, <2>3 DEF Stop, ThreadType
  <2>5. /\ pc' \in [Threads -> RequestPc \union WorkerPc \union BootPc]
        /\ \A t \in Threads : pc'[t] \in PcOf(t)
    BY <1>1, <1>4 DEF Stop, ThreadType, WorkerPc, BootPc, PcOf
  <2>6. ThreadType'
    BY <2>4, <2>5 DEF ThreadType, PcOf
  <2>7. ArgOK'
    BY <1>4 DEF Stop, ThreadType, ArgOK, Schedulable, ServicePc
  <2>8. QED
    BY <1>2, <2>1, <2>2, <2>6, <2>7
<1>5. QED
  BY <1>3, <1>4

LEMMA InitializerTypes ==
    ASSUME TypeOK, NEW w \in Workers, Initializer(w)
    PROVE  TypeOK'
<1> USE ThreadFacts DEF TypeOK
<1> DEFINE b == Boot(w)
<1>1. now' = now /\ faults' \in 0 .. MaxFaults
  BY DEF Initializer
<1>2. b \in Threads /\ PcOf(b) = BootPc /\ ThreadInv
  BY DEF PcOf, ThreadInv
<1>3. ASSUME jobs' = jobs PROVE QueueType'
  BY <1>1, <1>3 DEF QueueType, Locked, Live
<1>4. CASE ServiceStep(b) /\ UNCHANGED <<now, db, auto, bootVars, faults>>
  BY <1>2, <1>4, ServiceTypes DEF TableType, BootType, bootVars, ThreadInv
<1>5. CASE BootExit(w) /\ UNCHANGED <<now, faults>>
  BY <1>5, StartStopTypes DEF BootExit
<1>6. CASE BootStep(w) /\ UNCHANGED <<now, db, auto, faults>>
  <2>1. TableType'
    BY <1>6 DEF TableType
  <2>2. CASE ListRows(w)
    <3>1. ThreadInv'
      BY <1>2, <2>2, Moved DEF ListRows, BootPc, ServicePc
    <3>2. {TargetOf(c) : c \in {d \in Campaigns : Exists(d) /\ db[d].end # NoEnd}}
             \subseteq Target
      BY RowFacts
    <3>3. BootType'
      BY <2>2, <3>2 DEF ListRows, BootType
    <3>4. QED
      BY <1>1, <1>3, <2>1, <2>2, <3>1, <3>3 DEF ListRows, ThreadInv
  <2>3. CASE ListJobs(w)
    <3>1. ThreadInv'
      BY <1>2, <2>3, Moved DEF ListJobs, BootPc, ServicePc
    <3>2. {[id |-> c, end |-> jobs[c].end] : c \in {d \in Campaigns : Listed(d)}}
             \subseteq [id : Campaigns, end : Date]
      BY DEF QueueType, Job
    <3>3. BootType'
      BY <2>3, <3>2 DEF ListJobs, BootType
    <3>4. QED
      BY <1>1, <1>3, <2>1, <2>3, <3>1, <3>3 DEF ListJobs, ThreadInv
  <2>4. CASE VisitRow(w)
    <3>1. PICK row \in bootRows[w] :
             /\ bootRows' = [bootRows EXCEPT ![w] = @ \ {row}]
             /\ bootJobs' = [bootJobs EXCEPT ![w] =
                               @ \ {j \in bootJobs[w] : j.id = row.id}]
             /\ \/ Call(b, "remove", IdOnly(row.id))
                \/ row.status # "COMPLETED" /\ Call(b, "unsched", row)
                \/ UNCHANGED <<pc, arg>>
      BY <2>4 DEF VisitRow
    <3>2. row \in Target /\ row.id \in Campaigns
      BY DEF BootType, Target
    <3>3. BootType'
      BY <3>1 DEF BootType
    <3>4. ASSUME UNCHANGED <<pc, arg>> PROVE ThreadInv'
      BY <1>2, <3>4 DEF ThreadInv, ThreadType, ArgOK, Schedulable, PcOf
    <3>5. ThreadInv'
      BY <1>2, <3>1, <3>2, <3>4, PatchFacts, Called DEF BootPc, ServicePc
    <3>6. QED
      BY <1>1, <1>3, <2>1, <2>4, <3>3, <3>5 DEF VisitRow, ThreadInv
  <2>5. CASE VisitOrphan(w)
    <3>1. PICK j \in bootJobs[w] :
             /\ bootJobs' = [bootJobs EXCEPT ![w] = @ \ {j}]
             /\ bootRows' = bootRows
             /\ Call(b, "remove", IdOnly(j.id))
      BY <2>5 DEF VisitOrphan
    <3>2. j.id \in Campaigns
      BY DEF BootType
    <3>3. BootType'
      BY <3>1 DEF BootType
    <3>4. ThreadInv'
      BY <1>2, <3>1, <3>2, PatchFacts, Called DEF BootPc, ServicePc
    <3>5. QED
      BY <1>1, <1>3, <2>1, <2>5, <3>3, <3>4 DEF VisitOrphan, ThreadInv
  <2>6. CASE BootDone(w)
    <3>1. ThreadInv'
      BY <1>2, <2>6, PatchFacts, Called DEF BootDone, BootPc, ServicePc
    <3>2. QED
      BY <1>1, <1>3, <2>1, <2>6, <3>1 DEF BootDone, BootType, ThreadInv
  <2>7. QED
    BY <1>6, <2>2, <2>3, <2>4, <2>5, <2>6 DEF BootStep
<1>7. QED
  BY <1>4, <1>5, <1>6 DEF Initializer

LEMMA FaultTypes ==
    ASSUME TypeOK, AnyFault
    PROVE  TypeOK'
<1> USE ThreadFacts DEF TypeOK
<1>1. ASSUME NEW kind, Fault(kind) PROVE faults' \in 0 .. MaxFaults
  BY <1>1, ConstantsAssumption DEF Fault
<1>2. ASSUME now' = now, jobs' = jobs PROVE QueueType'
  BY <1>2 DEF QueueType, Locked, Live
<1>3. ASSUME UNCHANGED bootVars PROVE BootType'
  BY <1>3 DEF bootVars, BootType
<1>4. ThreadInv
  BY DEF ThreadInv
<1>5. ASSUME NEW t \in Threads, pc[t] \in CallPc, GoTo(t, CallFailedPc(t)), arg' = arg
      PROVE  ThreadInv'
  <2>1. CASE At(t, "add")
    <3>1. arg[t] \in Target /\ Schedulable(arg[t])
      BY <1>4, <2>1 DEF ThreadInv, ArgOK, At, ServicePc
    <3>2. "readd" \in PcOf(t)
      BY ServiceLabels DEF ServicePc
    <3>3. QED
      BY <1>4, <1>5, <2>1, <3>1, <3>2, Moved DEF CallFailedPc
  <2>2. CASE ~At(t, "add")
    <3>1. ThrowPc(t) \in PcOf(t) /\ ThrowPc(t) \notin ServicePc \union {"delete"}
      BY ServiceLabels DEF ThrowPc
    <3>2. QED
      BY <1>4, <1>5, <2>2, <3>1, Moved DEF CallFailedPc, ServicePc
  <2>3. QED
    BY <2>1, <2>2
<1>6. ASSUME NEW t \in Threads, CallFails(t) PROVE TypeOK'
  BY <1>1, <1>2, <1>3, <1>5, <1>6 DEF CallFails, TableType, ThreadInv
<1>7. ASSUME NEW t \in Threads, CallFailsLate(t) PROVE TypeOK'
  <2> DEFINE c == arg[t].id
  <2>1. arg[t] \in Patch /\ c \in Campaigns
    BY DEF ThreadType, Patch
  <2>2. /\ faults' \in 0 .. MaxFaults /\ now' = now /\ arg' = arg /\ BootType'
        /\ GoTo(t, CallFailedPc(t))
    BY <1>1, <1>3, <1>7 DEF CallFailsLate
  <2>3. pc[t] \in CallPc
    BY <1>7 DEF CallFailsLate, At, CallPc, ServicePc
  <2>4. ThreadInv'
    BY <1>5, <2>2, <2>3
  <2>5. CASE At(t, "update") /\ Exists(c) /\ Store(c, Patched(db[c], arg[t]))
             /\ UNCHANGED jobs
    <3>1. Patched(db[c], arg[t]) \in Row
      BY <2>1, <2>5, PatchFacts, RowFacts
    <3>2. QED
      BY <1>2, <2>1, <2>2, <2>4, <2>5, <3>1, RowFacts DEF ThreadInv
  <2>6. CASE At(t, "delete") /\ Exists(c) /\ Store(c, Gone) /\ UNCHANGED jobs
    BY <1>2, <2>1, <2>2, <2>4, <2>6, RowFacts DEF ThreadInv
  <2>7. CASE At(t, "complete") /\ StillScheduled(t) /\ CompleteWrite(t)
             /\ UNCHANGED jobs
    <3>1. db[c] \in Row
      BY <2>1, <2>7, RowFacts DEF StillScheduled
    <3>2. [db[c] EXCEPT !.status = "COMPLETED"] \in Row
      BY <3>1 DEF Row
    <3>3. TableType'
      BY <2>1, <2>7, <3>2 DEF CompleteWrite, TableType
    <3>4. QED
      BY <1>2, <2>2, <2>4, <2>7, <3>3 DEF ThreadInv
  <2>8. CASE At(t, "remove") /\ jobs' = Removed(c) /\ UNCHANGED <<db, auto>>
    BY <2>1, <2>2, <2>4, <2>8, ServiceOperations DEF TableType, ThreadInv
  <2>9. CASE pc[t] \in {"add", "readd"} /\ jobs' = Added(c, arg[t].end)
             /\ UNCHANGED <<db, auto>>
    <3>1. arg[t].end \in Date
      BY <1>4, <2>9 DEF ThreadInv, ArgOK, Schedulable, Target, ServicePc
    <3>2. QED
      BY <2>1, <2>2, <2>4, <2>9, <3>1, ServiceOperations DEF TableType, ThreadInv
  <2>10. QED
    BY <1>7, <2>5, <2>6, <2>7, <2>8, <2>9 DEF CallFailsLate
<1>8. ASSUME NEW r \in Requests, ApiDies(r) PROVE TypeOK'
  <2>1. "error" \in PcOf(r)
    BY DEF PcOf, RequestPc, Answered
  <2>2. ThreadInv'
    BY <1>4, <1>8, <2>1, Moved DEF ApiDies, ServicePc
  <2>3. QED
    BY <1>1, <1>2, <1>3, <1>8, <2>2 DEF ApiDies, TableType, ThreadInv
<1>9. ASSUME NEW w \in Workers, AnswerLost(w) PROVE TypeOK'
  <2>1. "idle" \in PcOf(w)
    BY DEF PcOf, WorkerPc
  <2>2. ThreadInv'
    BY <1>4, <1>9, <2>1, PatchFacts, Called DEF AnswerLost, ServicePc
  <2>3. QED
    BY <1>1, <1>3, <1>9, <2>2, AbandonedType DEF AnswerLost, TableType, ThreadInv
<1>10. ASSUME NEW w \in Workers, WorkerDies(w) PROVE TypeOK'
  BY <1>1, <1>10, StartStopTypes DEF WorkerDies
<1>11. ASSUME NEW c \in Campaigns, LockLost(c) PROVE TypeOK'
  <2>1. QueueType'
    BY <1>11, QueueSteps DEF LockLost
  <2>2. ThreadType' /\ ArgOK'
    BY <1>11 DEF LockLost, ThreadType, ArgOK, Schedulable, PcOf
  <2>3. QED
    BY <1>1, <1>3, <1>11, <2>1, <2>2 DEF LockLost, TableType
<1>12. QED
  BY <1>6, <1>7, <1>8, <1>9, <1>10, <1>11 DEF AnyFault

LEMMA StepTypes ==
    ASSUME TypeOK, [Next]_vars
    PROVE  TypeOK'
<1> USE DEF TypeOK
<1>1. ASSUME UNCHANGED <<pc, arg>> PROVE ThreadType' /\ ArgOK'
  BY <1>1 DEF ThreadType, ArgOK, Schedulable, PcOf
<1>2. ASSUME UNCHANGED <<db, auto, bootVars, faults>>
      PROVE  TableType' /\ BootType' /\ faults' \in 0 .. MaxFaults
  BY <1>2 DEF TableType, BootType, bootVars
<1>3. ASSUME NEW c \in Campaigns, Queue(c) PROVE TypeOK'
  BY <1>1, <1>2, <1>3, QueueSteps DEF Queue
<1>4. CASE Time
  <2>1. QueueType'
    BY <1>4, ConstantsAssumption DEF Time, Tick, QueueType, Date, Locked, Live
  <2>2. QED
    BY <1>1, <1>2, <1>4, <2>1 DEF Time
<1>5. ASSUME NEW w \in Workers, Restart(w) PROVE TypeOK'
  BY <1>5, StartStopTypes DEF Restart
<1>6. CASE UNCHANGED vars
  <2>1. QueueType'
    BY <1>6 DEF vars, QueueType, Locked, Live
  <2>2. QED
    BY <1>1, <1>2, <1>6, <2>1 DEF vars, bootVars
<1>7. QED
  BY <1>3, <1>4, <1>5, <1>6, RequestTypes, WorkerTypes, InitializerTypes,
     FaultTypes DEF Next

LEMMA InitTypes ==
    ASSUME Init \/ InitUp \/ InitDown
    PROVE  TypeOK
<1> USE ThreadFacts
<1>1. now = 0 /\ 0 \in Date /\ auto = {}
  BY NoJobType DEF Init, InitUp, InitDown, InitThreads
<1>2. /\ faults \in 0 .. MaxFaults
      /\ db \in [Campaigns -> Row \union {Fresh, Gone}]
  BY ConstantsAssumption DEF Init, InitUp, InitDown, InitInStep
<1>3. PICK workerPc \in {"down", "idle"}, bootPc \in {"off", "done"} :
         InitThreads(workerPc, bootPc)
  BY DEF Init, InitUp, InitDown
<1>4. BootType
  BY <1>3 DEF InitThreads, BootType
<1>5. \A t \in Threads : /\ pc[t] \in PcOf(t)
                         /\ pc[t] \in {"ok", workerPc, bootPc}
  BY <1>3 DEF InitThreads, PcOf, RequestPc, WorkerPc, BootPc, Answered
<1>6. ThreadType
  <2>1. arg \in [Threads -> Patch]
    BY <1>3, PatchFacts DEF InitThreads
  <2>2. pc \in [Threads -> RequestPc \union WorkerPc \union BootPc]
    BY <1>3 DEF InitThreads, RequestPc, WorkerPc, BootPc, Answered
  <2>3. QED
    BY <1>5, <2>1, <2>2 DEF ThreadType
<1>7. ArgOK
  BY <1>5 DEF ArgOK, ServicePc
<1>8. QueueType
  <2>1. CASE Init
    <3>1. Leftover \subseteq Job
      BY NoJobType DEF Leftover
    <3>2. ASSUME NEW c \in Campaigns
          PROVE  /\ Locked(c) => jobs[c].state = "active"
                 /\ jobs[c].tries < Attempts
      <4>1. jobs[c] \in Leftover
        BY <2>1 DEF Init
      <4>2. QED
        BY <4>1 DEF Leftover, Locked, NoJob, Attempts
    <3>3. jobs \in [Campaigns -> Job]
      <4>1. jobs \in [Campaigns -> Leftover]
        BY <2>1 DEF Init
      <4> HIDE DEF Leftover
      <4>2. QED
        BY <3>1, <4>1
    <3>4. QED
      BY <1>1, <3>2, <3>3 DEF QueueType, Live
  <2>2. CASE InitInStep
    <3>1. ASSUME NEW c \in Campaigns, Schedulable(db[c]) PROVE db[c].end \in Date
      BY <2>2, <3>1 DEF InitInStep, Schedulable, Row, Fresh
    <3>2. ASSUME NEW end \in Date
          PROVE  /\ NewJob(end) \in Job /\ NewJob(end).lock = NoLock
                 /\ NewJob(end).tries < Attempts
      BY <3>2, NoJobType DEF NewJob, Job, JobState, Attempts, MaxStalls
    <3>3. NoJob.lock = NoLock /\ NoJob.tries < Attempts
      BY DEF NoJob, Attempts
    <3>4. \A c \in Campaigns : /\ jobs[c] \in Job /\ jobs[c].lock = NoLock
                               /\ jobs[c].tries < Attempts
      BY <2>2, <3>1, <3>2, <3>3, NoJobType DEF InitInStep
    <3>5. jobs \in [Campaigns -> Job]
      BY <2>2, <3>4 DEF InitInStep
    <3>6. QED
      BY <1>1, <3>4, <3>5 DEF QueueType, Locked, Live
  <2>3. QED
    BY <2>1, <2>2 DEF InitUp, InitDown
<1>9. QED
  BY <1>1, <1>2, <1>4, <1>6, <1>7, <1>8 DEF TypeOK, TableType

(* The system keeps its types, and with them what the scheduler service    *)
(* needs of its callers and a job of its tries and lock, from every one of *)
(* the three kinds of initial state.                                       *)
THEOREM TypeCorrect == Spec \/ SpecUp \/ SpecDown => []TypeOK
<1>1. Init \/ InitUp \/ InitDown => TypeOK
  BY InitTypes
<1>2. TypeOK /\ [Next]_vars => TypeOK'
  BY StepTypes
<1>3. QED
  BY <1>1, <1>2, PTL DEF Spec, SpecUp, SpecDown

----------------------------------------------------------------------------
(* What the steps of others leave alone.                                   *)

(* Whoever else takes a step, a worker's handler stays where it is, unless *)
(* its call fails or its process comes or goes.                            *)
LEMMA WorkerFrame ==
    ASSUME TypeOK, Next, NEW w \in Workers, ~Worker(w)
    PROVE  \/ pc'[w] = pc[w] /\ arg'[w] = arg[w]
           \/ pc'[w] \in {"idle", "down"}
           \/ pc'[w] \in {"readd", "nack"} /\ arg'[w] = arg[w] /\ Busy(w)
<1> USE ThreadFacts DEF TypeOK, ThreadType, GoTo, Call
<1>1. ASSUME NEW t \in Threads, t # w, ServiceStep(t)
      PROVE  pc'[w] = pc[w] /\ arg'[w] = arg[w]
  BY <1>1 DEF ServiceStep, Refresh, Unschedule, Remove, Add
<1>2. ASSUME NEW r \in Requests, Request(r)
      PROVE  pc'[w] = pc[w] /\ arg'[w] = arg[w]
  BY <1>1, <1>2 DEF Request, RequestStep, Create, UpdateFind, Update, DeleteFind,
                    Delete
<1>3. ASSUME NEW v \in Workers, Start(v) \/ Stop(v)
      PROVE  \/ pc'[w] = pc[w] /\ arg'[w] = arg[w]
             \/ pc'[w] \in {"idle", "down"}
  BY <1>3 DEF Start, Stop
<1>4. ASSUME NEW v \in Workers, v # w, Worker(v)
      PROVE  pc'[w] = pc[w] /\ arg'[w] = arg[w]
  BY <1>1, <1>4 DEF Worker, ConsumerStep, Take, Find, Complete, Latest, Ack, Nack
<1>5. ASSUME NEW v \in Workers, Initializer(v)
      PROVE  \/ pc'[w] = pc[w] /\ arg'[w] = arg[w]
             \/ pc'[w] \in {"idle", "down"}
  BY <1>1, <1>3, <1>5 DEF Initializer, BootStep, BootExit, ListRows, ListJobs,
                          VisitRow, VisitOrphan, BootDone
<1>6. ASSUME NEW t \in Threads, CallFails(t) \/ CallFailsLate(t)
      PROVE  \/ pc'[w] = pc[w] /\ arg'[w] = arg[w]
             \/ pc'[w] \in {"readd", "nack"} /\ arg'[w] = arg[w] /\ Busy(w)
  <2>1. pc[t] \in CallPc /\ arg' = arg /\ pc' = [pc EXCEPT ![t] = CallFailedPc(t)]
    BY <1>6 DEF CallFails, CallFailsLate, At, CallPc, ServicePc
  <2>2. CASE t = w
    BY <2>1, <2>2 DEF CallFailedPc, ThrowPc, Busy, CallPc, ServicePc
  <2>3. CASE t # w
    BY <2>1, <2>3
  <2>4. QED
    BY <2>2, <2>3
<1>7. CASE AnyFault
  BY <1>3, <1>6, <1>7 DEF AnyFault, ApiDies, AnswerLost, WorkerDies, LockLost
<1>8. QED
  BY <1>2, <1>3, <1>4, <1>5, <1>7 DEF Next, Restart, Queue, Time

(* The lock a worker holds stays with it until its handler ends or its     *)
(* process dies, or the lock is lost.                                      *)
LEMMA LockFrame ==
    ASSUME TypeOK, Next, NEW w \in Workers, NEW c \in Campaigns,
           jobs[c].lock = w
    PROVE  \/ jobs'[c].lock = w
           \/ pc'[w] \in {"idle", "down"}
           \/ \E d \in Campaigns : LockLost(d)
<1> USE ThreadFacts DEF TypeOK, QueueType
<1>1. Locked(c) /\ HasJob(c) /\ jobs[c].state = "active"
      /\ jobs[c].lock # Orphaned
  BY NamesAssumption DEF Locked, HasJob
<1>2. ASSUME NEW t \in Threads, ServiceStep(t) PROVE jobs'[c].lock = w
  BY <1>1, <1>2 DEF ServiceStep, Refresh, Unschedule, Remove, Add, Removed, Added
<1>3. ASSUME NEW r \in Requests, Request(r) PROVE jobs'[c].lock = w
  BY <1>2, <1>3 DEF Request, RequestStep, Create, UpdateFind, Update, DeleteFind,
                    Delete
<1>4. ASSUME NEW v \in Workers, jobs' = Abandoned(v)
      PROVE  v # w => jobs'[c].lock = w
  BY <1>4 DEF Abandoned
<1>5. ASSUME NEW v \in Workers, Start(v) \/ Stop(v)
      PROVE  jobs'[c].lock = w \/ pc'[w] \in {"idle", "down"}
  BY <1>4, <1>5 DEF Start, Stop, ThreadType
<1>6. ASSUME NEW v \in Workers, Worker(v)
      PROVE  jobs'[c].lock = w \/ pc'[w] \in {"idle", "down"}
  <2>1. CASE Ack(v) \/ Nack(v)
    BY <2>1 DEF Ack, Nack, Finished, Errored, Removed, Call, GoTo, ThreadType
  <2>2. CASE Take(v)
    BY <1>1, <2>2 DEF Take, Claimed
  <2>3. QED
    BY <1>2, <1>6, <2>1, <2>2 DEF Worker, ConsumerStep, Find, Complete, Latest
<1>7. ASSUME NEW v \in Workers, Initializer(v)
      PROVE  jobs'[c].lock = w \/ pc'[w] \in {"idle", "down"}
  BY <1>2, <1>5, <1>7 DEF Initializer, BootStep, BootExit, ListRows, ListJobs,
                          VisitRow, VisitOrphan, BootDone
<1>8. ASSUME NEW d \in Campaigns, Queue(d) PROVE jobs'[c].lock = w
  BY <1>1, <1>8 DEF Queue, Promote, ExpireLock, RecoverStalled
<1>9. ASSUME NEW t \in Threads, CallFails(t) \/ CallFailsLate(t)
      PROVE  jobs'[c].lock = w
  BY <1>1, <1>9 DEF CallFails, CallFailsLate, Removed, Added
<1>10. CASE AnyFault
  <2>1. ASSUME NEW v \in Workers, AnswerLost(v)
        PROVE  jobs'[c].lock = w \/ pc'[w] \in {"idle", "down"}
    BY <1>4, <2>1 DEF AnswerLost, Call, GoTo, ThreadType
  <2>2. QED
    BY <1>5, <1>9, <1>10, <2>1 DEF AnyFault, ApiDies, WorkerDies
<1>11. QED
  BY <1>3, <1>5, <1>6, <1>7, <1>8, <1>10 DEF Next, Restart, Time

----------------------------------------------------------------------------
(* One handler per campaign.                                               *)

(* The strengthening: a handler that runs holds the lock of its job.       *)
LockHeld ==
    faults = 0 \/ "lock" \notin FaultKinds =>
       \A w \in Workers : Busy(w) => jobs[arg[w].id].lock = w

LEMMA LockHeldStep ==
    ASSUME TypeOK, LockHeld, [Next]_vars
    PROVE  LockHeld'
<1> SUFFICES ASSUME faults' = 0 \/ "lock" \notin FaultKinds,
                    NEW w \in Workers, pc'[w] \notin {"down", "idle"}
             PROVE  jobs'[arg'[w].id].lock = w
  BY DEF LockHeld, Busy
<1> USE ThreadFacts
<1>1. CASE UNCHANGED vars
  BY <1>1 DEF vars, LockHeld, Busy
<1>2. CASE Next
  <2>1. /\ faults = 0 \/ "lock" \notin FaultKinds
        /\ \A d \in Campaigns : ~LockLost(d)
    <3>1. faults \in Nat
      BY ConstantsAssumption DEF TypeOK
    <3>2. faults' = faults \/ faults' = faults + 1
      BY <1>2 DEF Next, Request, Worker, Initializer, Restart, Queue, Time,
                  AnyFault, CallFails, CallFailsLate, ApiDies, AnswerLost,
                  WorkerDies, LockLost, Fault
    <3>3. ASSUME NEW d \in Campaigns, LockLost(d)
          PROVE  "lock" \in FaultKinds /\ faults' = faults + 1
      BY <3>3 DEF LockLost, Fault
    <3>4. QED
      BY <3>1, <3>2, <3>3
  <2>2. pc'[w] \notin {"idle", "down"}
    BY DEF Busy
  <2>3. ASSUME Busy(w), arg'[w].id = arg[w].id PROVE jobs'[arg'[w].id].lock = w
    <3>1. arg[w].id \in Campaigns
      BY DEF TypeOK, ThreadType, Patch
    <3>2. jobs[arg[w].id].lock = w
      BY <2>1, <2>3 DEF LockHeld
    <3>3. QED
      BY <1>2, <2>1, <2>2, <2>3, <3>1, <3>2, LockFrame
  <2>4. CASE ~Worker(w)
    BY <1>2, <2>2, <2>3, <2>4, WorkerFrame DEF Busy
  <2>5. CASE Worker(w)
    <3> USE DEF TypeOK, ThreadType, GoTo, Call
    <3>1. CASE Take(w)
      BY <3>1 DEF Take, Claimed, QueueType, Job
    <3>2. CASE Find(w) \/ Latest(w)
      BY <2>3, <3>2 DEF Find, Latest, TargetOf, Busy, At
    <3>3. CASE Complete(w)
      BY <2>3, <3>3 DEF Complete, Busy, At
    <3>4. CASE Ack(w) \/ Nack(w)
      BY <2>2, <3>4 DEF Ack, Nack
    <3>5. CASE ServiceStep(w)
      BY <2>3, <3>5 DEF ServiceStep, Refresh, Unschedule, Remove, Add, At, Busy
    <3>6. QED
      BY <2>5, <3>1, <3>2, <3>3, <3>4, <3>5 DEF Worker, ConsumerStep
  <2>6. QED
    BY <2>4, <2>5
<1>3. QED
  BY <1>1, <1>2

(* Two handlers never work for the same campaign, for any number of        *)
(* requests, initializers and workers that remove jobs and add them again  *)
(* under the same id, and for every fault but the loss of a lock.          *)
THEOREM OneHandler ==
    Spec \/ SpecUp \/ SpecDown => []OneHandlerPerCampaign
<1>1. Init \/ InitUp \/ InitDown => LockHeld
  BY ThreadFacts DEF Init, InitUp, InitDown, InitThreads, LockHeld, Busy
<1>2. TypeOK /\ LockHeld /\ [Next]_vars => LockHeld'
  BY LockHeldStep
<1>3. LockHeld => OneHandlerPerCampaign
  BY DEF LockHeld, OneHandlerPerCampaign
<1>4. QED
  BY <1>1, <1>2, <1>3, TypeCorrect, PTL DEF Spec, SpecUp, SpecDown

----------------------------------------------------------------------------
(* The detailed specification implements CampaignLifecycle.                *)

(* The strengthening: a handler about to complete a campaign has seen its  *)
(* job's end date go by.                                                   *)
HandlerDue ==
    \A w \in Workers :
       pc[w] = "complete" => arg[w].end \in Date /\ arg[w].end <= now

LEMMA HandlerDueStep ==
    ASSUME TypeOK, HandlerDue, [Next]_vars
    PROVE  HandlerDue'
<1> SUFFICES ASSUME NEW w \in Workers, pc'[w] = "complete"
             PROVE  arg'[w].end \in Date /\ arg'[w].end <= now'
  BY DEF HandlerDue
<1> USE ThreadFacts DEF At
<1>1. now \in Nat /\ now' \in Nat /\ now <= now'
  <2>1. now' = now \/ now' = now + 1
    BY DEF Next, Request, Worker, Initializer, Restart, Queue, Time, Tick, vars,
           AnyFault, CallFails, CallFailsLate, ApiDies, AnswerLost, WorkerDies,
           LockLost
  <2>2. QED
    BY <2>1 DEF TypeOK, QueueType, Date
<1>2. ASSUME pc[w] = "complete", arg'[w] = arg[w]
      PROVE  arg'[w].end \in Date /\ arg'[w].end <= now'
  BY <1>1, <1>2 DEF HandlerDue, Date
<1>3. CASE UNCHANGED vars
  BY <1>2, <1>3 DEF vars
<1>4. CASE Next /\ ~Worker(w)
  BY <1>2, <1>4, WorkerFrame
<1>5. CASE Worker(w)
  <2> USE DEF TypeOK, ThreadType, GoTo, Call
  <2>1. CASE Find(w)
    <3>1. PICK clock \in Date :
             /\ clock <= now
             /\ Exists(arg[w].id) /\ Schedulable(db[arg[w].id])
             /\ db[arg[w].id].end = arg[w].end /\ db[arg[w].id].end <= clock
             /\ arg' = [arg EXCEPT ![w] = arg[w]]
      BY <2>1 DEF Find
    <3>2. arg[w].id \in Campaigns /\ arg'[w] = arg[w]
      BY <3>1 DEF Patch
    <3>3. db[arg[w].id] \in Row /\ db[arg[w].id].end # NoEnd
      BY <3>1, <3>2, RowFacts DEF Schedulable
    <3>4. arg[w].end \in Date
      BY <3>1, <3>3 DEF Row
    <3>5. QED
      BY <1>1, <3>1, <3>2, <3>4 DEF Date
  <2>2. CASE ServiceStep(w)
    BY <2>2 DEF ServiceStep, Refresh, Unschedule, Remove, Add, UnscheduledPc,
                ReturnPc, ThrowPc
  <2>3. CASE Take(w) \/ Complete(w) \/ Latest(w) \/ Ack(w) \/ Nack(w)
    BY <2>3 DEF Take, Complete, Latest, Ack, Nack, RefreshPc
  <2>4. QED
    BY <1>5, <2>1, <2>2, <2>3 DEF Worker, ConsumerStep
<1>6. QED
  BY <1>3, <1>4, <1>5
LEMMA LifecycleInit == Init \/ InitUp \/ InitDown => Lifecycle!Init
BY DEF Init, InitUp, InitDown, InitInStep, InitThreads, Lifecycle!Init,
       Row, Fresh, Gone, Date,
       Lifecycle!Row, Lifecycle!Fresh, Lifecycle!Gone, Lifecycle!Date

(* A row stored for a client is a Write.                                   *)
LEMMA StoreIsWrite ==
    ASSUME NEW c \in Campaigns, NEW row \in Row \union {Gone},
           Store(c, row), now' = now,
           (db[c] = Fresh /\ row \in Row) \/ Exists(c)
    PROVE  Lifecycle!Next
<1>1. Lifecycle!Write(c, row)
  BY DEF Store, Lifecycle!Write, Exists, Lifecycle!Exists, Row, Fresh, Gone, Date,
         Lifecycle!Row, Lifecycle!Fresh, Lifecycle!Gone, Lifecycle!Date
<1>2. row \in Lifecycle!Row \union {Lifecycle!Gone}
  BY DEF Row, Gone, Date, Lifecycle!Row, Lifecycle!Gone, Lifecycle!Date
<1>3. QED
  BY <1>1, <1>2 DEF Lifecycle!Next

(* The consumer's updateMany, when it finds its row, is an Expire: the end *)
(* date of the row is the job's, which the handler has compared with the   *)
(* clock.                                                                  *)
LEMMA CompleteIsExpire ==
    ASSUME TypeOK, HandlerDue, NEW w \in Workers, pc[w] = "complete",
           StillScheduled(w), CompleteWrite(w), now' = now
    PROVE  Lifecycle!Next
<1> DEFINE c == arg[w].id
<1>1. c \in Campaigns
  BY ThreadFacts DEF TypeOK, ThreadType, Patch
<1>2. Open(c) /\ db[c].end \in Date /\ db[c].end <= now
  BY DEF StillScheduled, HandlerDue
<1>3. Lifecycle!Expire(c)
  BY <1>2 DEF Open, Date, CompleteWrite, Lifecycle!Expire, Lifecycle!Due,
              Lifecycle!Open, Lifecycle!Date
<1>4. QED
  BY <1>1, <1>3 DEF Lifecycle!Next

LEMMA RequestImplements ==
    ASSUME TypeOK, NEW r \in Requests, Request(r)
    PROVE  Lifecycle!Next \/ UNCHANGED <<db, now, auto>>
<1>1. now' = now /\ RequestStep(r) /\ arg[r] \in Patch /\ arg[r].id \in Campaigns
  BY ThreadFacts DEF Request, TypeOK, ThreadType, Patch
<1>2. CASE Create(r)
  BY <1>1, <1>2, StoreIsWrite DEF Create
<1>3. CASE Update(r)
  <2>1. Exists(arg[r].id) => Patched(db[arg[r].id], arg[r]) \in Row
    BY <1>1, PatchFacts, RowFacts DEF TypeOK
  <2>2. QED
    BY <1>1, <1>3, <2>1, StoreIsWrite DEF Update
<1>4. CASE Delete(r)
  BY <1>1, <1>4, StoreIsWrite DEF Delete
<1>5. QED
  BY <1>1, <1>2, <1>3, <1>4 DEF RequestStep, UpdateFind, DeleteFind

LEMMA WorkerImplements ==
    ASSUME TypeOK, HandlerDue, NEW w \in Workers,
           Worker(w) \/ Initializer(w) \/ Restart(w)
    PROVE  Lifecycle!Next \/ UNCHANGED <<db, now, auto>>
<1>1. CASE Worker(w)
  <2>1. now' = now /\ ConsumerStep(w)
    BY <1>1 DEF Worker
  <2>2. CASE Complete(w)
    BY <2>1, <2>2, CompleteIsExpire DEF Complete, At
  <2>3. QED
    BY <2>1, <2>2 DEF ConsumerStep, Take, Find, Latest, Ack, Nack
<1>2. CASE Initializer(w) \/ Restart(w)
  BY <1>2 DEF Initializer, Restart, BootExit, Stop, Start
<1>3. QED
  BY <1>1, <1>2

LEMMA FaultImplements ==
    ASSUME TypeOK, HandlerDue, AnyFault
    PROVE  Lifecycle!Next \/ UNCHANGED <<db, now, auto>>
<1>1. ASSUME NEW t \in Threads, CallFailsLate(t)
      PROVE  Lifecycle!Next \/ UNCHANGED <<db, now, auto>>
  <2> DEFINE c == arg[t].id
  <2>1. now' = now /\ arg[t] \in Patch /\ c \in Campaigns
    BY <1>1 DEF CallFailsLate, TypeOK, ThreadType, Patch
  <2>2. Exists(c) => Patched(db[c], arg[t]) \in Row
    BY <2>1, PatchFacts, RowFacts DEF TypeOK
  <2>3. CASE Exists(c) /\ (Store(c, Gone) \/ Store(c, Patched(db[c], arg[t])))
    BY <2>1, <2>2, <2>3, StoreIsWrite
  <2>4. CASE At(t, "complete") /\ StillScheduled(t) /\ CompleteWrite(t)
    <3>1. t \in Workers
      BY <2>4 DEF TypeOK, ThreadType, PcOf, At, RequestPc, BootPc, ServicePc, Answered
    <3>2. QED
      BY <2>1, <2>4, <3>1, CompleteIsExpire DEF At
  <2>5. QED
    BY <1>1, <2>1, <2>3, <2>4 DEF CallFailsLate
<1>2. QED
  BY <1>1 DEF AnyFault, CallFails, ApiDies, AnswerLost, WorkerDies, Stop, LockLost

(* Every step of the detailed specification is a step of the abstract one, *)
(* or leaves the table, the clock and the ghost alone.                     *)
LEMMA StepImplements ==
    ASSUME TypeOK, HandlerDue, [Next]_vars
    PROVE  [Lifecycle!Next]_(Lifecycle!lifecycleVars)
<1>1. CASE Time
  <2>1. Lifecycle!Tick
    BY <1>1 DEF Time, Tick, Lifecycle!Tick
  <2>2. QED
    BY <2>1 DEF Lifecycle!Next
<1>2. ASSUME NEW c \in Campaigns, Queue(c)
      PROVE  UNCHANGED <<db, now, auto>>
  BY <1>2 DEF Queue
<1>3. QED
  BY <1>1, <1>2, RequestImplements, WorkerImplements, FaultImplements
     DEF Next, vars, Lifecycle!lifecycleVars

(* The API, the queue and the workers together implement CampaignLifecycle *)
(* from every initial state and under every fault: on its own account the  *)
(* system only ever completes a campaign that is open and due.             *)
THEOREM Refinement ==
    Spec \/ SpecUp \/ SpecDown => CompletesOnlyWhenDue
<1>1. Init \/ InitUp \/ InitDown => Lifecycle!Init /\ HandlerDue
  BY LifecycleInit, ThreadFacts DEF Init, InitUp, InitDown, InitThreads, HandlerDue
<1>2. TypeOK /\ HandlerDue /\ [Next]_vars => HandlerDue'
  BY HandlerDueStep
<1>3. TypeOK /\ HandlerDue /\ [Next]_vars
         => [Lifecycle!Next]_(Lifecycle!lifecycleVars)
  BY StepImplements
<1>4. QED
  BY <1>1, <1>2, <1>3, TypeCorrect, PTL
     DEF Spec, SpecUp, SpecDown, CompletesOnlyWhenDue, Lifecycle!Spec
=============================================================================
