------------------------- MODULE BootRepairProofs -------------------------
(***************************************************************************)
(* Proof that a worker which has finished its initializer has repaired     *)
(* every schedule, for any number of campaigns, of workers that are        *)
(* started one after the other, and of processes that die on the way.      *)
(***************************************************************************)
EXTENDS CampaignExpirationProofs

(* Nobody but one worker process is about: its job handler and its         *)
(* initializer, side by side.                                              *)
Alone ==
    /\ \A r \in Requests : pc[r] \in Answered
    /\ \A v, w \in Workers : Up(v) /\ Up(w) => v = w

(* The job a campaign asks for, where it will not get lost: its lock, if   *)
(* it has one, is not a dead worker's.                                     *)
Right(c) ==
    /\ Live(c) /\ jobs[c].end = db[c].end
    /\ jobs[c].state = "active" => jobs[c].lock \in Workers

(* The job handler holds the lock of its job and no other.  It completes   *)
(* what it should and removes the job, or throws: when the campaign is     *)
(* completed and only the answer was lost, or because the date of the job  *)
(* is not the row's.  The job whose attempts it uses up is not wanted.     *)
HoldsLock(w) ==
    \A c \in Campaigns : jobs[c].lock = w <=> Busy(w) /\ c = arg[w].id

HandlerInv(w) ==
    LET c == arg[w].id IN
    /\ HoldsLock(w)
    /\ pc[w] \notin {"latest", "add", "readd"}
    /\ pc[w] = "find" => arg[w].end = jobs[c].end
    /\ pc[w] = "complete" => StillScheduled(w)
    /\ pc[w] \in {"refresh", "unsched", "remove"} => arg[w] = TargetOf(c)
    /\ pc[w] \in {"refresh", "unsched", "remove"} => jobs[c].end # db[c].end
    /\ pc[w] = "nack" => ~Wanted(c) \/ jobs[c].end # db[c].end
    /\ pc[w] = "ack" => ~Wanted(c)

(* A row read earlier says what the table says, if it still asks for       *)
(* anything.                                                               *)
UpToDate(row) == Wanted(row.id) => row = TargetOf(row.id)

ServiceInv(w) ==
    LET b == Boot(w) IN
    /\ pc[b] # "refresh"
    /\ pc[b] \in ServicePc => UpToDate(arg[b])
    /\ pc[b] = "add" => ~HasJob(arg[b].id)
    /\ pc[b] = "readd" /\ Wanted(arg[b].id) => Right(arg[b].id)

InLoop(w) == pc[Boot(w)] \in ServicePc \union {"loop"}

RowsInv(w) ==
    /\ InLoop(w) \/ At(Boot(w), "jobs") =>
          \A row \in bootRows[w] : UpToDate(row)
    /\ At(Boot(w), "jobs") =>
          \A c \in Campaigns : Wanted(c) => TargetOf(c) \in bootRows[w]
    /\ InLoop(w) =>
          \A j \in bootJobs[w] : Wanted(j.id) => TargetOf(j.id) \in bootRows[w]

(* What is left to do: a wanted campaign has its row yet to come, and a    *)
(* listed job for its date is still right; or it is being scheduled; or it *)
(* has its job.                                                            *)
Todo(w, c) ==
    \/ /\ TargetOf(c) \in bootRows[w]
       /\ \A j \in bootJobs[w] : j.id = c /\ j.end = db[c].end => Right(c)
    \/ pc[Boot(w)] \in {"unsched", "remove", "add"} /\ arg[Boot(w)] = TargetOf(c)
    \/ Right(c)

BootInv(w) ==
    /\ ServiceInv(w) /\ RowsInv(w)
    /\ InLoop(w) => \A c \in Campaigns : Wanted(c) => Todo(w, c)

(* The initializer lives as long as the process; a job that may run is due. *)
ProcessInv ==
    /\ \A w \in Workers : Up(w) <=> pc[Boot(w)] # "off"
    /\ \A c \in Campaigns :
          jobs[c].state \in {"waiting", "active"} => jobs[c].end <= now

AloneInv == ProcessInv /\ \A w \in Workers : HandlerInv(w) /\ BootInv(w)

(* The faults and the clocks the theorem is about: processes die and       *)
(* answers are lost, but a call that is made is carried out, no lock is    *)
(* lost and no clock is behind.                                            *)
CallsDone == FaultKinds \subseteq {"kill", "late"} /\ ClockSkew = 0

----------------------------------------------------------------------------
(* Which steps there are.                                                  *)

BootMoves(w) ==
    /\ \/ BootStep(w)
       \/ ServiceStep(Boot(w)) /\ UNCHANGED bootVars
       \/ CallFailsLate(Boot(w))
    /\ UNCHANGED <<now, db, auto>>
HandlerMoves(w) == Worker(w) \/ CallFailsLate(w) \/ AnswerLost(w)
Goes(w) == Stop(w) /\ now' = now /\ (Up(w) \/ At(Boot(w), "exit"))

(* No request runs, and of the faults only those of a worker are left.     *)
LEMMA AloneSteps ==
    ASSUME TypeOK, Alone, Alone', CallsDone, [Next]_vars
    PROVE  \/ /\ UNCHANGED <<jobs, db, pc, arg, bootRows, bootJobs>>
              /\ now' \in {now, now + 1}
           \/ \E c \in Campaigns : Queue(c)
           \/ \E w \in Workers : \/ HandlerMoves(w) \/ BootMoves(w)
                                 \/ Start(w) /\ now' = now
                                 \/ Goes(w)
<1> USE ThreadFacts DEF TypeOK, ThreadType
<1>1. \A r \in Requests : pc[r] \in Answered /\ pc'[r] \in Answered
  BY DEF Alone
<1>2. ASSUME NEW r \in Requests PROVE ~Request(r)
  <2>1. ~Create(r)
    <3>1. ASSUME NEW row PROVE RefreshPc(row) \notin Answered
      BY DEF RefreshPc, Answered
    <3>2. QED
      BY <1>1, <3>1 DEF Create, Call, GoTo
  <2>2. ~UpdateFind(r) /\ ~DeleteFind(r)
    BY <1>1 DEF UpdateFind, DeleteFind, Call, GoTo, Answered
  <2>3. ~Update(r) /\ ~Delete(r) /\ ~ServiceStep(r)
    BY <1>1 DEF Update, Delete, ServiceStep, Refresh, Unschedule, Remove, Add,
                At, Answered
  <2>4. QED
    BY <2>1, <2>2, <2>3 DEF Request, RequestStep
<1>3. ASSUME NEW t \in Threads, CallFailsLate(t)
      PROVE  \E w \in Workers : HandlerMoves(w) \/ BootMoves(w)
  <2>1. t \notin Requests
    BY <1>1, <1>3 DEF CallFailsLate, At, Answered
  <2>2. CASE t \in Workers
    BY <1>3, <2>2 DEF HandlerMoves
  <2>3. CASE t \notin Workers
    <3>1. PICK w \in Workers : t = Boot(w)
      BY <2>1, <2>3 DEF Threads, Boots
    <3>2. pc[t] \in BootPc
      BY <2>1, <2>3 DEF PcOf
    <3>3. UNCHANGED <<now, db, auto>>
      BY <1>3, <3>2 DEF CallFailsLate, At, BootPc, ServicePc
    <3>4. QED
      BY <1>3, <3>1, <3>3 DEF BootMoves
  <2>4. QED
    BY <2>2, <2>3
<1>4. ASSUME AnyFault
      PROVE  \E w \in Workers : HandlerMoves(w) \/ BootMoves(w) \/ Goes(w)
  <2>1. \A t \in Threads : ~CallFails(t)
    BY DEF CallFails, Fault, CallsDone
  <2>2. \A c \in Campaigns : ~LockLost(c)
    BY DEF LockLost, Fault, CallsDone
  <2>3. \A r \in Requests : ~ApiDies(r)
    BY <1>1 DEF ApiDies
  <2>4. QED
    BY <1>3, <1>4, <2>1, <2>2, <2>3
       DEF AnyFault, WorkerDies, HandlerMoves, Goes
<1>5. ASSUME NEW w \in Workers, Initializer(w)
      PROVE  BootMoves(w) \/ Goes(w)
  BY <1>5 DEF Initializer, BootMoves, BootExit, Goes
<1>6. CASE Time \/ UNCHANGED vars
  BY <1>6 DEF Time, Tick, vars, bootVars
<1>7. QED
  BY <1>2, <1>4, <1>5, <1>6 DEF Next, Restart, HandlerMoves

(* A worker that is down, or has just come up, has nothing to keep but the *)
(* locks it does not hold.                                                 *)
LEMMA IdleInv ==
    ASSUME NEW w \in Workers, pc[w] \in {"down", "idle"},
           pc[Boot(w)] \in {"off", "list", "done"},
           \A c \in Campaigns : jobs[c].lock # w
    PROVE  HandlerInv(w) /\ BootInv(w)
BY DEF Busy, HandlerInv, HoldsLock, BootInv, ServiceInv, RowsInv, InLoop, At,
       ServicePc

(* The service in the initializer of a worker moves within the initializer. *)
LEMMA BootPcs ==
    ASSUME TypeOK, NEW w \in Workers, BootMoves(w)
    PROVE  /\ pc[Boot(w)] # "off" /\ pc'[Boot(w)] # "off"
           /\ \A t \in Threads : t # Boot(w) => pc'[t] = pc[t] /\ arg'[t] = arg[t]
<1> USE ThreadFacts DEF TypeOK, ThreadType, GoTo, Call, At
<1>1. CASE BootStep(w)
  BY <1>1 DEF BootStep, ListRows, ListJobs, VisitRow, VisitOrphan, BootDone
<1>2. CASE ServiceStep(Boot(w))
  BY <1>2 DEF ServiceStep, Refresh, Unschedule, Remove, Add, UnscheduledPc,
              ReturnPc, ThrowPc
<1>3. CASE CallFailsLate(Boot(w))
  BY <1>3 DEF CallFailsLate, CallFailedPc, ThrowPc
<1>4. QED
  BY <1>1, <1>2, <1>3 DEF BootMoves

LEMMA HandlerPcs ==
    ASSUME TypeOK, NEW w \in Workers, HandlerMoves(w)
    PROVE  /\ Up(w) /\ pc'[w] # "down"
           /\ \A t \in Threads : t # w => pc'[t] = pc[t] /\ arg'[t] = arg[t]
<1> USE ThreadFacts DEF TypeOK, ThreadType, GoTo, Call, At, Up
<1>1. CASE ServiceStep(w)
  BY <1>1 DEF ServiceStep, Refresh, Unschedule, Remove, Add, UnscheduledPc,
              ReturnPc, ThrowPc
<1>2. CASE Worker(w) /\ ~ServiceStep(w)
  BY <1>2 DEF Worker, ConsumerStep, Take, Find, Complete, Latest, Ack, Nack,
              RefreshPc
<1>3. CASE CallFailsLate(w) \/ AnswerLost(w)
  BY <1>3 DEF CallFailsLate, AnswerLost, CallFailedPc, ThrowPc
<1>4. QED
  BY <1>1, <1>2, <1>3 DEF HandlerMoves

(* A worker that stays up is the only one that moves.                      *)
LEMMA UpSteps ==
    ASSUME TypeOK, ProcessInv, Alone, Alone', CallsDone, [Next]_vars,
           NEW w \in Workers, Up(w), Up(w)'
    PROVE  \/ UNCHANGED <<jobs, db, pc, arg, bootRows, bootJobs>>
           \/ \E c \in Campaigns : Queue(c)
           \/ HandlerMoves(w)
           \/ BootMoves(w)
<1> USE ThreadFacts DEF TypeOK, ThreadType
<1>1. ASSUME NEW v \in Workers, Start(v) PROVE FALSE
  <2>1. v # w /\ Up(v)'
    BY <1>1 DEF Start, Up
  <2>2. QED
    BY <2>1 DEF Alone
<1>2. ASSUME NEW v \in Workers, Goes(v) PROVE FALSE
  <2>1. Up(v)
    BY <1>2 DEF ProcessInv, At, Goes
  <2>2. v = w
    BY <2>1 DEF Alone
  <2>3. QED
    BY <1>2, <2>2 DEF Goes, Stop, Up
<1>3. ASSUME NEW v \in Workers, HandlerMoves(v) \/ BootMoves(v) PROVE v = w
  <2>1. Up(v)
    BY <1>3, BootPcs, HandlerPcs DEF ProcessInv
  <2>2. QED
    BY <2>1 DEF Alone
<1>4. QED
  BY <1>1, <1>2, <1>3, AloneSteps

----------------------------------------------------------------------------
(* The process.                                                            *)

LEMMA ProcessStep ==
    ASSUME TypeOK, ProcessInv, Alone, Alone', CallsDone, [Next]_vars
    PROVE  \A w \in Workers : Up(w)' <=> pc'[Boot(w)] # "off"
<1> SUFFICES ASSUME NEW w \in Workers
             PROVE  Up(w)' <=> pc'[Boot(w)] # "off"
  OBVIOUS
<1> USE ThreadFacts DEF TypeOK, ThreadType, ProcessInv, Up
<1>1. CASE pc' = pc
  BY <1>1
<1>2. ASSUME NEW v \in Workers, Start(v) PROVE Up(w)' <=> pc'[Boot(w)] # "off"
  BY <1>2 DEF Start
<1>3. ASSUME NEW v \in Workers, Goes(v) PROVE Up(w)' <=> pc'[Boot(w)] # "off"
  BY <1>3 DEF Goes, Stop
<1>4. ASSUME NEW v \in Workers, HandlerMoves(v)
      PROVE  Up(w)' <=> pc'[Boot(w)] # "off"
  BY <1>4, HandlerPcs
<1>5. ASSUME NEW v \in Workers, BootMoves(v)
      PROVE  Up(w)' <=> pc'[Boot(w)] # "off"
  BY <1>5, BootPcs
<1>6. QED
  BY <1>1, <1>2, <1>3, <1>4, <1>5, AloneSteps DEF Queue

(* A job that may run is due: it became so when its delay was over.        *)
LEMMA DueStep ==
    ASSUME TypeOK, ProcessInv, Alone, Alone', CallsDone, [Next]_vars,
           NEW c \in Campaigns, jobs'[c].state \in {"waiting", "active"}
    PROVE  jobs'[c].end <= now'
<1> USE DEF TypeOK, QueueType, ProcessInv
<1>1. /\ now \in Nat /\ now' \in {now, now + 1}
      /\ jobs[c] \in Job /\ jobs[c].end \in Nat
  <2>1. now' \in {now, now + 1}
    BY AloneSteps DEF Queue, HandlerMoves, Worker, CallFailsLate, AnswerLost,
                      BootMoves, Goes
  <2>2. QED
    BY <2>1 DEF Date, Job
<1>2. ASSUME jobs'[c].end = jobs[c].end, jobs[c].state \in {"waiting", "active"}
      PROVE  jobs'[c].end <= now'
  BY <1>1, <1>2
<1>3. CASE jobs' = jobs
  BY <1>2, <1>3
<1>4. ASSUME NEW d, jobs' = Removed(d) PROVE jobs'[c].end <= now'
  BY <1>2, <1>4 DEF Removed, NoJob
<1>5. ASSUME NEW d, NEW end, jobs' = Added(d, end), now' = now
      PROVE  jobs'[c].end <= now'
  BY <1>1, <1>2, <1>5 DEF Added, NewJob
<1>6. ASSUME NEW t, ServiceStep(t), now' = now PROVE jobs'[c].end <= now'
  BY <1>3, <1>4, <1>5, <1>6 DEF ServiceStep, Refresh, Unschedule, Remove, Add
<1>7. ASSUME NEW w \in Workers, jobs' = Abandoned(w) PROVE jobs'[c].end <= now'
  BY <1>1, <1>2, <1>7 DEF Abandoned, Job
<1>8. ASSUME NEW w \in Workers, Worker(w) PROVE jobs'[c].end <= now'
  <2>1. CASE Take(w)
    BY <1>1, <1>2, <2>1 DEF Take, Claimed, Job
  <2>2. CASE Ack(w) \/ Nack(w)
    <3>1. CASE jobs' = Finished(arg[w].id, w)
      BY <1>3, <1>4, <3>1 DEF Finished
    <3>2. CASE jobs' = Errored(arg[w].id, w)
      <4>1. CASE arg[w].id = c /\ jobs[c].lock = w
        <5>1. jobs'[c].state \in {"delayed", "failed"}
          BY <1>1, <3>2, <4>1 DEF Errored, Job
        <5>2. QED
          BY <5>1
      <4>2. CASE ~(arg[w].id = c /\ jobs[c].lock = w)
        BY <1>2, <3>2, <4>2 DEF Errored
      <4>3. QED
        BY <4>1, <4>2
    <3>3. QED
      BY <2>2, <3>1, <3>2 DEF Ack, Nack
  <2>3. QED
    BY <1>3, <1>6, <1>8, <2>1, <2>2 DEF Worker, ConsumerStep, Find, Complete, Latest
<1>9. ASSUME NEW t, CallFailsLate(t) PROVE jobs'[c].end <= now'
  BY <1>3, <1>4, <1>5, <1>9 DEF CallFailsLate
<1>10. ASSUME NEW d \in Campaigns, Queue(d) PROVE jobs'[c].end <= now'
  <2>1. CASE d # c
    BY <1>2, <1>10, <2>1 DEF Queue, Promote, ExpireLock, RecoverStalled
  <2>2. CASE Promote(c)
    BY <1>1, <1>10, <2>2 DEF Queue, Promote, Job
  <2>3. CASE ExpireLock(c)
    <3>1. jobs'[c].end = jobs[c].end /\ jobs'[c].state = jobs[c].state
      BY <1>1, <2>3 DEF ExpireLock, Job
    <3>2. QED
      BY <1>2, <3>1
  <2>4. CASE RecoverStalled(c)
    <3>1. jobs'[c].end = jobs[c].end /\ jobs[c].state = "active"
      BY <1>1, <2>4 DEF RecoverStalled, Job
    <3>2. QED
      BY <1>2, <3>1
  <2>5. QED
    BY <1>10, <2>1, <2>2, <2>3, <2>4 DEF Queue
<1>11. ASSUME NEW w \in Workers, BootMoves(w) PROVE jobs'[c].end <= now'
  BY <1>3, <1>6, <1>9, <1>11 DEF BootMoves, BootStep, ListRows, ListJobs, VisitRow,
                           VisitOrphan, BootDone
<1>12. QED
  BY <1>3, <1>7, <1>8, <1>9, <1>10, <1>11, AloneSteps
     DEF Start, Goes, Stop, HandlerMoves, AnswerLost

----------------------------------------------------------------------------
(* What the initializer relies on stays true while others move.            *)

TableKept(c) ==
    Wanted(c)' => Wanted(c) /\ db'[c] = db[c] /\ TargetOf(c)' = TargetOf(c)
JobKept(c) == (HasJob(c)' => HasJob(c)) /\ (Wanted(c)' /\ Right(c) => Right(c)')

LEMMA BootFrame ==
    ASSUME TypeOK, NEW w \in Workers, BootInv(w),
           pc'[Boot(w)] = pc[Boot(w)], arg'[Boot(w)] = arg[Boot(w)],
           UNCHANGED bootVars,
           \A c \in Campaigns : TableKept(c) /\ JobKept(c)
    PROVE  BootInv(w)'
<1> DEFINE b == Boot(w)
<1> USE DEF TableKept, JobKept, bootVars
<1>1. /\ b \in Threads /\ arg[b].id \in Campaigns
      /\ \A row \in bootRows[w] : row.id \in Campaigns
      /\ \A j \in bootJobs[w] : j.id \in Campaigns
  BY ThreadFacts DEF TypeOK, ThreadType, BootType, Patch, Target
<1>2. \A row : row.id \in Campaigns /\ UpToDate(row) => UpToDate(row)'
  BY DEF UpToDate
<1>3. ServiceInv(w)'
  BY <1>1, <1>2 DEF BootInv, ServiceInv
<1>4. RowsInv(w)'
  BY <1>1, <1>2 DEF BootInv, RowsInv, InLoop, At
<1>5. ASSUME NEW c \in Campaigns, InLoop(w)', Wanted(c)' PROVE Todo(w, c)'
  BY <1>5 DEF BootInv, InLoop, Todo
<1>6. QED
  BY <1>3, <1>4, <1>5 DEF BootInv

LEMMA HandlerTable ==
    ASSUME TypeOK, NEW w \in Workers, HandlerMoves(w), NEW c \in Campaigns
    PROVE  TableKept(c)
<1>1. CASE db' = db
  BY <1>1 DEF TableKept, Wanted, Open, TargetOf
<1>2. CASE CompleteWrite(w)
  <2>1. CASE c = arg[w].id
    BY <1>2, <2>1 DEF CompleteWrite, TableKept, Wanted, Open, TypeOK, TableType,
                      Row, Fresh, Gone
  <2>2. CASE c # arg[w].id
    BY <1>2, <2>2 DEF CompleteWrite, TableKept, Wanted, Open, TargetOf, TypeOK,
                      TableType
  <2>3. QED
    BY <2>1, <2>2
<1>3. CASE Worker(w)
  BY <1>1, <1>2, <1>3
     DEF Worker, ConsumerStep, Take, Find, Complete, Latest, Ack, Nack
<1>4. CASE CallFailsLate(w)
  <2>1. pc[w] \in WorkerPc
    BY ThreadFacts DEF TypeOK, ThreadType, PcOf
  <2>2. QED
    BY <1>1, <1>2, <1>4, <2>1 DEF CallFailsLate, At, WorkerPc, ServicePc
<1>5. QED
  BY <1>1, <1>3, <1>4 DEF HandlerMoves, AnswerLost

(* The handler removes its job, or uses up its attempts, only when it is   *)
(* not the job that is wanted.                                             *)
LEMMA HandlerJobs ==
    ASSUME TypeOK, NEW w \in Workers, HandlerInv(w), HandlerMoves(w),
           NEW c \in Campaigns
    PROVE  JobKept(c)
<1> DEFINE d == arg[w].id
<1> USE DEF TypeOK, QueueType
<1>1. d \in Campaigns /\ TableKept(c)
  BY ThreadFacts, HandlerTable DEF ThreadType, Patch
<1>2. CASE jobs'[c] = jobs[c]
  BY <1>1, <1>2 DEF JobKept, TableKept, HasJob, Right, Live
<1>3. CASE Take(w)
  <2>1. PICK e \in Campaigns : jobs[e].state = "waiting" /\ jobs' = Claimed(e, w)
    BY <1>3 DEF Take
  <2>2. CASE c = e
    <3>1. /\ jobs'[c].state = "active" /\ jobs'[c].lock = w
          /\ jobs'[c].end = jobs[c].end
      BY <2>1, <2>2 DEF Claimed, Job
    <3>2. QED
      BY <1>1, <2>1, <2>2, <3>1 DEF JobKept, TableKept, HasJob, Right, Live
  <2>3. QED
    BY <1>2, <2>1, <2>2 DEF Claimed
<1>4. CASE Ack(w)
  <2>1. ~Wanted(d) /\ db' = db
    BY <1>4 DEF HandlerInv, Ack, At
  <2>2. CASE c = d
    <3>1. ~Wanted(c)'
      BY <2>1, <2>2 DEF Wanted, Open
    <3>2. HasJob(c)' => HasJob(c)
      BY <1>1, <1>4, <2>2 DEF Ack, Finished, Removed, NoJob, HasJob
    <3>3. QED
      BY <3>1, <3>2 DEF JobKept
  <2>3. QED
    BY <1>2, <1>4, <2>2 DEF Ack, Finished, Removed
<1>5. CASE Nack(w)
  <2>1. /\ ~Wanted(d) \/ jobs[d].end # db[d].end
        /\ jobs[d].lock = w /\ db' = db
    BY <1>1, <1>5 DEF HandlerInv, HoldsLock, Nack, At, Busy
  <2>2. CASE c = d
    <3>1. ~Wanted(c)' \/ ~Right(c)
      BY <2>1, <2>2 DEF Right, Wanted, Open
    <3>2. HasJob(c)
      BY <2>1, <2>2, NamesAssumption DEF HasJob, Locked
    <3>3. QED
      BY <3>1, <3>2 DEF JobKept
  <2>3. QED
    BY <1>2, <1>5, <2>2 DEF Nack, Errored
<1>6. CASE ServiceStep(w) \/ CallFailsLate(w)
  <2>1. pc[w] \in ServicePc => Locked(d)
    BY <1>1, NamesAssumption DEF HandlerInv, HoldsLock, Busy, Locked, ServicePc
  <2>2. jobs' = jobs
    BY <1>6, <2>1
       DEF ServiceStep, Refresh, Unschedule, Remove, Add, CallFailsLate,
           HandlerInv, At, ServicePc
  <2>3. QED
    BY <1>2, <2>2
<1>7. CASE AnswerLost(w)
  <2>1. /\ pc[w] \in {"ack", "nack"} /\ jobs' = Abandoned(w) /\ db' = db
        /\ ~Wanted(d) \/ jobs[d].end # db[d].end
    BY <1>7 DEF AnswerLost, HandlerInv
  <2>2. CASE c = d
    <3>1. ~Wanted(c)' \/ ~Right(c)
      BY <2>1, <2>2 DEF Right, Wanted, Open
    <3>2. HasJob(c)' => HasJob(c)
      BY <2>1 DEF HasJob, Abandoned, Job
    <3>3. QED
      BY <3>1, <3>2 DEF JobKept
  <2>3. CASE c # d
    <3>1. jobs[c].lock # w
      BY <2>3 DEF HandlerInv, HoldsLock
    <3>2. QED
      BY <1>2, <2>1, <3>1 DEF Abandoned
  <2>4. QED
    BY <2>2, <2>3
<1>8. QED
  BY <1>2, <1>3, <1>4, <1>5, <1>6, <1>7
     DEF HandlerMoves, Worker, ConsumerStep, Find, Complete, Latest

(* The lock is taken with the job and given up with it.                    *)
LEMMA HoldsLockStep ==
    ASSUME TypeOK, NEW w \in Workers, HandlerInv(w), HandlerMoves(w)
    PROVE  HoldsLock(w)'
<1> DEFINE d == arg[w].id
<1> USE ThreadFacts DEF TypeOK, ThreadType, GoTo, Call, At
<1>1. HoldsLock(w) /\ d \in Campaigns /\ jobs \in [Campaigns -> Job]
  BY DEF HandlerInv, Patch, QueueType
<1>2. ASSUME jobs' = jobs, Busy(w), Busy(w)', arg'[w].id = d
      PROVE  HoldsLock(w)'
  BY <1>1, <1>2 DEF HoldsLock
<1>3. ASSUME pc'[w] = "idle",
             \A c \in Campaigns : jobs[c].lock = w => jobs'[c].lock # w,
             \A c \in Campaigns : jobs[c].lock # w => jobs'[c] = jobs[c]
      PROVE  HoldsLock(w)'
  BY <1>3 DEF HoldsLock, Busy
<1>4. CASE Take(w)
  <2>1. PICK e \in Campaigns :
           /\ jobs' = Claimed(e, w)
           /\ Call(w, "find", [id |-> e, end |-> jobs[e].end, status |-> "OPEN"])
    BY <1>4 DEF Take
  <2>2. pc[w] = "idle" /\ pc'[w] = "find" /\ arg'[w].id = e
    BY <1>4, <2>1 DEF Take
  <2>3. /\ jobs'[e].lock = w
        /\ \A c \in Campaigns : c # e => jobs'[c] = jobs[c]
    BY <1>1, <2>1 DEF Claimed, Job
  <2>4. QED
    BY <1>1, <2>2, <2>3 DEF HoldsLock, Busy
<1>5. CASE Ack(w) \/ Nack(w)
  <2>1. pc'[w] = "idle" /\ (jobs' = Finished(d, w) \/ jobs' = Errored(d, w))
    BY <1>5 DEF Ack, Nack
  <2>2. \A c \in Campaigns : jobs[c].lock # w => jobs'[c] = jobs[c]
    BY <1>1, <2>1 DEF Finished, Errored, Removed
  <2>3. ASSUME NEW c \in Campaigns, jobs[c].lock = w PROVE jobs'[c].lock # w
    <3>1. c = d
      BY <1>1, <2>3 DEF HoldsLock
    <3>2. CASE jobs' = Finished(d, w)
      BY <1>1, <2>3, <3>1, <3>2, NamesAssumption DEF Finished, Removed, NoJob
    <3>3. CASE jobs' = Errored(d, w)
      <4>1. jobs'[c].lock = NoLock
        BY <1>1, <2>3, <3>1, <3>3 DEF Errored, Job
      <4>2. QED
        BY <4>1, NamesAssumption
    <3>4. QED
      BY <2>1, <3>2, <3>3
  <2>4. QED
    BY <1>3, <2>1, <2>2, <2>3
<1>6. CASE AnswerLost(w)
  <2>1. pc'[w] = "idle" /\ jobs' = Abandoned(w)
    BY <1>6 DEF AnswerLost
  <2>2. QED
    BY <1>1, <1>3, <2>1, NamesAssumption DEF Abandoned, Job
<1>7. CASE Find(w) \/ Latest(w)
  BY <1>2, <1>7 DEF Find, Latest, TargetOf, Busy, RefreshPc
<1>8. CASE Complete(w)
  BY <1>2, <1>8 DEF Complete, Busy
<1>9. CASE ServiceStep(w) \/ CallFailsLate(w)
  <2>1. pc[w] \in ServicePc => Locked(d)
    BY <1>1, NamesAssumption DEF HoldsLock, Busy, Locked, ServicePc
  <2>2. jobs' = jobs /\ arg' = arg /\ Busy(w)
    BY <1>9, <2>1
       DEF ServiceStep, Refresh, Unschedule, Remove, Add, CallFailsLate,
           HandlerInv, ServicePc, Busy, WorkerPc, PcOf
  <2>3. Busy(w)'
    BY <1>9 DEF ServiceStep, Refresh, Unschedule, Remove, Add, CallFailsLate,
                UnscheduledPc, ReturnPc, ThrowPc, CallFailedPc, Busy
  <2>4. QED
    BY <1>2, <2>2, <2>3
<1>10. QED
  BY <1>4, <1>5, <1>6, <1>7, <1>8, <1>9 DEF HandlerMoves, Worker, ConsumerStep

(* The handler keeps to its part.                                          *)
LEMMA HandlerStep ==
    ASSUME TypeOK, ProcessInv, CallsDone, NEW w \in Workers,
           HandlerInv(w), HandlerMoves(w)
    PROVE  HandlerInv(w)'
<1> DEFINE c == arg[w].id
<1> USE ThreadFacts DEF TypeOK, ThreadType, GoTo, Call, At
<1>1. c \in Campaigns /\ arg[w] \in Patch /\ jobs \in [Campaigns -> Job]
  BY DEF Patch, QueueType
<1>2. Busy(w) => /\ jobs[c].lock = w /\ jobs[c].state = "active"
                 /\ jobs[c].end <= now /\ Locked(c) /\ HasJob(c)
  BY <1>1, NamesAssumption
     DEF HandlerInv, HoldsLock, QueueType, Locked, HasJob, ProcessInv
<1> USE HoldsLockStep
<1>3. CASE Take(w)
  <2>1. PICK d \in Campaigns :
           /\ jobs' = Claimed(d, w)
           /\ Call(w, "find", [id |-> d, end |-> jobs[d].end, status |-> "OPEN"])
    BY <1>3 DEF Take
  <2>2. pc'[w] = "find" /\ arg'[w].id = d /\ arg'[w].end = jobs[d].end
    BY <2>1
  <2>3. jobs'[d].lock = w /\ jobs'[d].end = jobs[d].end
    BY <1>1, <2>1 DEF Claimed, Job
  <2>4. QED
    BY <2>2, <2>3 DEF HandlerInv, Busy
<1>4. CASE Find(w)
  <2>1. jobs' = jobs /\ db' = db /\ Busy(w) /\ arg[w].end = jobs[c].end
    BY <1>4 DEF Find, Busy, HandlerInv
  <2>2. CASE ~(Exists(c) /\ Schedulable(db[c]))
    <3>1. Call(w, "ack", arg[w])
      BY <1>4, <2>2 DEF Find
    <3>2. ~Wanted(c)'
      BY <2>1, <2>2, <3>1 DEF Wanted, Open, Exists, Schedulable
    <3>3. QED
      BY <1>2, <2>1, <3>1, <3>2 DEF HandlerInv, Busy
  <2>3. CASE /\ Exists(c) /\ Schedulable(db[c])
             /\ db[c].end = arg[w].end
    <3>1. db[c].end <= now /\ db[c].end \in Nat /\ now \in Nat
      BY <1>1, <1>2, <2>1, <2>3 DEF QueueType, Date, Job
    <3>2. \A clock \in Date : clock <= now /\ now <= clock + ClockSkew
                                 => clock = now
      BY <3>1 DEF Date, CallsDone
    <3>3. Call(w, "complete", arg[w])
      BY <1>4, <2>3, <3>1, <3>2 DEF Find
    <3>4. StillScheduled(w)'
      BY <1>1, <2>1, <2>3, <3>3 DEF StillScheduled, Open, Exists, Schedulable
    <3>5. QED
      BY <1>2, <2>1, <3>3, <3>4 DEF HandlerInv, Busy
  <2>4. CASE /\ Exists(c) /\ Schedulable(db[c])
             /\ db[c].end # arg[w].end
    <3>1. Call(w, "refresh", TargetOf(c))
      BY <1>4, <2>4 DEF Find
    <3>2. arg'[w] = TargetOf(c)' /\ arg'[w].id = c
      BY <2>1, <3>1 DEF TargetOf
    <3>3. QED
      BY <1>2, <2>1, <2>4, <3>1, <3>2 DEF HandlerInv, Busy, TargetOf
  <2>5. QED
    BY <2>2, <2>3, <2>4
<1>5. CASE Complete(w)
  <2>1. /\ CompleteWrite(w) /\ pc' = [pc EXCEPT ![w] = "ack"]
        /\ jobs' = jobs /\ arg' = arg /\ Busy(w)
    BY <1>5 DEF Complete, HandlerInv, Busy
  <2>2. ~Wanted(c)'
    BY <1>1, <2>1 DEF CompleteWrite, TableType, Wanted, Open, Row, Fresh, Gone
  <2>3. QED
    BY <1>2, <2>1, <2>2 DEF HandlerInv, Busy
<1>6. CASE Ack(w) \/ Nack(w) \/ AnswerLost(w)
  BY <1>6 DEF Ack, Nack, AnswerLost, HandlerInv, Busy
<1>7. CASE ServiceStep(w) /\ db' = db
  <2>1. /\ Busy(w) /\ pc[w] \in {"refresh", "unsched", "remove"}
        /\ arg[w] = TargetOf(c) /\ jobs[c].end # db[c].end
    BY <1>7 DEF ServiceStep, Refresh, Unschedule, Remove, Add, HandlerInv, Busy
  <2>2. jobs' = jobs /\ arg' = arg /\ arg[w].end # jobs[c].end
    BY <1>2, <1>7, <2>1
       DEF ServiceStep, Refresh, Unschedule, Remove, Add, TargetOf
  <2>3. pc'[w] \in {"unsched", "remove", "nack"}
    BY <1>2, <1>7, <2>1, <2>2
       DEF ServiceStep, Refresh, Unschedule, Remove, Add, ThrowPc
  <2>4. QED
    BY <1>2, <1>7, <2>1, <2>2, <2>3 DEF HandlerInv, Busy, TargetOf
<1>8. CASE CallFailsLate(w)
  <2>1. pc[w] \in ServicePc => pc[w] = "remove" /\ Locked(c)
    BY <1>2, <1>8 DEF CallFailsLate, HandlerInv, Busy, ServicePc
  <2>2. /\ pc[w] = "complete" /\ CompleteWrite(w) /\ arg' = arg
        /\ pc'[w] = "nack"
    BY <1>8, <2>1 DEF CallFailsLate, PcOf, WorkerPc, ServicePc, CallFailedPc, ThrowPc
  <2>3. ~Wanted(c)'
    BY <1>1, <2>2 DEF CompleteWrite, TableType, Wanted, Open, Row, Fresh, Gone
  <2>4. QED
    BY <2>2, <2>3 DEF HandlerInv
<1>9. QED
  BY <1>3, <1>4, <1>5, <1>6, <1>7, <1>8
     DEF HandlerMoves, Worker, ConsumerStep, HandlerInv, Latest

----------------------------------------------------------------------------
(* The queue by itself.                                                    *)

(* A job that is right is not failed: its lock is held by a worker that is *)
(* there.                                                                  *)
LEMMA QueueJobs ==
    ASSUME TypeOK, NEW d \in Campaigns, Queue(d), NEW c \in Campaigns
    PROVE  TableKept(c) /\ JobKept(c)
<1> USE NamesAssumption DEF TypeOK, QueueType
<1>1. TableKept(c) /\ (Wanted(c)' => db'[c] = db[c])
  BY DEF Queue, TableKept, Wanted, Open, TargetOf
<1>2. CASE jobs'[c] = jobs[c]
  BY <1>1, <1>2 DEF JobKept, HasJob, Right, Live
<1>3. CASE d # c
  BY <1>2, <1>3 DEF Queue, Promote, ExpireLock, RecoverStalled
<1>4. CASE Promote(c)
  <2>1. /\ jobs'[c].state = "waiting" /\ jobs'[c].end = jobs[c].end
        /\ jobs[c].state = "delayed"
    BY <1>4 DEF Promote, Job
  <2>2. QED
    BY <1>1, <2>1 DEF JobKept, HasJob, Right, Live
<1>5. CASE ExpireLock(c) \/ RecoverStalled(c)
  <2>1. jobs[c].state = "active" /\ jobs[c].lock \notin Workers
    BY <1>5 DEF ExpireLock, RecoverStalled, Locked
  <2>2. QED
    BY <1>1, <2>1 DEF JobKept, HasJob, Right
<1>6. QED
  BY <1>3, <1>4, <1>5 DEF Queue

(* The job of a running handler stays with it while others move.           *)
LEMMA HandlerFrame ==
    ASSUME TypeOK, NEW w \in Workers, HandlerInv(w),
           pc'[w] = pc[w], arg'[w] = arg[w], db' = db,
           \A c \in Campaigns : jobs[c].lock = w => jobs'[c] = jobs[c],
           \A c \in Campaigns : jobs'[c].lock = w => jobs[c].lock = w
    PROVE  HandlerInv(w)'
<1>1. arg[w].id \in Campaigns
  BY ThreadFacts DEF TypeOK, ThreadType, Patch
<1>2. HoldsLock(w)'
  BY DEF HandlerInv, HoldsLock, Busy
<1>3. Busy(w) => jobs'[arg[w].id] = jobs[arg[w].id]
  BY <1>1 DEF HandlerInv, HoldsLock
<1>4. QED
  BY <1>2, <1>3 DEF HandlerInv, Busy, StillScheduled, TargetOf, Wanted, Open

(* The queue gives nobody a lock.                                          *)
LEMMA QueueLocks ==
    ASSUME TypeOK, NEW d \in Campaigns, Queue(d), NEW c \in Campaigns
    PROVE  jobs'[c].lock \in {jobs[c].lock, NoLock}
<1> USE DEF TypeOK, QueueType
<1>1. CASE c # d
  BY <1>1 DEF Queue, Promote, ExpireLock, RecoverStalled
<1>2. CASE c = d /\ (Promote(c) \/ ExpireLock(c))
  BY <1>2 DEF Promote, ExpireLock, Job
<1>3. CASE c = d /\ RecoverStalled(c)
  <2>1. CASE jobs[c].stalls < MaxStalls
    BY <1>3, <2>1 DEF RecoverStalled, Job
  <2>2. CASE ~(jobs[c].stalls < MaxStalls)
    BY <1>3, <2>2 DEF RecoverStalled, Job
  <2>3. QED
    BY <2>1, <2>2
<1>4. QED
  BY <1>1, <1>2, <1>3 DEF Queue

(* A lock becomes a worker's only when the worker takes the job.           *)
LEMMA NewLock ==
    ASSUME TypeOK, NEW w \in Workers, NEW c \in Campaigns,
           jobs[c].lock # w, jobs'[c].lock = w,
           \/ \E d \in Campaigns : Queue(d)
           \/ \E v \in Workers : HandlerMoves(v) \/ BootMoves(v) \/ Goes(v)
    PROVE  Take(w)
<1> USE NamesAssumption DEF TypeOK, QueueType
<1>1. jobs' # jobs
  OBVIOUS
<1>2. \A d : jobs' # Removed(d)
  BY DEF Removed, NoJob
<1>3. \A d, end : jobs' # Added(d, end)
  BY DEF Added, NewJob
<1>4. \A v \in Workers : jobs' # Abandoned(v)
  BY DEF Abandoned, Job
<1>5. ASSUME NEW t, ServiceStep(t) \/ CallFailsLate(t) PROVE FALSE
  BY <1>1, <1>2, <1>3, <1>5
     DEF ServiceStep, Refresh, Unschedule, Remove, Add, CallFailsLate
<1>6. ASSUME NEW v \in Workers, Ack(v) \/ Nack(v) PROVE FALSE
  <2>1. jobs' # Finished(arg[v].id, v)
    BY <1>1, <1>2 DEF Finished
  <2>2. jobs' = Errored(arg[v].id, v)
    BY <1>6, <2>1 DEF Ack, Nack
  <2>3. CASE c = arg[v].id /\ jobs[c].lock = v
    <3>1. jobs'[c].lock = NoLock
      BY <2>2, <2>3 DEF Errored, Job
    <3>2. QED
      BY <3>1
  <2>4. CASE ~(c = arg[v].id /\ jobs[c].lock = v)
    BY <2>2, <2>4 DEF Errored
  <2>5. QED
    BY <2>3, <2>4
<1>7. ASSUME NEW v \in Workers, Take(v) PROVE v = w
  BY <1>7 DEF Take, Claimed, Job
<1>8. ASSUME NEW d \in Campaigns, Queue(d) PROVE FALSE
  BY <1>8, QueueLocks
<1>9. ASSUME NEW v \in Workers, HandlerMoves(v) PROVE Take(w)
  BY <1>1, <1>4, <1>5, <1>6, <1>7, <1>9
     DEF HandlerMoves, AnswerLost, Worker, ConsumerStep, Find, Complete, Latest
<1>10. ASSUME NEW v \in Workers, BootMoves(v) PROVE FALSE
  BY <1>1, <1>5, <1>10 DEF BootMoves, BootStep, ListRows, ListJobs, VisitRow,
                           VisitOrphan, BootDone
<1>11. QED
  BY <1>4, <1>8, <1>9, <1>10 DEF Goes, Stop

LEMMA QueueKeeps ==
    ASSUME TypeOK, NEW d \in Campaigns, Queue(d), NEW w \in Workers,
           HandlerInv(w), BootInv(w)
    PROVE  HandlerInv(w)' /\ BootInv(w)'
<1>1. BootInv(w)'
  BY QueueJobs, BootFrame DEF Queue
<1>2. \A c \in Campaigns : jobs[c].lock = w => jobs'[c] = jobs[c]
  BY NamesAssumption
     DEF Queue, Promote, ExpireLock, RecoverStalled, TypeOK, QueueType, Locked
<1>3. \A c \in Campaigns : jobs'[c].lock = w => jobs[c].lock = w
  BY QueueLocks, NamesAssumption
<1>4. HandlerInv(w)'
  BY <1>2, <1>3, HandlerFrame DEF Queue
<1>5. QED
  BY <1>1, <1>4

----------------------------------------------------------------------------
(* The initializer.                                                        *)

LEMMA ServiceKeepsTable ==
    ASSUME db' = db, NEW c
    PROVE  TableKept(c)
BY DEF TableKept, Wanted, Open, TargetOf

(* A step of the initializer in its own code.                              *)
LEMMA ListRowsStep ==
    ASSUME TypeOK, NEW w \in Workers, BootInv(w), ListRows(w), db' = db
    PROVE  BootInv(w)'
<1> USE ThreadFacts DEF TypeOK, ThreadType, GoTo, Call, At
<1>1. /\ pc'[Boot(w)] = "jobs" /\ bootRows'[w] =
           {TargetOf(c) : c \in {d \in Campaigns : Exists(d) /\ db[d].end # NoEnd}}
  BY DEF ListRows, BootType
<1>2. \A row \in bootRows'[w] : UpToDate(row)'
  BY <1>1 DEF UpToDate, TargetOf
<1>3. \A c \in Campaigns : Wanted(c)' => TargetOf(c)' \in bootRows'[w]
  BY <1>1, RowFacts DEF Wanted, Open, TargetOf, Exists
<1>4. QED
  BY <1>1, <1>2, <1>3 DEF BootInv, ServiceInv, RowsInv, InLoop, ServicePc

LEMMA ListJobsStep ==
    ASSUME TypeOK, NEW w \in Workers, BootInv(w), ListJobs(w), db' = db
    PROVE  BootInv(w)'
<1> USE ThreadFacts DEF TypeOK, ThreadType, GoTo, Call, At
<1>1. /\ pc[Boot(w)] = "jobs" /\ pc'[Boot(w)] = "loop"
      /\ bootRows' = bootRows /\ jobs' = jobs
      /\ bootJobs'[w] = {[id |-> c, end |-> jobs[c].end] :
                           c \in {d \in Campaigns : Listed(d)}}
  BY DEF ListJobs, BootType
<1>2. /\ \A row \in bootRows[w] : UpToDate(row)
      /\ \A c \in Campaigns : Wanted(c) => TargetOf(c) \in bootRows[w]
  BY <1>1 DEF BootInv, RowsInv
<1>3. /\ \A row \in bootRows[w] : UpToDate(row)'
      /\ \A c \in Campaigns : Wanted(c)' => TargetOf(c)' \in bootRows[w]
  BY <1>2 DEF UpToDate, Wanted, Open, TargetOf
<1>4. \A j \in bootJobs'[w] : /\ j.id \in Campaigns /\ Listed(j.id)
                              /\ j.end = jobs[j.id].end
  BY <1>1
<1>5. ASSUME NEW c \in Campaigns, Wanted(c)' PROVE Todo(w, c)'
  <2>1. \A j \in bootJobs'[w] : j.id = c /\ j.end = db'[c].end => Right(c)'
    BY <1>1, <1>4 DEF Listed, Right, Live
  <2>2. QED
    BY <1>1, <1>3, <1>5, <2>1 DEF Todo
<1>6. QED
  BY <1>1, <1>3, <1>4, <1>5 DEF BootInv, ServiceInv, RowsInv, InLoop, ServicePc

LEMMA VisitRowStep ==
    ASSUME TypeOK, NEW w \in Workers, BootInv(w), VisitRow(w), db' = db
    PROVE  BootInv(w)'
<1> DEFINE b == Boot(w)
<1> USE ThreadFacts DEF TypeOK, ThreadType, GoTo, Call, At
<1>1. PICK row \in bootRows[w] :
        LET listed == {j \in bootJobs[w] : j.id = row.id}
            inStep == \E j \in listed : j.end = row.end
        IN
        /\ bootRows' = [bootRows EXCEPT ![w] = @ \ {row}]
        /\ bootJobs' = [bootJobs EXCEPT ![w] = @ \ listed]
        /\ \/ /\ row.status = "COMPLETED" /\ listed # {}
              /\ Call(b, "remove", IdOnly(row.id))
           \/ /\ row.status # "COMPLETED" /\ ~inStep
              /\ Call(b, "unsched", row)
           \/ /\ IF row.status = "COMPLETED" THEN listed = {} ELSE inStep
              /\ UNCHANGED <<pc, arg>>
  BY DEF VisitRow
<1>2. /\ bootRows'[w] = bootRows[w] \ {row}
      /\ bootJobs'[w] = {j \in bootJobs[w] : j.id # row.id}
      /\ pc[b] = "loop" /\ jobs' = jobs /\ row.id \in Campaigns
  BY <1>1 DEF VisitRow, BootType, Target
<1>3. \A r : /\ UpToDate(r)' <=> UpToDate(r)
             /\ Wanted(r)' <=> Wanted(r)
             /\ Right(r)' <=> Right(r)
             /\ TargetOf(r)' = TargetOf(r)
  BY <1>2 DEF UpToDate, Wanted, Open, TargetOf, Right, Live
<1>4. UpToDate(row) /\ \A r \in bootRows[w] : UpToDate(r)
  BY <1>2 DEF BootInv, RowsInv, InLoop, ServicePc
<1>5. Wanted(row.id) => row = TargetOf(row.id) /\ row.status # "COMPLETED"
  BY <1>4 DEF UpToDate, TargetOf, Wanted, Open
<1>6. \/ pc'[b] = "remove" /\ arg'[b] = IdOnly(row.id) /\ ~Wanted(row.id)
      \/ pc'[b] = "unsched" /\ arg'[b] = row
      \/ /\ pc'[b] = "loop"
         /\ Wanted(row.id) =>
               \E j \in bootJobs[w] : j.id = row.id /\ j.end = row.end
  BY <1>1, <1>2, <1>5
<1>7. ServiceInv(w)'
  BY <1>3, <1>4, <1>6 DEF ServiceInv, UpToDate, IdOnly, ServicePc
<1>8. RowsInv(w)'
  <2>1. \A r \in bootRows'[w] : UpToDate(r)'
    BY <1>2, <1>3, <1>4
  <2>2. ASSUME NEW j \in bootJobs'[w], Wanted(j.id)'
        PROVE  TargetOf(j.id)' \in bootRows'[w]
    <3>1. TargetOf(j.id) \in bootRows[w] /\ j.id # row.id
      BY <1>2, <1>3, <2>2 DEF BootInv, RowsInv, InLoop, ServicePc
    <3>2. TargetOf(j.id).id = j.id
      BY DEF TargetOf
    <3>3. QED
      BY <1>2, <1>3, <3>1, <3>2
  <2>3. QED
    BY <1>6, <2>1, <2>2 DEF RowsInv, InLoop, ServicePc
<1>9. ASSUME NEW c \in Campaigns, Wanted(c)' PROVE Todo(w, c)'
  <2>1. Wanted(c) /\ Todo(w, c)
    BY <1>2, <1>3, <1>9 DEF BootInv, InLoop, ServicePc
  <2>2. \/ Right(c)
        \/ /\ TargetOf(c) \in bootRows[w]
           /\ \A j \in bootJobs[w] : j.id = c /\ j.end = db[c].end => Right(c)
    BY <1>2, <2>1 DEF Todo
  <2>3. CASE Right(c)
    BY <1>3, <2>3 DEF Todo
  <2>4. CASE c = row.id /\ ~Right(c)
    <3>1. row = TargetOf(c) /\ row.end = db[c].end
      BY <1>5, <2>1, <2>4 DEF TargetOf
    <3>2. pc'[b] = "unsched" /\ arg'[b] = row
      BY <1>6, <2>1, <2>2, <2>4, <3>1
    <3>3. QED
      BY <1>3, <3>1, <3>2 DEF Todo
  <2>5. CASE c # row.id /\ ~Right(c)
    <3>1. TargetOf(c).id = c
      BY DEF TargetOf
    <3>2. TargetOf(c)' \in bootRows'[w]
      BY <1>2, <1>3, <2>2, <2>5, <3>1
    <3>3. \A j \in bootJobs'[w] : j.id = c /\ j.end = db'[c].end => Right(c)'
      BY <1>2, <1>3, <2>2, <2>5
    <3>4. QED
      BY <3>2, <3>3 DEF Todo
  <2>6. QED
    BY <2>3, <2>4, <2>5
<1>10. QED
  BY <1>7, <1>8, <1>9 DEF BootInv

(* A job left over belongs to no row that asks for it.                     *)
LEMMA VisitOrphanStep ==
    ASSUME TypeOK, NEW w \in Workers, BootInv(w), VisitOrphan(w), db' = db
    PROVE  BootInv(w)'
<1> DEFINE b == Boot(w)
<1> USE ThreadFacts DEF TypeOK, ThreadType, GoTo, Call, At
<1>1. PICK j \in bootJobs[w] :
        /\ bootJobs' = [bootJobs EXCEPT ![w] = @ \ {j}]
        /\ Call(b, "remove", IdOnly(j.id))
  BY DEF VisitOrphan
<1>2. /\ bootRows[w] = {} /\ bootRows'[w] = {} /\ jobs' = jobs
      /\ pc[b] = "loop" /\ pc'[b] = "remove" /\ arg'[b] = IdOnly(j.id)
      /\ bootJobs'[w] \subseteq bootJobs[w]
  BY <1>1 DEF VisitOrphan, BootType
<1>3. \A r : (Wanted(r)' <=> Wanted(r)) /\ (Right(r)' <=> Right(r))
  BY <1>2 DEF Wanted, Open, Right, Live
<1>4. \A i \in bootJobs[w] : ~Wanted(i.id)
  BY <1>2 DEF BootInv, RowsInv, InLoop, ServicePc
<1>5. \A c \in Campaigns : Wanted(c)' => Right(c)'
  BY <1>2, <1>3 DEF BootInv, InLoop, ServicePc, Todo
<1>6. ServiceInv(w)'
  BY <1>2, <1>3, <1>4 DEF ServiceInv, UpToDate, IdOnly, ServicePc
<1>7. RowsInv(w)'
  BY <1>2, <1>3, <1>4 DEF RowsInv, InLoop, ServicePc
<1>8. QED
  BY <1>5, <1>6, <1>7 DEF BootInv, Todo

LEMMA BootDoneStep ==
    ASSUME TypeOK, NEW w \in Workers, BootDone(w)
    PROVE  BootInv(w)'
<1>1. pc'[Boot(w)] = "done"
  BY ThreadFacts DEF TypeOK, ThreadType, GoTo, Call, At, BootDone
<1>2. QED
  BY <1>1 DEF BootInv, ServiceInv, RowsInv, InLoop, ServicePc, At

(* The service, called for a row: the job that is removed is not wanted, or *)
(* is added again.  If the answer of the add is lost the second one finds  *)
(* the job of the first.                                                   *)
LEMMA BootServiceStep ==
    ASSUME TypeOK, NEW w \in Workers, BootInv(w),
           ServiceStep(Boot(w)) \/ CallFailsLate(Boot(w)),
           UNCHANGED <<db, bootRows, bootJobs>>
    PROVE  BootInv(w)'
<1> DEFINE b == Boot(w)
           d == arg[b].id
<1> USE ThreadFacts DEF TypeOK, ThreadType, GoTo, At
<1>1. /\ arg' = arg /\ d \in Campaigns /\ jobs \in [Campaigns -> Job]
      /\ ReturnPc(b) = "loop" /\ ThrowPc(b) = "exit"
  BY DEF ServiceStep, Refresh, Unschedule, Remove, Add, CallFailsLate, Patch,
         ReturnPc, ThrowPc, QueueType
<1>2. /\ pc[b] \in {"unsched", "remove", "add", "readd"}
      /\ InLoop(w) /\ UpToDate(arg[b])
  <2>1. pc[b] \in BootPc /\ pc[b] # "refresh"
    BY DEF PcOf, BootInv, ServiceInv
  <2>2. pc[b] \in ServicePc
    BY <2>1 DEF ServiceStep, Refresh, Unschedule, Remove, Add, CallFailsLate,
                BootPc, ServicePc
  <2>3. QED
    BY <2>1, <2>2 DEF BootInv, ServiceInv, InLoop, ServicePc
<1>3. \A c : /\ Wanted(c)' <=> Wanted(c)
             /\ TargetOf(c)' = TargetOf(c)
             /\ UpToDate(arg[b])' <=> UpToDate(arg[b])
  BY <1>1 DEF Wanted, Open, TargetOf, UpToDate
<1>4. Wanted(d) => arg[b] = TargetOf(d) /\ Schedulable(arg[b])
  BY <1>2 DEF UpToDate, TargetOf, Wanted, Open, Schedulable
<1>5. ASSUME pc[b] \in {"add", "readd"}, jobs' = Added(d, arg[b].end)
      PROVE  /\ Wanted(d) => Right(d)'
             /\ \A c \in Campaigns : c # d => jobs'[c] = jobs[c]
  <2>1. \A c \in Campaigns : c # d => jobs'[c] = jobs[c]
    BY <1>5 DEF Added
  <2>2. CASE HasJob(d)
    <3>1. jobs' = jobs /\ pc[b] = "readd"
      BY <1>5, <2>2 DEF Added, BootInv, ServiceInv
    <3>2. Wanted(d) => Right(d)
      BY <3>1 DEF BootInv, ServiceInv
    <3>3. QED
      BY <1>1, <2>1, <3>1, <3>2 DEF Right, Live
  <2>3. CASE ~HasJob(d)
    <3>1. /\ jobs'[d].end = arg[b].end
          /\ jobs'[d].state \in {"waiting", "delayed"}
      BY <1>1, <1>5, <2>3 DEF Added, NewJob
    <3>2. QED
      BY <1>1, <1>4, <2>1, <3>1 DEF Right, Live, TargetOf
  <2>4. QED
    BY <2>2, <2>3
<1>6. /\ pc'[b] \in {"remove", "add", "readd", "loop", "exit"}
      /\ pc'[b] = "add" => ~HasJob(d)'
      /\ Wanted(d) /\ pc'[b] \in {"readd", "loop"} => Right(d)'
      /\ \A c \in Campaigns : c # d => jobs'[c] = jobs[c]
  <2>1. CASE Unschedule(b)
    BY <1>1, <1>4, <2>1 DEF Unschedule, UnscheduledPc, HasJob
  <2>2. CASE Remove(b)
    BY <1>1, <1>4, <2>2 DEF Remove, UnscheduledPc, HasJob, Removed, NoJob
  <2>3. CASE Add(b)
    BY <1>1, <1>5, <2>3 DEF Add
  <2>4. CASE CallFailsLate(b) /\ pc[b] = "remove"
    BY <1>1, <2>4 DEF CallFailsLate, CallFailedPc, Removed
  <2>5. CASE CallFailsLate(b) /\ pc[b] \in {"add", "readd"}
    BY <1>1, <1>5, <2>5 DEF CallFailsLate, CallFailedPc
  <2>6. QED
    BY <1>2, <2>1, <2>2, <2>3, <2>4, <2>5 DEF ServiceStep, Refresh, CallFailsLate
<1>7. CASE pc'[b] = "exit"
  BY <1>7 DEF BootInv, ServiceInv, RowsInv, InLoop, ServicePc
<1>8. CASE pc'[b] # "exit"
  <2>1. ServiceInv(w)'
    BY <1>1, <1>2, <1>3, <1>6, <1>8 DEF ServiceInv
  <2>2. RowsInv(w)'
    <3>1. \A r : UpToDate(r)' <=> UpToDate(r)
      BY DEF UpToDate, Wanted, Open, TargetOf
    <3>2. QED
      BY <1>2, <1>3, <1>6, <1>8, <3>1 DEF BootInv, RowsInv, InLoop
  <2>3. ASSUME NEW c \in Campaigns, Wanted(c)' PROVE Todo(w, c)'
    <3>1. Wanted(c) /\ Todo(w, c)
      BY <1>2, <1>3, <2>3 DEF BootInv
    <3>2. CASE c = d
      BY <1>1, <1>3, <1>4, <1>6, <1>8, <3>1, <3>2 DEF Todo
    <3>3. CASE c # d
      <4>1. Right(c)' <=> Right(c)
        BY <1>6, <3>3 DEF Right, Live
      <4>2. arg[b] # TargetOf(c)
        BY <3>3 DEF TargetOf
      <4>3. QED
        BY <1>3, <3>1, <4>1, <4>2 DEF Todo
    <3>4. QED
      BY <3>2, <3>3
  <2>4. QED
    BY <2>1, <2>2, <2>3 DEF BootInv
<1>9. QED
  BY <1>7, <1>8

LEMMA BootKeeps ==
    ASSUME TypeOK, NEW w \in Workers, HandlerInv(w), BootInv(w), BootMoves(w)
    PROVE  HandlerInv(w)' /\ BootInv(w)'
<1>1. BootInv(w)'
  BY ListRowsStep, ListJobsStep, VisitRowStep, VisitOrphanStep, BootDoneStep,
     BootServiceStep DEF BootMoves, BootStep, CallFailsLate, bootVars
<1>2. \A c \in Campaigns : jobs[c].lock = w => jobs'[c] = jobs[c]
  <2>1. ASSUME NEW c \in Campaigns, jobs[c].lock = w,
               ServiceStep(Boot(w)) \/ CallFailsLate(Boot(w))
        PROVE  jobs'[c] = jobs[c]
    <3>1. Locked(c) /\ HasJob(c)
      BY <2>1, NamesAssumption DEF TypeOK, QueueType, Locked, HasJob
    <3>2. QED
      BY <2>1, <3>1 DEF ServiceStep, Refresh, Unschedule, Remove, Add,
                        CallFailsLate, Removed, Added, TypeOK, QueueType
  <2>2. CASE BootStep(w)
    BY <2>2 DEF BootStep, ListRows, ListJobs, VisitRow, VisitOrphan, BootDone
  <2>3. QED
    BY <2>1, <2>2 DEF BootMoves
<1>3. \A c \in Campaigns : jobs'[c].lock = w => jobs[c].lock = w
  <2>1. ~Take(w)
    BY ThreadFacts, BootPcs DEF Take, Call, GoTo, At, TypeOK, ThreadType
  <2>2. QED
    BY <2>1, NewLock
<1>4. pc'[w] = pc[w] /\ arg'[w] = arg[w] /\ db' = db
  BY ThreadFacts, BootPcs DEF BootMoves
<1>5. QED
  BY <1>1, <1>2, <1>3, <1>4, HandlerFrame

----------------------------------------------------------------------------
(* The invariant as a whole.                                               *)

LEMMA AloneStep ==
    ASSUME TypeOK, AloneInv, Alone, Alone', CallsDone, [Next]_vars
    PROVE  AloneInv'
<1> USE DEF AloneInv
<1>1. ProcessInv'
  BY ProcessStep, DueStep DEF ProcessInv
<1>2. ASSUME NEW w \in Workers PROVE HandlerInv(w)' /\ BootInv(w)'
  <2>1. CASE ~Up(w) \/ ~Up(w)'
    <3>1. /\ pc'[w] \in {"down", "idle"}
          /\ pc'[Boot(w)] \in {"off", "list"}
      <4>1. CASE ~Up(w)'
        BY <1>1, <4>1 DEF ProcessInv, Up
      <4>2. CASE ~Up(w) /\ Up(w)'
        <5>1. PICK v \in Workers : Start(v)
          BY <4>2, AloneSteps, HandlerPcs, BootPcs, ThreadFacts
             DEF Queue, Up, Goes, Stop, TypeOK, ThreadType
        <5>2. v = w
          BY <4>2, <5>1, ThreadFacts DEF Start, Up, TypeOK, ThreadType
        <5>3. QED
          BY <5>1, <5>2, ThreadFacts DEF Start, TypeOK, ThreadType
      <4>3. QED
        BY <2>1, <4>1, <4>2
    <3>2. ASSUME NEW c \in Campaigns, jobs'[c].lock = w PROVE FALSE
      <4>1. CASE jobs[c].lock = w
        <5>1. Up(w)
          BY <4>1 DEF HandlerInv, HoldsLock, Up, Busy
        <5>2. PICK v \in Workers : Goes(v)
          BY <2>1, <5>1, AloneSteps, HandlerPcs, BootPcs, ThreadFacts
             DEF Queue, Up, Start, TypeOK, ThreadType
        <5>3. v = w
          BY <2>1, <5>1, <5>2, ThreadFacts DEF Goes, Stop, Up, TypeOK, ThreadType
        <5>4. jobs'[c] = [jobs[c] EXCEPT !.lock = Orphaned]
          BY <4>1, <5>2, <5>3 DEF Goes, Stop, Abandoned
        <5>5. QED
          BY <3>2, <5>4, NamesAssumption DEF TypeOK, QueueType, Job
      <4>2. CASE jobs[c].lock # w
        <5>1. Take(w)
          BY <3>2, <4>2, AloneSteps, NewLock DEF Start
        <5>2. pc'[w] = "find"
          BY <5>1, ThreadFacts DEF Take, Call, GoTo, TypeOK, ThreadType
        <5>3. QED
          BY <3>1, <5>2
      <4>3. QED
        BY <4>1, <4>2
    <3>3. QED
      BY <3>1, <3>2 DEF Busy, HandlerInv, HoldsLock, BootInv, ServiceInv, RowsInv,
                        InLoop, At, ServicePc
  <2>2. CASE Up(w)' /\ Up(w)
    <3>1. CASE UNCHANGED <<jobs, db, pc, arg, bootRows, bootJobs>>
      <4>1. \A c \in Campaigns : TableKept(c) /\ JobKept(c)
        BY <3>1, ServiceKeepsTable DEF JobKept, HasJob, Right, Live
      <4>2. BootInv(w)'
        BY <3>1, <4>1, BootFrame DEF bootVars
      <4>3. HandlerInv(w)'
        BY <3>1, HandlerFrame
      <4>4. QED
        BY <4>2, <4>3
    <3>2. CASE HandlerMoves(w)
      <4>1. pc'[Boot(w)] = pc[Boot(w)] /\ arg'[Boot(w)] = arg[Boot(w)]
        BY <3>2, HandlerPcs, ThreadFacts
      <4>2. UNCHANGED bootVars
        BY <3>2 DEF HandlerMoves, Worker, CallFailsLate, AnswerLost
      <4>3. BootInv(w)'
        BY <3>2, <4>1, <4>2, BootFrame, HandlerTable, HandlerJobs
      <4>4. QED
        BY <3>2, <4>3, HandlerStep
    <3>3. QED
      BY <2>2, <3>1, <3>2, UpSteps, QueueKeeps, BootKeeps
  <2>3. QED
    BY <2>1, <2>2
<1>3. QED
  BY <1>1, <1>2

LEMMA AloneStart ==
    ASSUME Init \/ InitUp \/ InitDown
    PROVE  AloneInv
<1> USE ThreadFacts
<1>1. PICK workerPc \in {"down", "idle"}, bootPc \in {"off", "done"} :
         /\ InitThreads(workerPc, bootPc)
         /\ workerPc = "down" <=> bootPc = "off"
  BY DEF Init, InitUp, InitDown
<1>2. \A w \in Workers : pc[w] = workerPc /\ pc[Boot(w)] = bootPc
  BY <1>1 DEF InitThreads
<1>3. ASSUME NEW c \in Campaigns
      PROVE  /\ jobs[c].lock \in {NoLock, Orphaned}
             /\ jobs[c].state \in {"waiting", "active"} => jobs[c].end <= now
  <2>1. now = 0
    BY <1>1 DEF InitThreads
  <2>2. CASE Init
    <3>1. jobs[c] \in Leftover
      BY <2>2 DEF Init
    <3>2. QED
      BY <2>1, <3>1 DEF Leftover, NoJob
  <2>3. CASE InitInStep
    <3>1. jobs[c] = NoJob \/ jobs[c] = NewJob(db[c].end)
      BY <2>3 DEF InitInStep
    <3>2. QED
      BY <2>1, <3>1 DEF NoJob, NewJob
  <2>4. QED
    BY <2>2, <2>3 DEF InitUp, InitDown
<1>4. \A w \in Workers : \A c \in Campaigns : jobs[c].lock # w
  BY <1>3, NamesAssumption
<1>5. \A w \in Workers : HandlerInv(w) /\ BootInv(w)
  BY <1>2, <1>4, IdleInv
<1>6. \A w \in Workers : Up(w) <=> pc[Boot(w)] # "off"
  BY <1>1, <1>2 DEF Up
<1>7. QED
  BY <1>3, <1>5, <1>6 DEF AloneInv, ProcessInv

(* The initializer is done when no row is left; nothing is left to do.     *)
LEMMA DoneIsRepaired ==
    ASSUME TypeOK, AloneInv, Alone, Alone', CallsDone, [Next]_vars,
           NEW w \in Workers, pc[Boot(w)] # "done", pc'[Boot(w)] = "done",
           NEW c \in Campaigns, Wanted(c)
    PROVE  Kept(c)
<1> USE ThreadFacts DEF TypeOK, ThreadType, GoTo, Call, At
<1>1. BootMoves(w)
  <2>1. ASSUME NEW v \in Workers, Start(v) \/ Goes(v) PROVE FALSE
    BY <2>1 DEF Start, Goes, Stop
  <2>2. QED
    BY <2>1, AloneSteps, HandlerPcs, BootPcs DEF Queue
<1>2. BootDone(w)
  <2>1. ~ServiceStep(Boot(w)) /\ ~CallFailsLate(Boot(w))
    BY DEF ServiceStep, Refresh, Unschedule, Remove, Add, UnscheduledPc, ReturnPc,
           ThrowPc, CallFailsLate, CallFailedPc
  <2>2. QED
    BY <1>1, <2>1 DEF BootMoves, BootStep, ListRows, ListJobs, VisitRow, VisitOrphan
<1>3. InLoop(w) /\ bootRows[w] = {} /\ pc[Boot(w)] = "loop"
  BY <1>2 DEF BootDone, InLoop
<1>4. Right(c)
  BY <1>3 DEF AloneInv, BootInv, Todo, ServicePc
<1>5. QED
  BY <1>4 DEF Right, Kept

(* A worker that has finished its initializer has repaired the schedules:  *)
(* whatever the table and the queue looked like before it came up, however *)
(* often a worker died half way through the same, whatever answers were    *)
(* lost, and although its job handler ran beside the initializer all the   *)
(* time, every open campaign with an end date has a job for that date      *)
(* (refreshAllSchedules of the expiration scheduler service).  It takes    *)
(* that no second worker and no request is about, that no call is turned   *)
(* away and no lock is lost, and that no clock is behind: without any one  *)
(* of these there are runs in which a schedule is left broken.             *)
THEOREM BootRepairsAll ==
    ASSUME CallsDone
    PROVE  (Spec \/ SpecUp \/ SpecDown) /\ []Alone => BootRepairs
<1>1. Init \/ InitUp \/ InitDown => AloneInv
  BY AloneStart
<1>2. TypeOK /\ AloneInv /\ Alone /\ Alone' /\ [Next]_vars => AloneInv'
  BY AloneStep, CallsDone
<1>3. TypeOK /\ AloneInv /\ Alone /\ Alone' /\ [Next]_vars
         => [\A w \in Workers :
               pc[Boot(w)] # "done" /\ pc'[Boot(w)] = "done" =>
                  \A c \in Campaigns : Wanted(c) => Kept(c)]_vars
  BY DoneIsRepaired, CallsDone
<1>4. QED
  BY <1>1, <1>2, <1>3, TypeCorrect, PTL DEF Spec, SpecUp, SpecDown, BootRepairs

(* A single worker that nobody sends requests beside is always alone.      *)
COROLLARY OneWorkerRepairs ==
    ASSUME CallsDone, Requests = {}, \A v, w \in Workers : v = w
    PROVE  Spec => BootRepairs
<1>1. Alone
  BY DEF Alone
<1>2. Spec => []Alone
  BY <1>1, PTL
<1>3. QED
  BY <1>2, BootRepairsAll, PTL
=============================================================================
