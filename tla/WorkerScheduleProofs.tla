------------------------- MODULE WorkerScheduleProofs -------------------------
(***************************************************************************)
(* Proof that the workers by themselves lose no schedule: as long as no    *)
(* request touches a campaign, it keeps the job its row asks for, through  *)
(* fewer rejected calls than the job has attempts.                         *)
(***************************************************************************)
EXTENDS CampaignExpirationProofs

(* The faults the theorem is about: answers are lost, and calls are        *)
(* rejected fewer times than a job is tried; processes stay up, locks are  *)
(* kept, and no clock is behind.                                           *)
FewFailures ==
    /\ FaultKinds \subseteq {"call", "late"} /\ ClockSkew = 0
    /\ "call" \in FaultKinds => MaxFaults < Attempts

(* What the job of c has been through.  An attempt that failed took one    *)
(* rejected call, also before the queue hears of it; a wanted job stalls   *)
(* only when a call was rejected and the answer was lost, which makes two. *)
Unheld(c) == jobs[c].state = "active" /\ jobs[c].lock \notin Workers
Nacked(c) == \E w \in Workers : jobs[c].lock = w /\ pc[w] = "nack"
Setbacks(c) ==
    jobs[c].tries + 2 * jobs[c].stalls
        + (IF Unheld(c) THEN 2 ELSE 0) + (IF Nacked(c) THEN 1 ELSE 0)
Failures == IF "call" \in FaultKinds THEN faults ELSE 0

AllUp == \A w \in Workers : Up(w) /\ pc[Boot(w)] = "done"

(* The handler of c's job holds its lock, finds the row the job was made   *)
(* for, and acknowledges only a job that is not wanted any more.           *)
HandlerKeeps(w, c) ==
    /\ jobs[c].lock = w <=> Busy(w) /\ arg[w].id = c
    /\ Busy(w) /\ arg[w].id = c =>
          /\ pc[w] \in {"find", "complete", "ack", "nack"}
          /\ pc[w] = "ack" => ~Wanted(c)
          /\ pc[w] = "find" => arg[w].end = jobs[c].end
          /\ pc[w] = "complete" => Wanted(c) /\ arg[w].end = db[c].end

JobKeeps(c) ==
    Wanted(c) =>
        /\ Kept(c) /\ Setbacks(c) <= Failures
        /\ jobs[c].state \in {"waiting", "active"} => jobs[c].end <= now

KeepInv(c) == AllUp /\ JobKeeps(c) /\ \A w \in Workers : HandlerKeeps(w, c)

----------------------------------------------------------------------------
(* A step that does not concern the campaign.                              *)
Elsewhere(c) ==
    /\ db'[c] = db[c] /\ jobs'[c] = jobs[c] /\ now <= now' /\ faults <= faults'
    /\ \A w \in Workers :
         /\ pc'[w] # "down" /\ pc'[Boot(w)] = pc[Boot(w)]
         /\ \/ pc'[w] = pc[w] /\ arg'[w] = arg[w]
            \/ /\ Busy(w) => arg[w].id # c
               /\ Busy(w)' => arg'[w].id # c

LEMMA ElsewhereKeeps ==
    ASSUME TypeOK, TypeOK', NEW c \in Campaigns, KeepInv(c), Elsewhere(c)
    PROVE  KeepInv(c)'
<1>1. AllUp'
  BY DEF KeepInv, AllUp, Elsewhere, Up
<1>2. \A w \in Workers : HandlerKeeps(w, c)'
  BY DEF KeepInv, HandlerKeeps, Elsewhere, Busy, Wanted, Open
<1>3. \A w \in Workers : jobs[c].lock = w =>
          pc'[w] = pc[w] \/ (Busy(w) /\ arg[w].id # c)
  BY DEF KeepInv, HandlerKeeps, Elsewhere
<1>4. Nacked(c)' <=> Nacked(c)
  BY <1>3 DEF Nacked, Elsewhere, KeepInv, HandlerKeeps
<1>5. Setbacks(c)' = Setbacks(c)
  BY <1>4 DEF Setbacks, Elsewhere, Unheld
<1>6. Setbacks(c) \in Nat /\ Failures <= Failures' /\ Failures \in Nat
      /\ Failures' \in Nat
  BY ConstantsAssumption
  DEF Setbacks, Failures, TypeOK, QueueType, Job, Attempts, MaxStalls, Elsewhere
<1>7. JobKeeps(c)'
  <2>1. Wanted(c)' => Wanted(c)
    BY DEF Wanted, Open, Elsewhere
  <2>2. jobs[c].end \in Nat /\ now \in Nat /\ now' \in Nat /\ now <= now'
    BY DEF TypeOK, QueueType, Job, Date, Elsewhere
  <2>3. QED
    BY <1>5, <1>6, <2>1, <2>2 DEF KeepInv, JobKeeps, Kept, Live, Elsewhere
<1>8. QED
  BY <1>1, <1>2, <1>7 DEF KeepInv

(* The handler of another campaign, or the step of a thread that is none   *)
(* of a worker's.                                                          *)
LEMMA RequestElsewhere ==
    ASSUME TypeOK, NEW c \in Campaigns, KeepInv(c), Untouched(c), Untouched(c)',
           NEW r \in Requests,
           \/ Request(r)
           \/ CallFails(r)
           \/ CallFailsLate(r)
    PROVE  Elsewhere(c)
<1> USE ThreadFacts DEF TypeOK, ThreadType
<1>1. pc[r] \notin Answered => arg[r].id # c
  BY DEF Untouched
<1>2. /\ pc'[r] \notin Answered => arg'[r].id # c
      /\ ServicePc \cap Answered = {}
      /\ \A row : RefreshPc(row) \notin Answered
  BY DEF Untouched, ServicePc, Answered, RefreshPc
<1>3. ASSUME db'[c] = db[c], jobs'[c] = jobs[c], now' = now,
             faults' \in {faults, faults + 1},
             \A t \in Threads \ {r} : pc'[t] = pc[t] /\ arg'[t] = arg[t]
      PROVE  Elsewhere(c)
  <2>1. now \in Nat /\ faults \in Nat
    BY ConstantsAssumption DEF QueueType, Date
  <2>2. QED
    BY <1>3, <2>1 DEF Elsewhere, KeepInv, AllUp, Up
<1>4. CASE Create(r) /\ UNCHANGED <<now, faults>>
  <2>1. PICK d \in Campaigns, row \in Row :
          /\ Store(d, row) /\ UNCHANGED jobs
          /\ Call(r, RefreshPc(row), [id |-> d, end |-> row.end,
                                      status |-> row.status])
    BY <1>4 DEF Create
  <2>2. d # c
    BY <1>2, <2>1 DEF Call, GoTo
  <2>3. QED
    BY <1>3, <1>4, <2>1, <2>2 DEF Store, Call, GoTo, TableType
<1>5. CASE (UpdateFind(r) \/ DeleteFind(r)) /\ UNCHANGED <<now, faults>>
  BY <1>3, <1>5 DEF UpdateFind, DeleteFind, Call, GoTo
<1>6. CASE (Update(r) \/ Delete(r)) /\ UNCHANGED <<now, faults>>
  <2>1. arg[r].id # c
    BY <1>1, <1>6 DEF Update, Delete, At, Answered
  <2>2. QED
    BY <1>3, <1>6, <2>1 DEF Update, Delete, Store, Call, GoTo, TableType
<1>7. CASE ServiceStep(r) /\ UNCHANGED <<db, now, faults>>
  <2>1. arg[r].id # c
    BY <1>1, <1>2, <1>7
    DEF ServiceStep, Refresh, Unschedule, Remove, Add, At, ServicePc
  <2>2. jobs'[c] = jobs[c]
    BY <1>7, <2>1
    DEF ServiceStep, Refresh, Unschedule, Remove, Add, Removed, Added, QueueType
  <2>3. QED
    BY <1>3, <1>7, <2>2
    DEF ServiceStep, Refresh, Unschedule, Remove, Add, Call, GoTo
<1>8. CASE CallFails(r)
  BY <1>3, <1>8 DEF CallFails, Fault, GoTo
<1>9. CASE CallFailsLate(r)
  <2>1. arg[r].id # c
    BY <1>1, <1>9 DEF CallFailsLate, At, Answered
  <2>2. db'[c] = db[c] /\ jobs'[c] = jobs[c]
    BY <1>9, <2>1
    DEF CallFailsLate, Store, CompleteWrite, Removed, Added, QueueType, TableType
  <2>3. QED
    BY <1>3, <1>9, <2>2 DEF CallFailsLate, Fault, GoTo
<1>10. QED
  BY <1>4, <1>5, <1>6, <1>7, <1>8, <1>9 DEF Request, RequestStep

WorkerMoves(w) == Worker(w) \/ CallFails(w) \/ CallFailsLate(w) \/ AnswerLost(w)

(* What a worker's step leaves alone.                                      *)
LEMMA WorkerAlone ==
    ASSUME TypeOK, NEW w \in Workers, WorkerMoves(w)
    PROVE  /\ Up(w) /\ pc'[w] # "down" /\ now' = now
           /\ faults' \in {faults, faults + 1} /\ faults \in Nat
           /\ \A t \in Threads \ {w} : pc'[t] = pc[t] /\ arg'[t] = arg[t]
<1> USE ThreadFacts DEF TypeOK, ThreadType, GoTo, Call, At, Up
<1>0. faults \in Nat
  BY ConstantsAssumption
<1>1. CASE ServiceStep(w) /\ UNCHANGED <<now, faults>>
  BY <1>0, <1>1 DEF ServiceStep, Refresh, Unschedule, Remove, Add, UnscheduledPc,
              ReturnPc, ThrowPc
<1>2. CASE Worker(w) /\ ~ServiceStep(w)
  BY <1>0, <1>2 DEF Worker, ConsumerStep, Take, Find, Complete, Latest, Ack, Nack,
              RefreshPc
<1>3. CASE CallFails(w) \/ CallFailsLate(w) \/ AnswerLost(w)
  BY <1>0, <1>3 DEF CallFails, CallFailsLate, AnswerLost, CallFailedPc, ThrowPc, Fault,
              CallPc, ServicePc
<1>4. QED
  BY <1>1, <1>2, <1>3 DEF WorkerMoves, Worker, ConsumerStep

LEMMA WorkerElsewhere ==
    ASSUME TypeOK, NEW c \in Campaigns, KeepInv(c), NEW w \in Workers,
           WorkerMoves(w), Busy(w) => arg[w].id # c,
           Take(w) => jobs'[c] = jobs[c]
    PROVE  Elsewhere(c)
<1> USE ThreadFacts DEF TypeOK, ThreadType
<1>0. /\ pc'[w] # "down" /\ now' = now /\ faults' \in {faults, faults + 1}
      /\ faults \in Nat /\ now \in Nat
      /\ \A t \in Threads \ {w} : pc'[t] = pc[t] /\ arg'[t] = arg[t]
  BY WorkerAlone DEF QueueType, Date
<1>l. jobs[c].lock # w
  BY DEF KeepInv, HandlerKeeps
<1>1. ASSUME db'[c] = db[c], jobs'[c] = jobs[c], Busy(w)' => arg'[w].id # c
      PROVE  Elsewhere(c)
  <2>1. now <= now' /\ faults <= faults'
    BY <1>0
  <2>2. ASSUME NEW v \in Workers, v # w
        PROVE  /\ pc'[v] = pc[v] /\ arg'[v] = arg[v] /\ pc'[v] # "down"
               /\ pc'[Boot(v)] = pc[Boot(v)]
    BY <1>0, <2>2 DEF KeepInv, AllUp, Up
  <2>3. pc'[Boot(w)] = pc[Boot(w)]
    BY <1>0
  <2>4. QED
    BY <1>0, <1>1, <2>1, <2>2, <2>3 DEF Elsewhere
<1>2. CASE Take(w) /\ UNCHANGED db
  <2>1. PICK d \in Campaigns :
          /\ jobs[d].state = "waiting" /\ jobs' = Claimed(d, w)
          /\ Call(w, "find", [id |-> d, end |-> jobs[d].end, status |-> "OPEN"])
    BY <1>2 DEF Take
  <2>2. d # c
    <3>1. ASSUME d = c PROVE FALSE
      <4>1. jobs'[c].state = "active"
        BY <2>1, <3>1 DEF Claimed, QueueType, Job
      <4>2. QED
        BY <1>2, <2>1, <3>1, <4>1
    <3>2. QED
      BY <3>1
  <2>3. QED
    BY <1>1, <1>2, <2>1, <2>2 DEF Call, GoTo
<1>3. CASE Busy(w) /\ (Find(w) \/ Latest(w)) /\ UNCHANGED <<jobs, db>>
  BY <1>1, <1>3 DEF Find, Latest, Call, GoTo, TargetOf
<1>4. CASE Busy(w) /\ Complete(w)
  BY <1>1, <1>4 DEF Complete, CompleteWrite, GoTo, TableType
<1>5. CASE (Ack(w) \/ Nack(w)) /\ UNCHANGED db
  <2>1. Busy(w)
    BY <1>5 DEF Ack, Nack, At, Busy
  <2>2. ~Busy(w)'
    BY <1>5 DEF Ack, Nack, Call, GoTo, Busy
  <2>3. QED
    BY <1>1, <1>5, <2>1, <2>2, <1>l
    DEF Ack, Nack, Finished, Errored, Removed, QueueType
<1>6. CASE Busy(w) /\ ServiceStep(w) /\ UNCHANGED db
  <2>1. jobs'[c] = jobs[c]
    BY <1>6
    DEF ServiceStep, Refresh, Unschedule, Remove, Add, Removed, Added, QueueType
  <2>2. QED
    BY <1>1, <1>6, <2>1 DEF ServiceStep, Refresh, Unschedule, Remove, Add
<1>7. CASE Busy(w) /\ CallFails(w)
  BY <1>1, <1>7 DEF CallFails
<1>8. CASE Busy(w) /\ CallFailsLate(w)
  <2>1. db'[c] = db[c] /\ jobs'[c] = jobs[c]
    BY <1>8
    DEF CallFailsLate, Store, CompleteWrite, Removed, Added, QueueType, TableType
  <2>2. QED
    BY <1>1, <1>8, <2>1 DEF CallFailsLate
<1>9. CASE AnswerLost(w)
  <2>1. jobs'[c] = jobs[c]
    BY <1>9, <1>l DEF AnswerLost, Abandoned
  <2>2. QED
    BY <1>1, <1>9, <2>1 DEF AnswerLost, Call, GoTo, Busy
<1>10. ~Take(w) => Busy(w)
  BY DEF WorkerMoves, Worker, ConsumerStep, Find, Complete, Latest, Ack, Nack,
         ServiceStep, Refresh, Unschedule, Remove, Add, CallFails, CallFailsLate,
         AnswerLost, CallPc, ServicePc, At, Busy
<1>11. QED
  BY <1>2, <1>3, <1>4, <1>5, <1>6, <1>7, <1>8, <1>9, <1>10
  DEF WorkerMoves, Worker, ConsumerStep, Take, Find, Latest, Ack, Nack

----------------------------------------------------------------------------
(* The worker that has, or takes, the job of the campaign.                 *)
LEMMA OwnHandler ==
    ASSUME TypeOK, NEW c \in Campaigns, KeepInv(c), NEW w \in Workers,
           WorkerMoves(w), jobs[c].lock \notin Workers \ {w},
           jobs'[c].lock \in {w, NoLock, Orphaned}
    PROVE  /\ AllUp'
           /\ \A v \in Workers \ {w} : HandlerKeeps(v, c)'
           /\ Nacked(c) <=> jobs[c].lock = w /\ pc[w] = "nack"
           /\ Nacked(c)' <=> jobs'[c].lock = w /\ pc'[w] = "nack"
<1> USE ThreadFacts
<1>1. /\ pc'[w] # "down"
      /\ \A t \in Threads \ {w} : pc'[t] = pc[t] /\ arg'[t] = arg[t]
  BY WorkerAlone
<1>2. AllUp'
  BY <1>1 DEF KeepInv, AllUp, Up
<1>3. \A v \in Workers \ {w} : HandlerKeeps(v, c)'
  BY <1>1, NamesAssumption DEF KeepInv, HandlerKeeps, Busy
<1>4. /\ Nacked(c) <=> jobs[c].lock = w /\ pc[w] = "nack"
      /\ Nacked(c)' <=> jobs'[c].lock = w /\ pc'[w] = "nack"
  BY NamesAssumption DEF Nacked
<1>5. QED
  BY <1>2, <1>3, <1>4

LEMMA TakeKeeps ==
    ASSUME TypeOK, NEW c \in Campaigns, KeepInv(c), NEW w \in Workers,
           Worker(w), Take(w), jobs'[c] # jobs[c]
    PROVE  KeepInv(c)'
<1> USE ThreadFacts DEF TypeOK
<1>1. /\ jobs[c].state = "waiting" /\ jobs' = Claimed(c, w) /\ db' = db
      /\ pc[w] = "idle"
      /\ Call(w, "find", [id |-> c, end |-> jobs[c].end, status |-> "OPEN"])
  BY DEF Take, Claimed, QueueType, At
<1>2. jobs'[c] = [jobs[c] EXCEPT !.state = "active", !.lock = w]
      /\ jobs[c] \in Job
  BY <1>1 DEF Claimed, QueueType, Job
<1>3. jobs[c].lock = NoLock
  BY <1>1 DEF QueueType, Locked
<1>4. /\ jobs'[c].state = "active" /\ jobs'[c].lock = w
      /\ jobs'[c].end = jobs[c].end /\ jobs'[c].tries = jobs[c].tries
      /\ jobs'[c].stalls = jobs[c].stalls
  BY <1>2 DEF Job
<1>5. /\ pc'[w] = "find" /\ arg'[w].id = c /\ arg'[w].end = jobs[c].end
      /\ UNCHANGED <<now, faults>>
  BY <1>1 DEF Call, GoTo, ThreadType, Worker
<1>6. /\ AllUp' /\ \A v \in Workers \ {w} : HandlerKeeps(v, c)'
      /\ ~Nacked(c) /\ ~Nacked(c)'
  <2>1. jobs[c].lock \notin Workers
    BY <1>3, NamesAssumption
  <2>2. WorkerMoves(w)
    BY DEF WorkerMoves
  <2>3. QED
    BY <1>4, <1>5, <2>1, <2>2, OwnHandler
<1>7. HandlerKeeps(w, c)'
  BY <1>4, <1>5 DEF HandlerKeeps, Busy
<1>8. JobKeeps(c)'
  <2>1. Setbacks(c)' = Setbacks(c) /\ Failures' = Failures
    BY <1>1, <1>4, <1>5, <1>6 DEF Setbacks, Unheld, Failures
  <2>2. Wanted(c)' <=> Wanted(c)
    BY <1>1 DEF Wanted, Open
  <2>3. QED
    BY <1>1, <1>4, <1>5, <2>1, <2>2 DEF KeepInv, JobKeeps, Kept, Live
<1>9. QED
  BY <1>6, <1>7, <1>8 DEF KeepInv

LEMMA HandlerStepKeeps ==
    ASSUME TypeOK, TypeOK', NEW c \in Campaigns, KeepInv(c), FewFailures,
           NEW w \in Workers, WorkerMoves(w), Busy(w), arg[w].id = c
    PROVE  KeepInv(c)'
<1> USE ThreadFacts DEF TypeOK
<1>0. /\ jobs[c].lock = w /\ jobs[c] \in Job /\ jobs[c].state = "active"
      /\ pc[w] \in {"find", "complete", "ack", "nack"}
      /\ pc[w] = "ack" => ~Wanted(c)
      /\ pc[w] = "find" => arg[w].end = jobs[c].end
      /\ pc[w] = "complete" => Wanted(c) /\ arg[w].end = db[c].end
      /\ now' = now /\ faults' \in {faults, faults + 1} /\ faults \in Nat
      /\ w # NoLock /\ w # Orphaned
  BY WorkerAlone, NamesAssumption DEF KeepInv, HandlerKeeps, QueueType, Locked
<1>n. /\ jobs[c].tries \in Nat /\ jobs[c].stalls \in Nat
  BY <1>0 DEF Job
<1>1. ASSUME jobs'[c].lock \in {w, NoLock, Orphaned}, HandlerKeeps(w, c)',
             JobKeeps(c)'
      PROVE  KeepInv(c)'
  BY <1>0, <1>1, OwnHandler DEF KeepInv
<1>2. CASE Find(w) /\ UNCHANGED <<now, faults>>
  <2>1. /\ jobs' = jobs /\ db' = db /\ arg'[w].id = c
        /\ \/ pc'[w] = "ack" /\ ~Wanted(c)
           \/ pc'[w] = "complete" /\ Wanted(c) /\ arg'[w].end = db[c].end
    <3>1. Exists(c) /\ Schedulable(db[c]) <=> Wanted(c)
      BY DEF Exists, Schedulable, Wanted, Open
    <3>2. /\ pc[w] = "find"
          /\ jobs' = jobs /\ db' = db
      BY <1>2 DEF Find, At
    <3>3. Wanted(c) => db[c].end = arg[w].end /\ db[c].end <= now
      BY <1>0, <3>2 DEF KeepInv, JobKeeps, Kept
    <3>4. \A clock \in {t \in Date : t <= now /\ now <= t + ClockSkew} : clock = now
      BY DEF FewFailures, Date, QueueType
    <3>5. Wanted(c) => db[c].end \in Nat /\ now \in Nat
      BY <3>3, <1>0 DEF KeepInv, JobKeeps, Kept, Job, Date, QueueType
    <3>6. PICK clock \in {t \in Date : t <= now /\ now <= t + ClockSkew} :
             \/ ~Wanted(c) /\ Call(w, "ack", arg[w])
             \/ /\ Wanted(c) /\ (db[c].end # arg[w].end \/ db[c].end > clock)
                /\ Call(w, "refresh", TargetOf(c))
             \/ Wanted(c) /\ Call(w, "complete", arg[w])
      BY <1>0, <1>2, <3>1 DEF Find
    <3>7. \/ ~Wanted(c) /\ Call(w, "ack", arg[w])
          \/ Wanted(c) /\ Call(w, "complete", arg[w])
      BY <3>3, <3>4, <3>5, <3>6
    <3>8. QED
      BY <1>0, <3>2, <3>3, <3>7 DEF Call, GoTo, ThreadType
  <2>2. Wanted(c)' <=> Wanted(c)
    BY <2>1 DEF Wanted, Open
  <2>3. HandlerKeeps(w, c)'
    BY <1>0, <2>1, <2>2 DEF HandlerKeeps, Busy
  <2>4. JobKeeps(c)'
    <3>1. ~Nacked(c) /\ ~Nacked(c)'
      BY <1>0, <1>2, <2>1, OwnHandler DEF Find, At
    <3>2. Setbacks(c)' = Setbacks(c) /\ Failures' = Failures
      BY <1>2, <2>1, <3>1 DEF Setbacks, Unheld, Failures
    <3>3. QED
      BY <1>2, <2>1, <2>2, <3>2 DEF KeepInv, JobKeeps, Kept, Live
  <2>5. QED
    BY <1>0, <1>1, <2>1, <2>3, <2>4
<1>3. CASE At(w, "complete") /\ CompleteWrite(w) /\ jobs' = jobs /\ arg' = arg
           /\ pc'[w] \in {"ack", "nack"}
  <2>1. ~Wanted(c)'
    BY <1>0, <1>3 DEF CompleteWrite, Wanted, Open, TableType, Row, Fresh, Gone
  <2>2. HandlerKeeps(w, c)'
    BY <1>0, <1>3, <2>1 DEF HandlerKeeps, Busy
  <2>3. QED
    BY <1>0, <1>1, <1>3, <2>1, <2>2 DEF JobKeeps
<1>4. CASE Ack(w)
  <2>1. /\ jobs'[c] = NoJob /\ ~Wanted(c) /\ db' = db
        /\ pc'[w] = "idle"
    BY <1>0, <1>4
    DEF Ack, At, Finished, Removed, Call, GoTo, QueueType, ThreadType
  <2>2. ~Wanted(c)' /\ jobs'[c].lock = NoLock
    BY <2>1 DEF Wanted, Open, NoJob
  <2>3. HandlerKeeps(w, c)'
    BY <1>0, <2>1, <2>2 DEF HandlerKeeps, Busy
  <2>4. QED
    BY <1>1, <2>2, <2>3 DEF JobKeeps
<1>5. CASE Nack(w) /\ UNCHANGED faults
  <2>1. /\ jobs'[c] = [jobs[c] EXCEPT !.lock = NoLock, !.tries = jobs[c].tries + 1,
                          !.state = IF jobs[c].tries + 1 < Attempts
                                    THEN "delayed" ELSE "failed"]
        /\ db' = db /\ pc'[w] = "idle" /\ pc[w] = "nack"
    BY <1>0, <1>5
    DEF Nack, At, Errored, Call, GoTo, QueueType, ThreadType
  <2>2. /\ jobs'[c].lock = NoLock /\ jobs'[c].tries = jobs[c].tries + 1
        /\ jobs'[c].stalls = jobs[c].stalls /\ jobs'[c].end = jobs[c].end
        /\ jobs'[c].state = (IF jobs[c].tries + 1 < Attempts
                             THEN "delayed" ELSE "failed")
    BY <1>0, <2>1 DEF Job
  <2>3. HandlerKeeps(w, c)'
    BY <1>0, <2>1, <2>2 DEF HandlerKeeps, Busy
  <2>4. JobKeeps(c)'
    <3>1. Nacked(c) /\ ~Nacked(c)'
      BY <1>0, <2>1, <2>2, OwnHandler
    <3>2. Setbacks(c) = jobs[c].tries + 2 * jobs[c].stalls + 1
      BY <1>0, <1>n, <3>1 DEF Setbacks, Unheld
    <3>3. Setbacks(c)' = jobs[c].tries + 1 + 2 * jobs[c].stalls
      BY <1>n, <2>2, <3>1 DEF Setbacks, Unheld
    <3>4. SUFFICES ASSUME Wanted(c)'
                   PROVE  /\ Kept(c)' /\ Setbacks(c)' <= Failures'
                          /\ jobs'[c].state \in {"delayed"}
      BY DEF JobKeeps
    <3>5. Wanted(c) /\ Kept(c) /\ Setbacks(c) <= Failures
      BY <2>1, <3>4 DEF KeepInv, JobKeeps, Wanted, Open
    <3>6. jobs[c].tries + 1 < Attempts
      BY <1>n, <3>2, <3>5, ConstantsAssumption
      DEF Failures, FewFailures, Attempts
    <3>7. QED
      BY <1>n, <1>5, <2>1, <2>2, <3>2, <3>3, <3>5, <3>6 DEF Kept, Live, Failures
  <2>5. QED
    BY <1>1, <2>2, <2>3, <2>4
<1>6. CASE CallFails(w)
  <2>1. /\ pc[w] \in {"find", "complete"} /\ pc'[w] = "nack"
        /\ "call" \in FaultKinds /\ faults' = faults + 1
        /\ UNCHANGED <<jobs, db, arg>>
    BY <1>0, <1>6
    DEF CallFails, Fault, CallPc, ServicePc, GoTo, CallFailedPc, ThrowPc, At,
        ThreadType
  <2>2. Wanted(c)' <=> Wanted(c)
    BY <2>1 DEF Wanted, Open
  <2>3. HandlerKeeps(w, c)'
    BY <1>0, <2>1 DEF HandlerKeeps, Busy
  <2>4. JobKeeps(c)'
    <3>1. ~Nacked(c) /\ Nacked(c)'
      BY <1>0, <2>1, OwnHandler
    <3>2. Setbacks(c)' = Setbacks(c) + 1 /\ Failures' = Failures + 1
          /\ Setbacks(c) \in Nat /\ Failures \in Nat
      BY <1>0, <1>n, <2>1, <3>1 DEF Setbacks, Unheld, Failures
    <3>3. QED
      BY <1>0, <2>1, <2>2, <3>2 DEF KeepInv, JobKeeps, Kept, Live
  <2>5. QED
    BY <1>0, <1>1, <2>1, <2>3, <2>4
<1>7. CASE AnswerLost(w)
  <2>1. /\ jobs'[c] = [jobs[c] EXCEPT !.lock = Orphaned] /\ db' = db
        /\ pc'[w] = "idle" /\ pc[w] \in {"ack", "nack"} /\ faults' = faults + 1
    BY <1>0, <1>7 DEF AnswerLost, Fault, Abandoned, Call, GoTo, ThreadType
  <2>2. /\ jobs'[c].lock = Orphaned /\ jobs'[c].state = "active"
        /\ jobs'[c].tries = jobs[c].tries /\ jobs'[c].stalls = jobs[c].stalls
        /\ jobs'[c].end = jobs[c].end
    BY <1>0, <2>1 DEF Job
  <2>3. HandlerKeeps(w, c)'
    BY <1>0, <2>1, <2>2 DEF HandlerKeeps, Busy
  <2>4. JobKeeps(c)'
    <3>1. SUFFICES ASSUME Wanted(c)'
                   PROVE  /\ Kept(c)' /\ Setbacks(c)' <= Failures'
                          /\ jobs'[c].end <= now'
      BY DEF JobKeeps
    <3>2. Wanted(c) /\ Kept(c) /\ Setbacks(c) <= Failures /\ jobs[c].end <= now
      BY <1>0, <2>1, <3>1 DEF KeepInv, JobKeeps, Wanted, Open
    <3>3. pc[w] = "nack"
      BY <1>0, <2>1, <3>2
    <3>4. Nacked(c) /\ ~Nacked(c)'
      BY <1>0, <2>1, <2>2, <3>3, OwnHandler
    <3>5. Setbacks(c) = jobs[c].tries + 2 * jobs[c].stalls + 1
      BY <1>0, <1>n, <3>4 DEF Setbacks, Unheld
    <3>6. Setbacks(c)' = jobs[c].tries + 2 * jobs[c].stalls + 2
      BY <1>n, <2>2, <3>4, NamesAssumption DEF Setbacks, Unheld
    <3>7. Failures' = Failures + 1 /\ Failures \in Nat
      BY <1>0, <1>n, <2>1, <3>2, <3>5 DEF Failures
    <3>8. Setbacks(c)' <= Failures'
      BY <1>n, <3>2, <3>5, <3>6, <3>7
    <3>9. QED
      BY <1>0, <2>1, <2>2, <3>2, <3>8 DEF Kept, Live
  <2>5. QED
    BY <1>1, <2>2, <2>3, <2>4
<1>8. CASE Complete(w) /\ UNCHANGED faults
  <2>1. At(w, "complete") /\ StillScheduled(w)
    BY <1>0, <1>8 DEF Complete, At, StillScheduled, Wanted
  <2>2. CompleteWrite(w) /\ pc'[w] = "ack" /\ jobs' = jobs /\ arg' = arg
    BY <1>8, <2>1 DEF Complete, GoTo, ThreadType
  <2>3. QED
    BY <1>3, <2>1, <2>2
<1>9. CASE CallFailsLate(w)
  <2>1. /\ At(w, "complete") /\ CompleteWrite(w) /\ jobs' = jobs /\ arg' = arg
        /\ pc'[w] = "nack"
    BY <1>0, <1>9
    DEF CallFailsLate, At, GoTo, CallFailedPc, ThrowPc, ThreadType
  <2>2. QED
    BY <1>3, <2>1
<1>10. ~Take(w) /\ ~Latest(w) /\ ~ServiceStep(w)
  BY <1>0 DEF Take, Latest, ServiceStep, Refresh, Unschedule, Remove, Add, At, Busy
<1>11. QED
  BY <1>2, <1>4, <1>5, <1>6, <1>7, <1>8, <1>9, <1>10
  DEF WorkerMoves, Worker, ConsumerStep

(* The queue itself.                                                       *)
LEMMA QueueKeeps ==
    ASSUME TypeOK, TypeOK', NEW c \in Campaigns, KeepInv(c), FewFailures,
           NEW d \in Campaigns, Queue(d)
    PROVE  KeepInv(c)'
<1> USE DEF TypeOK
<1>1. UNCHANGED <<now, db, auto, pc, arg, bootVars, faults>>
  BY DEF Queue
<1>2. CASE jobs'[c] = jobs[c]
  <2>1. now \in Nat /\ faults \in Nat
    BY ConstantsAssumption DEF QueueType, Date
  <2>2. Elsewhere(c)
    BY <1>1, <1>2, <2>1 DEF Elsewhere, KeepInv, AllUp, Up
  <2>3. QED
    BY <2>2, ElsewhereKeeps
<1>3. CASE jobs'[c] # jobs[c]
  <2>0. /\ jobs[c] \in Job /\ jobs[c].tries \in Nat
        /\ jobs[c].stalls \in 0 .. 1 /\ d = c
        /\ \A w \in Workers : w # NoLock /\ w # Orphaned
    BY <1>3, NamesAssumption
    DEF QueueType, Job, MaxStalls, Queue, Promote, ExpireLock, RecoverStalled
  <2>1. jobs[c].lock \notin Workers
    BY <2>0 DEF Queue, Promote, ExpireLock, RecoverStalled, QueueType, Locked
  <2>2. ASSUME jobs'[c].lock \in {NoLock, Orphaned} PROVE
          /\ AllUp' /\ \A w \in Workers : HandlerKeeps(w, c)'
          /\ ~Nacked(c) /\ ~Nacked(c)'
    BY <1>1, <2>0, <2>1, <2>2
    DEF KeepInv, AllUp, Up, HandlerKeeps, Busy, Nacked
  <2>3. Wanted(c)' <=> Wanted(c)
    BY <1>1 DEF Wanted, Open
  <2>4. CASE Promote(c)
    <3>1. /\ jobs'[c] = [jobs[c] EXCEPT !.state = "waiting"]
          /\ jobs[c].state = "delayed" /\ jobs[c].end <= now
          /\ jobs[c].lock = NoLock
      BY <2>4 DEF Promote, QueueType, Locked
    <3>2. /\ jobs'[c].lock = NoLock /\ jobs'[c].state = "waiting"
          /\ jobs'[c].tries = jobs[c].tries /\ jobs'[c].stalls = jobs[c].stalls
          /\ jobs'[c].end = jobs[c].end
      BY <2>0, <3>1 DEF Job
    <3>3. Setbacks(c)' = Setbacks(c) /\ Failures' = Failures
      BY <1>1, <2>2, <3>1, <3>2 DEF Setbacks, Unheld, Failures
    <3>4. JobKeeps(c)'
      BY <1>1, <2>3, <3>1, <3>2, <3>3 DEF KeepInv, JobKeeps, Kept, Live
    <3>5. QED
      BY <2>2, <3>2, <3>4 DEF KeepInv
  <2>5. CASE ExpireLock(c)
    <3>1. jobs'[c] = [jobs[c] EXCEPT !.lock = NoLock] /\ jobs[c].lock = Orphaned
      BY <2>5 DEF ExpireLock, QueueType
    <3>2. /\ jobs'[c].lock = NoLock /\ jobs'[c].state = jobs[c].state
          /\ jobs'[c].tries = jobs[c].tries /\ jobs'[c].stalls = jobs[c].stalls
          /\ jobs'[c].end = jobs[c].end
      BY <2>0, <3>1 DEF Job
    <3>3. Setbacks(c)' = Setbacks(c) /\ Failures' = Failures
      BY <1>1, <2>0, <2>1, <2>2, <3>2 DEF Setbacks, Unheld, Failures
    <3>4. JobKeeps(c)'
      BY <1>1, <2>3, <3>2, <3>3 DEF KeepInv, JobKeeps, Kept, Live
    <3>5. QED
      BY <2>2, <3>2, <3>4 DEF KeepInv
  <2>6. CASE RecoverStalled(c)
    <3>1. /\ jobs[c].state = "active" /\ jobs[c].lock = NoLock
          /\ jobs'[c] = IF jobs[c].stalls < MaxStalls
                        THEN [jobs[c] EXCEPT !.state = "waiting",
                                             !.stalls = jobs[c].stalls + 1]
                        ELSE [jobs[c] EXCEPT !.state = "failed"]
      BY <2>6 DEF RecoverStalled, QueueType, Locked
    <3>2. jobs'[c].lock = NoLock
      BY <2>0, <3>1 DEF Job
    <3>3. ~Nacked(c) /\ ~Nacked(c)'
      BY <2>2, <3>2
    <3>4. Setbacks(c) = jobs[c].tries + 2 * jobs[c].stalls + 2
      BY <2>0, <2>1, <3>1, <3>3 DEF Setbacks, Unheld
    <3>5. JobKeeps(c)'
      <4>1. SUFFICES ASSUME Wanted(c)'
                     PROVE  /\ Kept(c)' /\ Setbacks(c)' <= Failures'
                            /\ jobs'[c].end <= now'
        BY DEF JobKeeps
      <4>2. /\ Wanted(c) /\ Kept(c) /\ Setbacks(c) <= Failures
            /\ jobs[c].end <= now
        BY <2>3, <3>1, <4>1 DEF KeepInv, JobKeeps
      <4>3. Failures \in 0 .. 2
        BY ConstantsAssumption DEF Failures, FewFailures, Attempts
      <4>4. jobs[c].stalls = 0
        BY <2>0, <3>4, <4>2, <4>3
      <4>5. /\ jobs'[c].state = "waiting" /\ jobs'[c].stalls = 1
            /\ jobs'[c].tries = jobs[c].tries /\ jobs'[c].end = jobs[c].end
        BY <2>0, <3>1, <4>4 DEF Job, MaxStalls
      <4>6. Setbacks(c)' = jobs[c].tries + 2
        BY <2>0, <3>3, <4>5 DEF Setbacks, Unheld
      <4>7. Setbacks(c)' <= Failures'
        BY <1>1, <2>0, <3>4, <4>2, <4>3, <4>4, <4>6 DEF Failures
      <4>8. QED
        BY <1>1, <4>2, <4>5, <4>7 DEF Kept, Live
    <3>6. QED
      BY <2>2, <3>2, <3>5 DEF KeepInv
  <2>7. QED
    BY <2>0, <2>4, <2>5, <2>6 DEF Queue
<1>4. QED
  BY <1>2, <1>3

----------------------------------------------------------------------------
LEMMA KeepStep ==
    ASSUME TypeOK, TypeOK', NEW c \in Campaigns, KeepInv(c), FewFailures,
           Untouched(c), Untouched(c)', [Next]_vars
    PROVE  KeepInv(c)'
<1> USE ThreadFacts DEF TypeOK
<1>1. ASSUME NEW r \in Requests,
             Request(r) \/ CallFails(r) \/ CallFailsLate(r)
      PROVE  KeepInv(c)'
  <2>1. Elsewhere(c)
    BY <1>1, RequestElsewhere
  <2>2. QED
    BY <2>1, ElsewhereKeeps
<1>2. ASSUME NEW w \in Workers, WorkerMoves(w) PROVE KeepInv(c)'
  <2>1. CASE Busy(w) /\ arg[w].id = c
    BY <1>2, <2>1, HandlerStepKeeps
  <2>2. CASE ~(Busy(w) /\ arg[w].id = c) /\ (Take(w) => jobs'[c] = jobs[c])
    <3>1. Elsewhere(c)
      BY <1>2, <2>2, WorkerElsewhere
    <3>2. QED
      BY <3>1, ElsewhereKeeps
  <2>3. CASE ~(Busy(w) /\ arg[w].id = c) /\ Take(w) /\ jobs'[c] # jobs[c]
    <3>1. Worker(w)
      BY <1>2, <2>3 DEF WorkerMoves, CallFails, CallFailsLate, AnswerLost, CallPc,
         ServicePc, At, Take
    <3>2. QED
      BY <2>3, <3>1, TakeKeeps
  <2>4. QED
    BY <2>1, <2>2, <2>3
<1>3. ASSUME NEW w \in Workers,
             Initializer(w) \/ Restart(w) \/ CallFails(Boot(w))
               \/ CallFailsLate(Boot(w))
      PROVE  FALSE
  <2>1. pc[Boot(w)] = "done" /\ Up(w)
    BY DEF KeepInv, AllUp
  <2>2. QED
    BY <1>3, <2>1
    DEF Initializer, BootStep, ListRows, ListJobs, VisitRow, VisitOrphan, BootDone,
        BootExit, ServiceStep, Refresh, Unschedule, Remove, Add, Restart, Start,
        CallFails, CallFailsLate, CallPc, ServicePc, At
<1>4. CASE Time \/ UNCHANGED vars
  <2>1. now \in Nat /\ faults \in Nat
    BY ConstantsAssumption DEF QueueType, Date
  <2>2. now <= now' /\ UNCHANGED <<jobs, db, pc, arg, faults>>
    BY <1>4, <2>1 DEF Time, Tick, vars, bootVars
  <2>3. Elsewhere(c)
    BY <2>1, <2>2 DEF Elsewhere, KeepInv, AllUp, Up
  <2>4. QED
    BY <2>3, ElsewhereKeeps
<1>5. ASSUME AnyFault PROVE KeepInv(c)'
  <2>1. /\ \A r \in Requests : ~ApiDies(r)
        /\ \A w \in Workers : ~WorkerDies(w)
        /\ \A d \in Campaigns : ~LockLost(d)
    BY DEF FewFailures, ApiDies, WorkerDies, LockLost, Fault
  <2>2. \/ \E t \in Threads : CallFails(t) \/ CallFailsLate(t)
        \/ \E w \in Workers : AnswerLost(w)
    BY <1>5, <2>1 DEF AnyFault
  <2>3. QED
    BY <1>1, <1>2, <1>3, <2>2 DEF Threads, Boots, WorkerMoves
<1>6. QED
  BY <1>1, <1>2, <1>3, <1>4, <1>5, QueueKeeps DEF Next, WorkerMoves

LEMMA KeepInit ==
    ASSUME InitUp, NEW c \in Campaigns
    PROVE  KeepInv(c)
<1> USE ThreadFacts DEF InitUp, InitThreads, InitInStep
<1>1. AllUp /\ \A w \in Workers : pc[w] = "idle"
  BY NamesAssumption DEF AllUp, Up, Threads
<1>2. jobs[c] = IF Schedulable(db[c]) THEN NewJob(db[c].end) ELSE NoJob
  OBVIOUS
<1>3. jobs[c].lock = NoLock
  BY <1>2 DEF NewJob, NoJob
<1>4. \A w \in Workers : HandlerKeeps(w, c)
  BY <1>1, <1>3, NamesAssumption DEF HandlerKeeps, Busy
<1>5. ASSUME Wanted(c)
      PROVE  /\ Kept(c) /\ Setbacks(c) <= Failures
             /\ jobs[c].state \in {"waiting", "active"} => jobs[c].end <= now
  <2>1. Schedulable(db[c])
    BY <1>5 DEF Wanted, Open, Schedulable
  <2>2. jobs[c] = NewJob(db[c].end)
    BY <1>2, <2>1
  <2>3. /\ jobs[c].end = db[c].end /\ jobs[c].tries = 0 /\ jobs[c].stalls = 0
        /\ jobs[c].state = (IF db[c].end <= now THEN "waiting" ELSE "delayed")
    BY <2>2 DEF NewJob
  <2>4. ~Nacked(c) /\ ~Unheld(c)
    BY <1>1, <2>3 DEF Nacked, Unheld
  <2>5. Setbacks(c) = 0 /\ Failures = 0
    BY <2>3, <2>4 DEF Setbacks, Failures
  <2>6. QED
    BY <2>3, <2>5 DEF Kept, Live
<1>6. QED
  BY <1>1, <1>4, <1>5 DEF KeepInv, JobKeeps

(* A campaign whose job waits for its date is kept from now on: the job is *)
(* not locked, so no handler is at work on it, and nothing happened to it. *)
LEMMA ScheduledKeeps ==
    ASSUME TypeOK, LockHeld, AllUp, FewFailures, NEW c \in Campaigns,
           Scheduled(c)
    PROVE  KeepInv(c)
<1> USE DEF TypeOK
<1>1. jobs[c].lock = NoLock
  BY DEF Scheduled, QueueType, Locked
<1>2. ASSUME NEW w \in Workers PROVE jobs[c].lock # w
  BY <1>1, NamesAssumption
<1>3. \A w \in Workers : HandlerKeeps(w, c)
  BY <1>2 DEF HandlerKeeps, LockHeld, FewFailures
<1>4. ~Nacked(c) /\ ~Unheld(c)
  BY <1>2 DEF Nacked, Unheld, Scheduled
<1>5. Setbacks(c) = 0 /\ Failures \in Nat
  BY <1>4, ConstantsAssumption DEF Setbacks, Scheduled, Failures
<1>6. QED
  BY <1>3, <1>5 DEF KeepInv, JobKeeps, Scheduled

(* Nothing that may happen takes a worker down.                            *)
LEMMA AllUpStep ==
    ASSUME TypeOK, AllUp, FewFailures, [Next]_vars
    PROVE  AllUp'
<1> USE ThreadFacts DEF TypeOK, ThreadType
<1>1. ASSUME NEW t \in Threads, \A b \in Boots : t # b,
             t \in Workers => pc'[t] # "down",
             \A s \in Threads \ {t} : pc'[s] = pc[s]
      PROVE  AllUp'
  BY <1>1 DEF AllUp, Up, Boots, Threads
<1>2. ASSUME NEW r \in Requests,
             Request(r) \/ CallFails(r) \/ CallFailsLate(r)
      PROVE  AllUp'
  <2>1. \A s \in Threads \ {r} : pc'[s] = pc[s]
    BY <1>2
    DEF Request, RequestStep, Create, UpdateFind, Update, DeleteFind, Delete,
        ServiceStep, Refresh, Unschedule, Remove, Add, CallFails, CallFailsLate,
        Call, GoTo
  <2>2. QED
    BY <1>1, <2>1, NamesAssumption
<1>3. ASSUME NEW w \in Workers, WorkerMoves(w) PROVE AllUp'
  BY <1>1, <1>3, WorkerAlone, NamesAssumption
<1>4. ASSUME NEW w \in Workers,
             Initializer(w) \/ Restart(w) \/ CallFails(Boot(w))
               \/ CallFailsLate(Boot(w))
      PROVE  FALSE
  <2>1. pc[Boot(w)] = "done" /\ Up(w)
    BY DEF AllUp
  <2>2. QED
    BY <1>4, <2>1
    DEF Initializer, BootStep, ListRows, ListJobs, VisitRow, VisitOrphan, BootDone,
        BootExit, ServiceStep, Refresh, Unschedule, Remove, Add, Restart, Start,
        CallFails, CallFailsLate, CallPc, ServicePc, At
<1>5. ASSUME pc' = pc PROVE AllUp'
  BY <1>5 DEF AllUp, Up
<1>6. CASE AnyFault
  <2>1. /\ \A r \in Requests : ~ApiDies(r)
        /\ \A w \in Workers : ~WorkerDies(w)
        /\ \A d \in Campaigns : ~LockLost(d)
    BY DEF FewFailures, ApiDies, WorkerDies, LockLost, Fault
  <2>2. \/ \E t \in Threads : CallFails(t) \/ CallFailsLate(t)
        \/ \E w \in Workers : AnswerLost(w)
    BY <1>6, <2>1 DEF AnyFault
  <2>3. QED
    BY <1>2, <1>3, <1>4, <2>2 DEF Threads, Boots, WorkerMoves
<1>7. CASE Time \/ UNCHANGED vars \/ \E d \in Campaigns : Queue(d)
  BY <1>5, <1>7 DEF Time, vars, Queue
<1>8. QED
  BY <1>2, <1>3, <1>4, <1>6, <1>7 DEF Next, WorkerMoves

(* From the moment the last request has left a scheduled campaign alone,   *)
(* the campaign has its job until it is completed: for any number of       *)
(* workers and campaigns, whatever the requests do to the other campaigns, *)
(* through any number of lost answers and as many rejected calls as a job  *)
(* has further attempts (campaign-expiration.consumer.ts 40-83, attempts   *)
(* of the scheduler's options).                                            *)
THEOREM UntouchedIsKept ==
    ASSUME FewFailures
    PROVE  SpecUp => UntouchedKept
<1>1. InitUp => AllUp /\ LockHeld
  <2>1. InitUp => \A w \in Workers : pc[w] = "idle" /\ pc[Boot(w)] = "done"
    BY ThreadFacts, NamesAssumption DEF InitUp, InitThreads, Threads
  <2>2. QED
    BY <2>1 DEF AllUp, Up, LockHeld, Busy
<1>2. TypeOK /\ AllUp /\ [Next]_vars => AllUp'
  BY AllUpStep
<1>3. TypeOK /\ LockHeld /\ [Next]_vars => LockHeld'
  BY LockHeldStep
<1>4. SpecUp => [](TypeOK /\ AllUp /\ LockHeld)
  BY <1>1, <1>2, <1>3, TypeCorrect, PTL DEF SpecUp
<1>5. ASSUME NEW c \in Campaigns
      PROVE  SpecUp => [](Scheduled(c) /\ []Untouched(c)
                             => [](Wanted(c) => Kept(c)))
  <2>1. TypeOK /\ AllUp /\ LockHeld /\ Scheduled(c) => KeepInv(c)
    BY ScheduledKeeps
  <2>2. /\ TypeOK /\ TypeOK' /\ KeepInv(c) /\ Untouched(c) /\ Untouched(c)'
        /\ [Next]_vars
        => KeepInv(c)'
    BY KeepStep
  <2>3. KeepInv(c) => (Wanted(c) => Kept(c))
    BY DEF KeepInv, JobKeeps
  <2>4. QED
    BY <1>4, <2>1, <2>2, <2>3, PTL DEF SpecUp
<1>6. QED
  BY <1>5 DEF UntouchedKept

(* Every schedule is kept.                                                 *)
AllKept == \A c \in Campaigns : KeepInv(c)

(* Workers alone lose no schedule at all: NoLostSchedule fails only where  *)
(* requests overlap.                                                       *)
COROLLARY WorkersLoseNothing ==
    ASSUME FewFailures, Requests = {}
    PROVE  SpecUp => []NoLostSchedule
<1>1. InitUp => AllKept
  BY KeepInit DEF AllKept
<1>2. TypeOK /\ TypeOK' /\ AllKept /\ [Next]_vars => AllKept'
  <2> SUFFICES ASSUME TypeOK, TypeOK', AllKept, [Next]_vars,
                      NEW c \in Campaigns
               PROVE  KeepInv(c)'
    BY DEF AllKept
  <2>1. Untouched(c) /\ Untouched(c)'
    BY DEF Untouched
  <2>2. KeepInv(c)
    BY DEF AllKept
  <2>3. QED
    BY <2>1, <2>2, KeepStep
<1>3. AllKept => NoLostSchedule
  BY DEF AllKept, KeepInv, JobKeeps, NoLostSchedule, Wanted, Kept
<1>4. QED
  BY <1>1, <1>2, <1>3, TypeCorrect, PTL DEF SpecUp
=============================================================================
