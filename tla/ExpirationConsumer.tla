------------------------- MODULE ExpirationConsumer -------------------------
(***************************************************************************)
(* CampaignExpirationConsumer: the handler a worker runs for each job, one *)
(* job at a time.  While the handler of w runs, arg[w] is the job's data   *)
(* until a row is passed on to the scheduler service.                      *)
(*                                                                         *)
(*   "idle" -> "find" -> "complete" -> "latest"                            *)
(*                                                                         *)
(* each with the ways out "ack" (the handler returned), "nack" (it threw)  *)
(* and a call of refreshCampaignSchedule.                                  *)
(***************************************************************************)
EXTENDS ExpirationScheduler

CONSTANTS
    ClockSkew   \* how far a worker's clock may be behind the queue's

\* A process that is up: its handler is somewhere.
Up(w) == pc[w] # "down"
Busy(w) == pc[w] \notin {"down", "idle"}

Take(w) ==
    /\ At(w, "idle")
    /\ \E c \in Campaigns :
         /\ jobs[c].state = "waiting"
         /\ jobs' = Claimed(c, w)
         /\ Call(w, "find", [id |-> c, end |-> jobs[c].end, status |-> "OPEN"])
    /\ UNCHANGED <<db, auto>>

\* Mutant of Find: a job that runs on the dot is taken to be early.
FindOffByOne(w) ==
    LET c == arg[w].id IN
    /\ At(w, "find")
    /\ \E clock \in {t \in Date : t <= now /\ now <= t + ClockSkew} :
         \/ /\ ~(Exists(c) /\ Schedulable(db[c]))
            /\ Call(w, "ack", arg[w])
         \/ /\ Exists(c) /\ Schedulable(db[c])
            /\ db[c].end # arg[w].end \/ db[c].end >= clock
            /\ Call(w, "refresh", TargetOf(c))
         \/ /\ Exists(c) /\ Schedulable(db[c])
            /\ db[c].end = arg[w].end /\ db[c].end < clock
            /\ Call(w, "complete", arg[w])
    /\ UNCHANGED <<jobs, db, auto>>

\* The first findUnique and the checks made on its answer.
Find(w) ==
    LET c == arg[w].id IN
    /\ At(w, "find")
    /\ \E clock \in {t \in Date : t <= now /\ now <= t + ClockSkew} :
         \/ /\ ~(Exists(c) /\ Schedulable(db[c]))
            /\ Call(w, "ack", arg[w])
         \/ /\ Exists(c) /\ Schedulable(db[c])
            /\ db[c].end # arg[w].end \/ db[c].end > clock
            /\ Call(w, "refresh", TargetOf(c))
         \/ /\ Exists(c) /\ Schedulable(db[c])
            /\ db[c].end = arg[w].end /\ db[c].end <= clock
            /\ Call(w, "complete", arg[w])
    /\ UNCHANGED <<jobs, db, auto>>

\* Mutant of StillScheduled: updateMany by id and status only.
StillOpen(w) == Open(arg[w].id)

\* The row updateMany is restricted to: the same end date, still open.
StillScheduled(w) ==
    LET c == arg[w].id IN Open(c) /\ db[c].end = arg[w].end

CompleteWrite(w) ==
    /\ db' = [db EXCEPT ![arg[w].id].status = "COMPLETED"]
    /\ auto' = auto \union {arg[w].id}

Complete(w) ==
    /\ At(w, "complete")
    /\ IF StillScheduled(w)
       THEN CompleteWrite(w) /\ GoTo(w, "ack")
       ELSE GoTo(w, "latest") /\ UNCHANGED <<db, auto>>
    /\ UNCHANGED <<jobs, arg>>

Latest(w) ==
    LET c == arg[w].id IN
    /\ At(w, "latest")
    /\ IF Exists(c)
       THEN Call(w, RefreshPc(db[c]), TargetOf(c))
       ELSE Call(w, "ack", arg[w])
    /\ UNCHANGED <<jobs, db, auto>>

\* BullMQ's bookkeeping once the handler has returned or thrown.
Ack(w) ==
    /\ At(w, "ack")
    /\ jobs' = Finished(arg[w].id, w)
    /\ Call(w, "idle", Nothing)
    /\ UNCHANGED <<db, auto>>

Nack(w) ==
    /\ At(w, "nack")
    /\ jobs' = Errored(arg[w].id, w)
    /\ Call(w, "idle", Nothing)
    /\ UNCHANGED <<db, auto>>

ConsumerStep(w) ==
    \/ Take(w) \/ Find(w) \/ Complete(w) \/ Latest(w) \/ Ack(w) \/ Nack(w)
    \/ ServiceStep(w) /\ UNCHANGED <<db, auto>>

----------------------------------------------------------------------------
(* The worker process, worker.ts: the job handler and the initializer run  *)
(* side by side from the start, and both die with the process.             *)

Start(w) ==
    /\ ~Up(w)
    /\ pc' = [pc EXCEPT ![w] = "idle", ![Boot(w)] = "list"]
    /\ UNCHANGED <<jobs, db, auto, arg, bootRows, bootJobs>>

Stop(w) ==
    /\ pc' = [pc EXCEPT ![w] = "down", ![Boot(w)] = "off"]
    /\ arg' = [arg EXCEPT ![w] = Nothing, ![Boot(w)] = Nothing]
    /\ bootRows' = [bootRows EXCEPT ![w] = {}]
    /\ bootJobs' = [bootJobs EXCEPT ![w] = {}]
    /\ jobs' = Abandoned(w)
    /\ UNCHANGED <<db, auto>>

\* The initializer threw: process.exit(1).
BootExit(w) == At(Boot(w), "exit") /\ Stop(w)
=============================================================================
