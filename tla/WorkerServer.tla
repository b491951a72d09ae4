---------------------------- MODULE WorkerServer -----------------------------
(***************************************************************************)
(* The worker: Server.ExecuteTask and Server.runJob                        *)
(* (internal/worker/server.go), the end of the worker process              *)
(* (cmd/worker/main.go), and the execution records in etcd.                *)
(*                                                                         *)
(* An execution is one accepted request: a goroutine that saves a "running" *)
(* record, takes the job's lock if the policy is Forbid, runs the executor, *)
(* and then, in deferred functions, unlocks, sets the status and saves the  *)
(* final record.  The lock is that of EtcdLocker, whose steps this      *)
(* module takes for the execution that called it.                           *)
(***************************************************************************)
EXTENDS EtcdLocker

CONSTANTS
  Endings,  \* how the executor may end
  Policies, \* the concurrency policies that tasks come with
  Worker,   \* worker processes; a restarted worker is a new one (new uuid)
  NoTask    \* stands for "nothing to run yet"

VARIABLES
  process,  \* process[w]: the state of worker process w
  task,     \* task[e]: what e was asked to run and by which worker, or NoTask
  pc,       \* pc[e]: where runJob is
  outcome,  \* outcome[e]: how the body of runJob ended
  history,  \* history[e]: the status of e's record in etcd
  late,     \* the executions whose first save was given up but may yet reach etcd
  status,   \* status[e]: record.Status, in memory while runJob runs
  reported  \* the executions one of whose saves returned an error, which is logged

serverVars == <<process, task, pc, outcome, history, late, status, reported>>
vars == <<lockerVars, serverVars>>

Tasks    == [job : Name, policy : Policies, worker : Worker]

ASSUME EndingAssumption == Endings \subseteq {"ok", "error", "panic"}
ASSUME PolicyAssumption == Policies \subseteq {"Allow", "Forbid"}
ASSUME NoTaskAssumption == NoTask \notin Tasks

Processes == {"serving", "draining", "exited", "crashed"}
PCs       == {"unassigned", "accepted", "recorded", "locking", "executing",
              "unlocking", "deciding", "finishing", "finished", "killed"}
Outcomes  == {"none", "ok", "error", "panic", "skipped"}
Statuses  == {"absent", "running", "success", "failed"}
Final     == {"success", "failed"}

Forbids(e) == task[e] # NoTask /\ task[e].policy = "Forbid"

\* The executions whose goroutine runs in worker process w.
Running(w) == {e \in Exec : /\ task[e] # NoTask
                            /\ task[e].worker = w
                            /\ pc[e] \notin {"finished", "killed"}}

Init ==
  /\ LockerInit
  /\ process = [w \in Worker |-> "serving"]
  /\ task    = [e \in Exec |-> NoTask]
  /\ pc      = [e \in Exec |-> "unassigned"]
  /\ outcome = [e \in Exec |-> "none"]
  /\ history = [e \in Exec |-> "absent"]
  /\ late    = {}
  /\ status  = [e \in Exec |-> "absent"]
  /\ reported = {}

Goto(e, from, to) ==
  /\ pc[e] = from
  /\ pc' = [pc EXCEPT ![e] = to]

\* Faulty variant of Deferred: the save is deferred last and so runs before the
\* status is set.
DeferredSaveFirst == <<"unlocking", "finishing", "deciding">>

\* The order in which the deferred functions of runJob run: the last deferred
\* comes first, and Unlock was deferred only if the lock was taken.
Deferred == <<"unlocking", "deciding", "finishing">>

\* What follows the deferred function step.
After(step) == IF step = Deferred[1] THEN Deferred[2]
               ELSE IF step = Deferred[2] THEN Deferred[3] ELSE "finished"

-----------------------------------------------------------------------------
(* ExecuteTask and runJob *)

\* The RPC is acknowledged and the goroutine of runJob starts.  (A request that
\* protoToDomain refuses changes nothing.)
ExecuteTask(e, w) ==
  /\ process[w] = "serving"
  /\ Goto(e, "unassigned", "accepted")
  /\ \E j \in Name, p \in Policies :
        task' = [task EXCEPT ![e] = [job |-> j, policy |-> p, worker |-> w]]
  /\ UNCHANGED <<lockerVars, process, outcome, history, late, status, reported>>

\* The initial "running" record; the job goes on if Save returns an error, though
\* the put may still be applied, at once or late (LateSave).
SaveRunning(e) ==
  /\ Goto(e, "accepted", "recorded")
  /\ status' = [status EXCEPT ![e] = "running"]
  /\ \/ /\ history' = [history EXCEPT ![e] = "running"]
        /\ UNCHANGED <<late, reported>>
     \/ /\ late' = late \cup {e}
        /\ reported' = reported \cup {e}
        /\ UNCHANGED history
  /\ UNCHANGED <<lockerVars, process, task, outcome>>

\* Policy Forbid: call Lock with the job's name.
StartLock(e) ==
  /\ Forbids(e)
  /\ Goto(e, "recorded", "locking")
  /\ NewSession(e, task[e].job) \/ NewSessionFails(e, task[e].job)
  /\ UNCHANGED <<process, task, outcome, history, late, status, reported>>

\* Any other policy: no lock.
StartUnlocked(e) ==
  /\ ~Forbids(e)
  /\ Goto(e, "recorded", "executing")
  /\ UNCHANGED <<lockerVars, process, task, outcome, history, late, status, reported>>

\* Faulty variant of InsideLocker: a refused Lock is tried again in the session
\* that it has closed.
InsideLockerRetrying(e) ==
  /\ \/ /\ pc[e] \in {"locking", "unlocking"}
        /\ TryLock(e) \/ TryLockFails(e) \/ DeleteOwnKey(e) \/ CloseSession(e)
     \/ /\ pc[e] = "locking" /\ stage[e] = "done"
        /\ stage' = [stage EXCEPT ![e] = "trying"]
        /\ UNCHANGED <<name, lease, keys, inflight, result>>
  /\ UNCHANGED serverVars

\* The steps inside Lock, and of the session closed by Unlock.
InsideLocker(e) ==
  /\ pc[e] \in {"locking", "unlocking"}
  /\ TryLock(e) \/ TryLockFails(e) \/ DeleteOwnKey(e) \/ CloseSession(e)
  /\ UNCHANGED serverVars

\* Lock returned a lock.
Locked(e) ==
  /\ stage[e] = "held"
  /\ Goto(e, "locking", "executing")
  /\ UNCHANGED <<lockerVars, process, task, outcome, history, late, status, reported>>

\* Lock returned an error: the execution is skipped, with no Unlock to run.
SkipExecution(e) ==
  /\ stage[e] = "done"
  /\ Goto(e, "locking", After("unlocking"))
  /\ outcome' = [outcome EXCEPT ![e] = "skipped"]
  /\ UNCHANGED <<lockerVars, process, task, history, late, status, reported>>

\* Faulty variant of ExecutorEnds: Unlock is called after the executor and not
\* deferred, so that a panic passes it by.
ExecutorEndsUndeferred(e) ==
  /\ \E o \in Endings :
       /\ outcome' = [outcome EXCEPT ![e] = o]
       /\ Goto(e, "executing",
               IF Forbids(e) /\ o # "panic" THEN "unlocking" ELSE After("unlocking"))
  /\ UNCHANGED <<lockerVars, process, task, history, late, status, reported>>

\* The executor returns or panics; the deferred functions run from here on,
\* Unlock first.
ExecutorEnds(e) ==
  /\ Goto(e, "executing", IF Forbids(e) THEN "unlocking" ELSE After("unlocking"))
  /\ \E o \in Endings : outcome' = [outcome EXCEPT ![e] = o]
  /\ UNCHANGED <<lockerVars, process, task, history, late, status, reported>>

UnlockJob(e) ==
  /\ pc[e] = "unlocking"
  /\ Unlock(e)
  /\ UNCHANGED serverVars

Unlocked(e) ==
  /\ stage[e] = "done"
  /\ Goto(e, "unlocking", After("unlocking"))
  /\ UNCHANGED <<lockerVars, process, task, outcome, history, late, status, reported>>

\* What the deferred function that looks at execErr makes of the outcome; it sees
\* no error when the executor panicked.
DecidedStatus(o) == IF o \in {"error", "skipped"} THEN "failed" ELSE "success"

DecideStatus(e) ==
  /\ Goto(e, "deciding", After("deciding"))
  /\ status' = [status EXCEPT ![e] = DecidedStatus(outcome[e])]
  /\ UNCHANGED <<lockerVars, process, task, outcome, history, late, reported>>

\* Faulty variant of FinalStatus: the outcome itself is stored.
FinalStatusIsOutcome(e) == outcome[e]

\* Faulty variant of FinalStatus: the recovered panic is not recorded.
FinalStatusIgnoresPanic(e) == status[e]

\* The status that is saved in the end: the deferred function that recovers from
\* a panic sets it to failed, and otherwise takes it as it finds it.
FinalStatus(e) == IF outcome[e] = "panic" THEN "failed" ELSE status[e]

\* The final Save: the put is applied if no error is returned, and may or may not
\* be if one is, which runJob only logs.
SaveFinal(e) ==
  LET applied == [history EXCEPT ![e] = FinalStatus(e)]
  IN  \/ history' = applied /\ UNCHANGED reported
      \/ history' \in {history, applied} /\ reported' = reported \cup {e}

\* Faulty variant of Finish: a failed execution runs again under the same record.
FinishAndRetry(e) ==
  /\ Goto(e, "finishing", IF outcome[e] = "error" THEN "accepted" ELSE After("finishing"))
  /\ SaveFinal(e)
  /\ UNCHANGED <<lockerVars, process, task, outcome, late, status>>

\* The outermost deferred function recovers, if need be, and saves the record.
Finish(e) ==
  /\ Goto(e, "finishing", After("finishing"))
  /\ SaveFinal(e)
  /\ UNCHANGED <<lockerVars, process, task, outcome, late, status>>

-----------------------------------------------------------------------------
(* The worker process *)

\* SIGINT or SIGTERM: GracefulStop refuses new requests; it waits for the RPC
\* handlers, which have answered, and not for the goroutines of runJob.
Shutdown(w) ==
  /\ process[w] = "serving"
  /\ process' = [process EXCEPT ![w] = "draining"]
  /\ UNCHANGED <<lockerVars, task, pc, outcome, history, late, status, reported>>

\* The process ends, and every goroutine, its record and lease renewal
\* with it: main returns after GracefulStop and Deregister, or the process
\* crashes at any moment.
EndProcess(w, how) ==
  /\ process' = [process EXCEPT ![w] = how]
  /\ pc'      = [e \in Exec |-> IF e \in Running(w) THEN "killed" ELSE pc[e]]
  /\ status'  = [e \in Exec |-> IF e \in Running(w) THEN "absent" ELSE status[e]]
  /\ ProcessExit({e \in Running(w) : Active(e)})
  /\ UNCHANGED <<task, outcome, history, late, reported>>

Exit(w)  == process[w] = "draining" /\ EndProcess(w, "exited")
Crash(w) == process[w] \in {"serving", "draining"} /\ EndProcess(w, "crashed")

\* etcd: a lease expires, or a given-up request arrives.
EtcdStep(e) ==
  /\ LeaseExpires(e) \/ LateTryLock(e)
  /\ UNCHANGED serverVars

\* etcd applies a first save that the worker has given up.
LateSave(e) ==
  /\ e \in late
  /\ late'    = late \ {e}
  /\ history' = [history EXCEPT ![e] = "running"]
  /\ UNCHANGED <<lockerVars, process, task, pc, outcome, status, reported>>

-----------------------------------------------------------------------------
RunJob(e) ==
  \/ SaveRunning(e)
  \/ StartLock(e)
  \/ StartUnlocked(e)
  \/ InsideLocker(e)
  \/ Locked(e)
  \/ SkipExecution(e)
  \/ ExecutorEnds(e)
  \/ UnlockJob(e)
  \/ Unlocked(e)
  \/ DecideStatus(e)
  \/ Finish(e)

Next ==
  \/ \E e \in Exec, w \in Worker : ExecuteTask(e, w)
  \/ \E e \in Exec : RunJob(e)
  \/ \E e \in Exec : EtcdStep(e)
  \/ \E e \in Exec : LateSave(e)
  \/ \E w \in Worker : Shutdown(w)
  \/ \E w \in Worker : Exit(w)
  \/ \E w \in Worker : Crash(w)

Spec == Init /\ [][Next]_vars

\* The goroutine of runJob is scheduled, etcd answers or refuses each request
\* (TryLock, Unlock and the revocation have deadlines of their own), and the
\* executor ends: HTTP tasks have a client timeout, shell commands are assumed
\* to end.  A lease that nobody renews expires.  Nothing makes the master send a
\* task, a worker stop, a late request arrive or a renewed lease expire.
Fairness ==
  \A e \in Exec : /\ WF_vars(RunJob(e))
                  /\ WF_vars(lease[e] = "orphaned" /\ EtcdStep(e))

FairSpec == Spec /\ Fairness

-----------------------------------------------------------------------------
(* Properties *)

TypeOK ==
  /\ LockerTypeOK
  /\ process \in [Worker -> Processes]
  /\ task    \in [Exec -> Tasks \cup {NoTask}]
  /\ pc      \in [Exec -> PCs]
  /\ outcome \in [Exec -> Outcomes]
  /\ history \in [Exec -> Statuses]
  /\ late    \in SUBSET Exec
  /\ status  \in [Exec -> Statuses]
  /\ reported \in SUBSET Exec

\* Two executions of one job under the Forbid policy never run their executors
\* together while both still have the lease of their lock.
ForbidExclusiveUnderLease ==
  \A e, f \in Exec :
    /\ e # f
    /\ Forbids(e) /\ Forbids(f) /\ task[e].job = task[f].job
    /\ pc[e] = "executing" /\ pc[f] = "executing"
    => lease[e] = "gone" \/ lease[f] = "gone"

\* No way through runJob keeps the lock: an execution that is about to set and save
\* its final status, after a skip, an error or a panic as well, is done with the
\* locker, and one that runs a Forbid job has not let go of the lock.
LockCoversExecution ==
  \A e \in Exec :
    /\ pc[e] \in {"deciding", "finishing", "finished"} => ~Active(e)
    /\ pc[e] = "executing" /\ Forbids(e) => stage[e] = "held"

\* The record in etcd tells what happened: "success" only if the executor
\* returned without an error, "failed" only if it did not, and neither before.
HistoryIsTruthful ==
  \A e \in Exec :
    /\ history[e] = "success" => outcome[e] = "ok"
    /\ history[e] = "failed"  => outcome[e] \in {"error", "panic", "skipped"}

\* An execution that finished without being told of a failed save has its final
\* status in etcd, and goes on having it: the status was set before the save (the
\* deferred functions run in the right order), a panic was not taken for a success,
\* and no earlier save of the execution is still under way.
CleanRunIsRecorded ==
  \A e \in Exec :
    pc[e] = "finished" /\ e \notin reported
      => history[e] = IF outcome[e] = "ok" THEN "success" ELSE "failed"

\* A record that has its final status keeps it, unless the first save of the
\* same execution, which the worker took for failed, arrives only now.
FinalRecordIsKept ==
  [][\A e \in Exec :
       history[e] \in Final /\ history'[e] # history[e]
         => e \in late \ late']_<<history, late>>

\* The worker uses the locker as the locker expects: every step of the worker
\* is a step of EtcdLocker or none of its business.
UsesLocker == LockerSpec

\* Every accepted execution gets to save its final record, unless its process
\* ends before.
ExecutionsFinish ==
  \A e \in Exec : pc[e] = "accepted" ~> pc[e] \in {"finished", "killed"}

=============================================================================
