------------------------- MODULE WorkerServer_proofs -------------------------
(***************************************************************************)
(* Proofs about WorkerServer, for every set of executions, jobs and        *)
(* workers.                                                                *)
(*                                                                         *)
(* The worker takes no step that the locker does not allow, so what is     *)
(* proved of the locker holds in the worker.  The invariant AllInStep ties *)
(* the program counter of runJob to the stage of the lock; the two         *)
(* together give the exclusion of Forbid jobs.                             *)
(***************************************************************************)
EXTENDS WorkerServer, EtcdLocker_proofs

\* The part of TypeOK that is about the worker's own variables.
ServerTypeOK ==
  /\ process \in [Worker -> Processes]
  /\ task    \in [Exec -> Tasks \cup {NoTask}]
  /\ pc      \in [Exec -> PCs]
  /\ outcome \in [Exec -> Outcomes]
  /\ history \in [Exec -> Statuses]
  /\ late    \in SUBSET Exec
  /\ status  \in [Exec -> Statuses]
  /\ reported \in SUBSET Exec

\* A step of runJob leaves the program counters well typed.
LEMMA GotoIsTyped ==
  ASSUME pc \in [Exec -> PCs], NEW e \in Exec, NEW from, NEW to \in PCs, Goto(e, from, to)
  PROVE  pc' \in [Exec -> PCs]
BY DEF Goto

\* The deferred functions run one after the other: the status is set, then saved.
LEMMA DeferredOrder ==
  /\ After("unlocking") = "deciding"
  /\ After("deciding")  = "finishing"
  /\ After("finishing") = "finished"
BY DEF After, Deferred

\* The final save concerns one record, and what it stores is a status.
LEMMA SaveIsTyped ==
  ASSUME history \in [Exec -> Statuses], status \in [Exec -> Statuses],
         reported \in SUBSET Exec, NEW e \in Exec, SaveFinal(e)
  PROVE  history' \in [Exec -> Statuses] /\ reported' \in SUBSET Exec
<1>1. FinalStatus(e) \in Statuses
  BY DEF FinalStatus, Statuses
<1> QED
  BY <1>1 DEF SaveFinal

\* The worker's own variables are well typed (server.go as a whole).
THEOREM ServerTypeCorrect == Spec => []ServerTypeOK
<1>1. Init => ServerTypeOK
  BY DEF Init, ServerTypeOK, Processes, PCs, Outcomes, Statuses
<1>2. ServerTypeOK /\ [Next]_vars => ServerTypeOK'
  <2> SUFFICES ASSUME ServerTypeOK, [Next]_vars
               PROVE  ServerTypeOK'
    OBVIOUS
  <2> USE DEF ServerTypeOK
  <2>1. CASE UNCHANGED vars
    BY <2>1 DEF vars, serverVars
  <2>2. ASSUME NEW e \in Exec, NEW w \in Worker, ExecuteTask(e, w)
        PROVE  ServerTypeOK'
    <3>1. pc' \in [Exec -> PCs]
      BY <2>2, GotoIsTyped DEF ExecuteTask, PCs
    <3>2. PICK j \in Name, p \in Policies :
            task' = [task EXCEPT ![e] = [job |-> j, policy |-> p, worker |-> w]]
      BY <2>2 DEF ExecuteTask
    <3>3. [job |-> j, policy |-> p, worker |-> w] \in Tasks
      BY DEF Tasks
    <3>4. task' \in [Exec -> Tasks \cup {NoTask}]
      BY <3>2, <3>3
    <3> QED
      BY <2>2, <3>1, <3>4 DEF ExecuteTask
  <2>3. ASSUME NEW e \in Exec, SaveRunning(e)
        PROVE  ServerTypeOK'
    <3>1. pc' \in [Exec -> PCs]
      BY <2>3, GotoIsTyped DEF SaveRunning, PCs
    <3>2. history' \in [Exec -> Statuses] /\ status' \in [Exec -> Statuses]
      BY <2>3 DEF SaveRunning, Statuses
    <3> QED
      BY <2>3, <3>1, <3>2 DEF SaveRunning
  <2>4. ASSUME NEW e \in Exec,
               StartLock(e) \/ StartUnlocked(e) \/ Locked(e) \/ Unlocked(e)
        PROVE  ServerTypeOK'
    BY <2>4, GotoIsTyped DEF StartLock, StartUnlocked, Locked, Unlocked, PCs,
                                     After, Deferred
  <2>5. ASSUME NEW e \in Exec, InsideLocker(e) \/ UnlockJob(e) \/ EtcdStep(e)
        PROVE  ServerTypeOK'
    BY <2>5 DEF InsideLocker, UnlockJob, EtcdStep, serverVars
  <2>6. ASSUME NEW e \in Exec, SkipExecution(e) \/ ExecutorEnds(e)
        PROVE  ServerTypeOK'
    <3>1. pc' \in [Exec -> PCs]
      BY <2>6, GotoIsTyped, DeferredOrder DEF SkipExecution, ExecutorEnds, PCs
    <3> QED
      BY <2>6, <3>1, EndingAssumption DEF SkipExecution, ExecutorEnds, Outcomes
  <2>7. ASSUME NEW e \in Exec, DecideStatus(e)
        PROVE  ServerTypeOK'
    <3>1. pc' \in [Exec -> PCs]
      BY <2>7, GotoIsTyped, DeferredOrder DEF DecideStatus, PCs
    <3> QED
      BY <2>7, <3>1 DEF DecideStatus, DecidedStatus, Statuses
  <2>8. ASSUME NEW e \in Exec, Finish(e)
        PROVE  ServerTypeOK'
    <3>1. pc' \in [Exec -> PCs]
      BY <2>8, GotoIsTyped, DeferredOrder DEF Finish, PCs
    <3> QED
      BY <2>8, <3>1, SaveIsTyped DEF Finish
  <2>9. ASSUME NEW w \in Worker, Shutdown(w) \/ Exit(w) \/ Crash(w)
        PROVE  ServerTypeOK'
    BY <2>9 DEF Shutdown, Exit, Crash, EndProcess, Processes, PCs, Statuses
  <2>10. ASSUME NEW e \in Exec, LateSave(e)
        PROVE  ServerTypeOK'
    BY <2>10 DEF LateSave, Statuses
  <2> QED
    BY <2>1, <2>2, <2>3, <2>4, <2>5, <2>6, <2>7, <2>8, <2>9, <2>10 DEF Next, RunJob
<1> QED
  BY <1>1, <1>2, PTL DEF Spec

-----------------------------------------------------------------------------
\* Every step of the worker is a step of the locker, or does not touch it.
LEMMA NextUsesLocker ==
  ASSUME ServerTypeOK, [Next]_vars
  PROVE  [LockerNext]_lockerVars
<1>1. CASE UNCHANGED vars
  BY <1>1 DEF vars
<1>2. ASSUME NEW e \in Exec, NEW w \in Worker, ExecuteTask(e, w)
      PROVE  UNCHANGED lockerVars
  BY <1>2 DEF ExecuteTask
<1>3. ASSUME NEW e \in Exec,
             \/ SaveRunning(e) \/ StartUnlocked(e) \/ Locked(e) \/ SkipExecution(e)
             \/ ExecutorEnds(e) \/ Unlocked(e) \/ DecideStatus(e) \/ Finish(e)
             \/ LateSave(e)
      PROVE  UNCHANGED lockerVars
  BY <1>3 DEF SaveRunning, StartUnlocked, Locked, SkipExecution, ExecutorEnds,
              Unlocked, DecideStatus, Finish, LateSave
<1>4. ASSUME NEW e \in Exec, StartLock(e)
      PROVE  LockerNext
  <2>1. task[e].job \in Name
    BY <1>4 DEF StartLock, Forbids, ServerTypeOK, Tasks
  <2>2. PICK n \in Name : n = task[e].job
    BY <2>1
  <2> QED
    BY <1>4, <2>2 DEF StartLock, LockerNext, NewSession, NewSessionFails
<1>5. ASSUME NEW e \in Exec, InsideLocker(e) \/ UnlockJob(e) \/ EtcdStep(e)
      PROVE  LockerNext
  BY <1>5 DEF InsideLocker, UnlockJob, EtcdStep, LockerNext
<1>6. ASSUME NEW w \in Worker, Exit(w) \/ Crash(w)
      PROVE  LockerNext
  <2> DEFINE S == {e \in Running(w) : Active(e)}
  <2>1. ProcessExit(S)
    BY <1>6 DEF Exit, Crash, EndProcess
  <2>2. S \in SUBSET Exec
    BY DEF Running
  <2> QED
    BY <2>1, <2>2 DEF LockerNext, ProcessExit
<1>7. ASSUME NEW w \in Worker, Shutdown(w)
      PROVE  UNCHANGED lockerVars
  BY <1>7 DEF Shutdown
<1> QED
  BY <1>1, <1>2, <1>3, <1>4, <1>5, <1>6, <1>7 DEF Next, RunJob

\* runJob (server.go:133-154) uses the locker as it expects to be used.
THEOREM WorkerUsesLocker == Spec => UsesLocker
<1>1. Init => LockerInit
  BY DEF Init
<1>2. ServerTypeOK /\ [Next]_vars => [LockerNext]_lockerVars
  BY NextUsesLocker
<1> QED
  BY <1>1, <1>2, ServerTypeCorrect, PTL DEF Spec, UsesLocker, LockerSpec

\* The state of the worker is well typed (server.go as a whole).
THEOREM WorkerTypeCorrect == Spec => []TypeOK
<1>1. ServerTypeOK /\ LockerTypeOK => TypeOK
  BY DEF ServerTypeOK, TypeOK
<1> QED
  BY <1>1, ServerTypeCorrect, WorkerUsesLocker, LockerTypeCorrect, PTL DEF UsesLocker

-----------------------------------------------------------------------------
\* What the program counter of runJob says of the lock, and of the task.
InStep(e) ==
  /\ pc[e] = "unassigned" <=> task[e] = NoTask
  /\ pc[e] \in {"unassigned", "accepted", "recorded"} => stage[e] = "idle"
  /\ pc[e] = "locking"   => Forbids(e) /\ stage[e] # "dead"
  /\ pc[e] = "executing" => stage[e] = IF Forbids(e) THEN "held" ELSE "idle"
  /\ pc[e] = "unlocking" => Forbids(e) /\ stage[e] \in {"held", "closing", "done"}
  /\ pc[e] \in {"deciding", "finishing", "finished", "killed"} => ~Active(e)
  /\ stage[e] # "idle" => name[e] = task[e].job

AllInStep == \A e \in Exec : InStep(e)

\* A step that leaves the variables of InStep alone for e keeps InStep(e).
LEMMA UntouchedInStep ==
  ASSUME NEW e \in Exec, InStep(e),
         pc'[e] = pc[e], task'[e] = task[e], stage'[e] = stage[e], name'[e] = name[e]
  PROVE  InStep(e)'
BY DEF InStep, Active, Forbids

\* Every step of the worker keeps AllInStep.
LEMMA InStepKept ==
  ASSUME TypeOK, AllInStep, [Next]_vars
  PROVE  AllInStep'
<1> USE DEF TypeOK, LockerTypeOK
<1>1. CASE UNCHANGED vars
  BY <1>1, UntouchedInStep DEF vars, lockerVars, serverVars, AllInStep
<1>2. ASSUME NEW e \in Exec, NEW w \in Worker, ExecuteTask(e, w)
      PROVE  AllInStep'
  <2>1. PICK t \in Tasks : task' = [task EXCEPT ![e] = t]
    BY <1>2 DEF ExecuteTask, Tasks
  <2>2. InStep(e)'
    BY <1>2, <2>1, NoTaskAssumption
       DEF ExecuteTask, Goto, AllInStep, InStep, Active, Forbids, lockerVars
  <2>3. \A f \in Exec \ {e} : InStep(f)'
    BY <1>2, <2>1, UntouchedInStep DEF ExecuteTask, Goto, AllInStep, lockerVars
  <2> QED
    BY <2>2, <2>3 DEF AllInStep
<1>3. ASSUME NEW e \in Exec,
             \/ SaveRunning(e) \/ StartUnlocked(e) \/ Locked(e) \/ SkipExecution(e)
             \/ ExecutorEnds(e) \/ Unlocked(e) \/ DecideStatus(e) \/ Finish(e)
      PROVE  AllInStep'
  <2> USE DEF SaveRunning, StartUnlocked, Locked, SkipExecution, ExecutorEnds,
              Unlocked, DecideStatus, Finish, Goto
  <2>1. task' = task /\ stage' = stage /\ name' = name
    BY <1>3 DEF lockerVars
  <2>2. \A f \in Exec \ {e} : pc'[f] = pc[f]
    BY <1>3
  <2>3. InStep(e)'
    BY <1>3, <2>1, DeferredOrder DEF AllInStep, InStep, Active, Forbids
  <2>4. \A f \in Exec \ {e} : InStep(f)'
    BY <2>1, <2>2, UntouchedInStep DEF AllInStep
  <2> QED
    BY <2>3, <2>4 DEF AllInStep
<1>4. ASSUME NEW e \in Exec, StartLock(e)
      PROVE  AllInStep'
  <2> USE DEF StartLock, Goto, NewSession, NewSessionFails
  <2>1. InStep(e)'
    BY <1>4 DEF AllInStep, InStep, Active, Forbids
  <2>2. \A f \in Exec \ {e} : InStep(f)'
    BY <1>4, UntouchedInStep DEF AllInStep
  <2> QED
    BY <2>1, <2>2 DEF AllInStep
<1>5. ASSUME NEW e \in Exec, InsideLocker(e) \/ UnlockJob(e) \/ EtcdStep(e)
      PROVE  AllInStep'
  <2> USE DEF InsideLocker, UnlockJob, EtcdStep, TryLock, TryLockFails, DeleteOwnKey,
              CloseSession, Unlock, LeaseExpires, LateTryLock
  <2>1. task' = task /\ pc' = pc /\ name' = name
    BY <1>5 DEF serverVars
  <2>2. \A f \in Exec \ {e} : stage'[f] = stage[f]
    BY <1>5
  <2>3. InStep(e)'
    BY <1>5, <2>1 DEF AllInStep, InStep, Active, Forbids
  <2>4. \A f \in Exec \ {e} : InStep(f)'
    BY <2>1, <2>2, UntouchedInStep DEF AllInStep
  <2> QED
    BY <2>3, <2>4 DEF AllInStep
<1>6. ASSUME NEW w \in Worker, Exit(w) \/ Crash(w)
      PROVE  AllInStep'
  <2> SUFFICES ASSUME NEW e \in Exec
               PROVE  InStep(e)'
    BY DEF AllInStep
  <2> USE DEF Exit, Crash, EndProcess, ProcessExit
  <2>1. task' = task /\ name' = name
    BY <1>6
  <2>2. CASE e \in Running(w)
    BY <1>6, <2>1, <2>2 DEF AllInStep, InStep, Active, Running
  <2>3. CASE e \notin Running(w)
    BY <1>6, <2>1, <2>3, UntouchedInStep DEF AllInStep
  <2> QED
    BY <2>2, <2>3
<1>7. ASSUME NEW w \in Worker, Shutdown(w)
      PROVE  AllInStep'
  BY <1>7, UntouchedInStep DEF Shutdown, lockerVars, AllInStep
<1>8. ASSUME NEW e \in Exec, LateSave(e)
      PROVE  AllInStep'
  BY <1>8, UntouchedInStep DEF LateSave, lockerVars, AllInStep
<1> QED
  BY <1>1, <1>2, <1>3, <1>4, <1>5, <1>6, <1>7, <1>8 DEF Next, RunJob

\* AllInStep holds in every reachable state.
THEOREM WorkerInStep == Spec => []AllInStep
<1>1. Init => AllInStep
  <2> SUFFICES ASSUME Init, NEW e \in Exec
               PROVE  InStep(e)
    BY DEF AllInStep
  <2>1. pc[e] = "unassigned" /\ task[e] = NoTask /\ stage[e] = "idle"
    BY DEF Init, LockerInit
  <2> QED
    BY <2>1 DEF InStep, Active
<1>2. TypeOK /\ AllInStep /\ [Next]_vars => AllInStep'
  BY InStepKept
<1> QED
  BY <1>1, <1>2, WorkerTypeCorrect, PTL DEF Spec

\* The lock covers the execution and nothing but it: no way out of runJob, a
\* panic included, leaves the locker in use (the deferred Unlock, server.go:145).
THEOREM WorkerLockCovers == Spec => []LockCoversExecution
<1>1. AllInStep => LockCoversExecution
  BY DEF AllInStep, InStep, LockCoversExecution
<1> QED
  BY <1>1, WorkerInStep, PTL

\* The concurrency policy Forbid as the worker can keep it (server.go:133-165):
\* two executions of one job run together only if one has lost its lease.
THEOREM WorkerForbidExclusive == Spec => []ForbidExclusiveUnderLease
<1>1. AllInStep /\ LiveLockExclusive => ForbidExclusiveUnderLease
  BY DEF AllInStep, InStep, LiveLockExclusive, ForbidExclusiveUnderLease
<1> QED
  BY <1>1, WorkerInStep, WorkerUsesLocker, LockerExclusive, PTL DEF UsesLocker

-----------------------------------------------------------------------------
\* Only the last step of runJob writes a final status, when the outcome is known,
\* and unless a save was reported it has written it.
Recorded(e) ==
  /\ pc[e] \in {"unlocking", "deciding", "finishing", "finished"} => outcome[e] # "none"
  /\ pc[e] = "finishing" => status[e] = DecidedStatus(outcome[e])
  /\ history[e] \in Final => pc[e] = "finished"
  /\ history[e] = "success" => outcome[e] = "ok"
  /\ history[e] = "failed"  => outcome[e] \in {"error", "panic", "skipped"}
  /\ e \in late => e \in reported
  /\ pc[e] = "finished" /\ e \notin reported
       => history[e] = IF outcome[e] = "ok" THEN "success" ELSE "failed"

AllRecorded == \A e \in Exec : Recorded(e)

\* A step that leaves the variables of Recorded alone for e keeps Recorded(e).
LEMMA UntouchedRecorded ==
  ASSUME NEW e \in Exec, Recorded(e),
         pc'[e] = pc[e], outcome'[e] = outcome[e], status'[e] = status[e],
         history'[e] = history[e], e \in late' <=> e \in late,
         e \in reported' <=> e \in reported
  PROVE  Recorded(e)'
BY DEF Recorded

\* What Finish is about to store is the final status of the outcome.
LEMMA FinalStatusOfOutcome ==
  ASSUME TypeOK, NEW e \in Exec, Recorded(e), pc[e] = "finishing"
  PROVE  FinalStatus(e) = IF outcome[e] = "ok" THEN "success" ELSE "failed"
BY DEF TypeOK, Recorded, FinalStatus, DecidedStatus, Outcomes

\* Every step of the worker keeps AllRecorded.
LEMMA RecordedKept ==
  ASSUME TypeOK, AllRecorded, [Next]_vars
  PROVE  AllRecorded'
<1> USE DEF TypeOK
<1> SUFFICES ASSUME NEW e \in Exec
             PROVE  Recorded(e)'
  BY DEF AllRecorded
<1>1. Recorded(e)
  BY DEF AllRecorded
<1>2. CASE UNCHANGED vars
  BY <1>1, <1>2, UntouchedRecorded DEF vars, serverVars
<1>3. ASSUME NEW f \in Exec, NEW w \in Worker, ExecuteTask(f, w)
      PROVE  Recorded(e)'
  BY <1>1, <1>3 DEF ExecuteTask, Goto, Recorded
<1>4. ASSUME NEW f \in Exec, SaveRunning(f)
      PROVE  Recorded(e)'
  <2>1. CASE e = f
    BY <1>1, <1>4, <2>1 DEF SaveRunning, Goto, Recorded, Final
  <2>2. CASE e # f
    BY <1>1, <1>4, <2>2, UntouchedRecorded DEF SaveRunning, Goto
  <2> QED
    BY <2>1, <2>2
<1>5. ASSUME NEW f \in Exec,
             \/ StartLock(f) \/ StartUnlocked(f) \/ Locked(f) \/ Unlocked(f)
      PROVE  Recorded(e)'
  BY <1>1, <1>5, DeferredOrder
     DEF StartLock, StartUnlocked, Locked, Unlocked, Goto, Recorded
<1>6. ASSUME NEW f \in Exec, SkipExecution(f) \/ ExecutorEnds(f)
      PROVE  Recorded(e)'
  <2>1. CASE e = f
    BY <1>1, <1>6, <2>1, EndingAssumption, DeferredOrder
       DEF SkipExecution, ExecutorEnds, Goto, Recorded, Final
  <2>2. CASE e # f
    BY <1>1, <1>6, <2>2, UntouchedRecorded DEF SkipExecution, ExecutorEnds, Goto
  <2> QED
    BY <2>1, <2>2
<1>7. ASSUME NEW f \in Exec, DecideStatus(f)
      PROVE  Recorded(e)'
  BY <1>1, <1>7, DeferredOrder DEF DecideStatus, Goto, Recorded
<1>8. ASSUME NEW f \in Exec, Finish(f)
      PROVE  Recorded(e)'
  <2>1. CASE e = f
    <3>1. pc[e] = "finishing" /\ pc'[e] = "finished" /\ outcome' = outcome /\ late' = late
      BY <1>8, <2>1, DeferredOrder DEF Finish, Goto
    <3>2. \/ history'[e] = FinalStatus(e) /\ reported' = reported
          \/ history'[e] \in {history[e], FinalStatus(e)} /\ e \in reported'
      BY <1>8, <2>1 DEF Finish, SaveFinal
    <3>3. history[e] \notin Final
      BY <1>1, <3>1 DEF Recorded
    <3> QED
      BY <1>1, <3>1, <3>2, <3>3, FinalStatusOfOutcome DEF Recorded, Final, Outcomes
  <2>2. CASE e # f
    BY <1>1, <1>8, <2>2, UntouchedRecorded DEF Finish, SaveFinal, Goto
  <2> QED
    BY <2>1, <2>2
<1>9. ASSUME NEW f \in Exec, InsideLocker(f) \/ UnlockJob(f) \/ EtcdStep(f)
      PROVE  Recorded(e)'
  BY <1>1, <1>9, UntouchedRecorded DEF InsideLocker, UnlockJob, EtcdStep, serverVars
<1>10. ASSUME NEW w \in Worker, Shutdown(w) \/ Exit(w) \/ Crash(w)
       PROVE  Recorded(e)'
  <2>1. CASE e \in Running(w)
    BY <1>1, <1>10, <2>1 DEF Shutdown, Exit, Crash, EndProcess, Running, Recorded
  <2>2. CASE e \notin Running(w)
    BY <1>1, <1>10, <2>2, UntouchedRecorded DEF Shutdown, Exit, Crash, EndProcess
  <2> QED
    BY <2>1, <2>2
<1>11. ASSUME NEW f \in Exec, LateSave(f)
       PROVE  Recorded(e)'
  BY <1>1, <1>11 DEF LateSave, Recorded, Final
<1> QED
  BY <1>2, <1>3, <1>4, <1>5, <1>6, <1>7, <1>8, <1>9, <1>10, <1>11 DEF Next, RunJob

\* AllRecorded holds in every reachable state.
THEOREM WorkerRecorded == Spec => []AllRecorded
<1>1. Init => AllRecorded
  BY DEF Init, AllRecorded, Recorded, Final
<1>2. TypeOK /\ AllRecorded /\ [Next]_vars => AllRecorded'
  BY RecordedKept
<1> QED
  BY <1>1, <1>2, WorkerTypeCorrect, PTL DEF Spec

\* The history tells the truth about every execution, whatever saves are lost
\* and whenever the process ends (server.go:84-131).
THEOREM WorkerHistoryIsTruthful == Spec => []HistoryIsTruthful
<1>1. AllRecorded => HistoryIsTruthful
  BY DEF AllRecorded, Recorded, HistoryIsTruthful
<1> QED
  BY <1>1, WorkerRecorded, PTL

\* An execution that was told of no failed save has its final status in etcd once
\* it has finished, and for good (server.go:84-131).
THEOREM WorkerCleanRunIsRecorded == Spec => []CleanRunIsRecorded
<1>1. AllRecorded => CleanRunIsRecorded
  BY DEF AllRecorded, Recorded, CleanRunIsRecorded
<1> QED
  BY <1>1, WorkerRecorded, PTL

\* Nothing overwrites a final record but the first save of the same execution,
\* when it was given up and arrives late (server.go:93-97 and 99-114).
THEOREM WorkerFinalRecordIsKept == Spec => FinalRecordIsKept
<1> DEFINE Kept == \A e \in Exec : history[e] \in Final /\ history'[e] # history[e]
                                    => e \in late \ late'
<1>1. TypeOK /\ AllRecorded /\ [Next]_vars => [Kept]_<<history, late>>
  <2> SUFFICES ASSUME TypeOK, AllRecorded, [Next]_vars,
                      NEW e \in Exec, history[e] \in Final, history'[e] # history[e]
               PROVE  e \in late \ late'
    OBVIOUS
  <2>1. pc[e] = "finished"
    BY DEF AllRecorded, Recorded
  <2>2. PICK f \in Exec : SaveRunning(f) \/ Finish(f) \/ LateSave(f)
    BY DEF Next, RunJob, vars, serverVars, ExecuteTask, StartLock, StartUnlocked,
           InsideLocker, Locked, SkipExecution, ExecutorEnds, UnlockJob, Unlocked,
           DecideStatus, EtcdStep, Shutdown, Exit, Crash, EndProcess
  <2>3. CASE SaveRunning(f) \/ Finish(f)
    <3>1. e # f
      BY <2>1, <2>3 DEF SaveRunning, Finish, Goto
    <3> QED
      BY <2>3, <3>1 DEF SaveRunning, Finish, SaveFinal, TypeOK
  <2>4. CASE LateSave(f)
    BY <2>4 DEF LateSave, TypeOK
  <2> QED
    BY <2>2, <2>3, <2>4
<1> QED
  BY <1>1, WorkerTypeCorrect, WorkerRecorded, PTL DEF Spec, FinalRecordIsKept
=============================================================================
