----------------------------- MODULE Dispatcher ------------------------------
(***************************************************************************)
(* From a trigger of cron to a worker: cronJobWrapper.Run                  *)
(* (internal/scheduler/cron_scheduler.go), DispatchTask and its client     *)
(* (internal/master/dispatcher.go), with the gRPC channel to the workers,  *)
(* over WorkerDiscovery.                                                   *)
(*                                                                         *)
(* All workers register the address ":50052", which names no host.  gRPC    *)
(* reads it as localhost, so the one client that getOrCreateClient caches   *)
(* reaches the process that has the port on the master's own host,          *)
(* whichever worker was picked.  Such a connection ends only with the       *)
(* worker, when it shuts down or dies.                                      *)
(***************************************************************************)
EXTENDS WorkerDiscovery

CONSTANTS
  MasterHost,  \* the workers that are started on the master's host
  Task,        \* the tasks, one per call of DispatchTask
  Nobody       \* stands for "no worker"

ASSUME MasterHostAssumption == MasterHost \in Hosts \cup {{}}
ASSUME NobodyAssumption == Nobody \notin Worker

VARIABLES
  call,      \* call[t]: how far the dispatch of t is
  picked,    \* picked[t]: the worker whose address DispatchTask has chosen
  accepted,  \* accepted[t]: the worker whose ExecuteTask was called with t
  verdict,   \* verdict[t]: what DispatchTask has returned
  channel,   \* the state of the client's connection
  peer       \* the worker that it is connected to

taskVars     == <<call, picked, accepted, verdict>>
channelVars  == <<channel, peer>>
dispatchVars == <<taskVars, channelVars>>
vars == <<discoveryVars, dispatchVars>>

Calls == {"waiting", "calling", "handling", "ended"}

Init ==
  /\ DiscoveryInit
  /\ call     = [t \in Task |-> "waiting"]
  /\ picked   = [t \in Task |-> Nobody]
  /\ accepted = [t \in Task |-> Nobody]
  /\ verdict  = [t \in Task |-> "none"]
  /\ channel  = "idle"
  /\ peer     = Nobody

Advance(t, from, to) ==
  /\ call[t] = from
  /\ call' = [call EXCEPT ![t] = to]

\* DispatchTask returns; Run logs the error, if there is one, and tries no more.
Return(t, from, result) ==
  /\ Advance(t, from, "ended")
  /\ verdict' = [verdict EXCEPT ![t] = result]

-----------------------------------------------------------------------------
(* DispatchTask *)

\* GetWorkers returned nothing.
NoWorkers(t) ==
  /\ known = {}
  /\ Return(t, "waiting", "failed")
  /\ UNCHANGED <<discoveryVars, picked, accepted, channelVars>>

\* Some worker is picked from what GetWorkers returned, and its client called,
\* on a list that may be old by then.
PickWorker(t) ==
  /\ Advance(t, "waiting", "calling")
  /\ \E w \in known : picked' = [picked EXCEPT ![t] = w]
  /\ UNCHANGED <<discoveryVars, accepted, verdict, channelVars>>

\* ExecuteTask starts in the connected worker, which acknowledges the task after
\* it has created a goroutine for it.  GracefulStop lets requests that are under
\* way still in.
Accept(t) ==
  /\ channel = "ready"
  /\ stage[peer] \in {"serving", "draining"}
  /\ Advance(t, "calling", "handling")
  /\ accepted' = [accepted EXCEPT ![t] = peer]
  /\ UNCHANGED <<discoveryVars, picked, verdict, channelVars>>

\* The acknowledgement reaches the master.
Answer(t) ==
  /\ call[t] = "handling"
  /\ stage[accepted[t]] \notin Ended
  /\ Return(t, "handling", "ok")
  /\ UNCHANGED <<discoveryVars, picked, accepted, channelVars>>

\* Faulty variant of AnswerLost: the task is dispatched again.
AnswerLostRetry(t) ==
  /\ call[t] = "handling"
  /\ stage[accepted[t]] \in Ended
  /\ Advance(t, "handling", "waiting")
  /\ UNCHANGED <<discoveryVars, picked, accepted, verdict, channelVars>>

\* The worker's process has ended before its acknowledgement was sent.
AnswerLost(t) ==
  /\ call[t] = "handling"
  /\ stage[accepted[t]] \in Ended
  /\ Return(t, "handling", "failed")
  /\ UNCHANGED <<discoveryVars, picked, accepted, channelVars>>

\* Faulty variant of CallFails: the call waits until the channel is ready.
CallWaitsForReady(t) ==
  /\ channel = "ready" /\ stage[peer] \in Ended
  /\ Return(t, "calling", "failed")
  /\ UNCHANGED <<discoveryVars, picked, accepted, channelVars>>

\* The call fails at once while the channel is failing, and if the connection
\* broke after the request was sent.  There is no retry.
CallFails(t) ==
  /\ channel = "failing" \/ (channel = "ready" /\ stage[peer] \in Ended)
  /\ Return(t, "calling", "failed")
  /\ UNCHANGED <<discoveryVars, picked, accepted, channelVars>>

-----------------------------------------------------------------------------
(* The channel to ":50052" *)

\* A connection attempt, by the first call or after a failure, ends in a process
\* that serves on the master's host.
Connect(w) ==
  /\ channel = "failing" \/ (channel = "idle" /\ \E t \in Task : call[t] = "calling")
  /\ w \in MasterHost
  /\ stage[w] = "serving"
  /\ channel' = "ready"
  /\ peer'    = w
  /\ UNCHANGED <<discoveryVars, taskVars>>

\* Nobody has the port: from now on calls fail, until an attempt succeeds.
ConnectFails ==
  /\ channel = "idle"
  /\ \E t \in Task : call[t] = "calling"
  /\ \A w \in MasterHost : stage[w] \notin Bound
  /\ channel' = "failing"
  /\ UNCHANGED <<peer, discoveryVars, taskVars>>

\* Faulty variant of Disconnect: the client is closed, and stays in the cache.
DisconnectForGood ==
  /\ channel = "ready"
  /\ stage[peer] # "serving"
  /\ channel' = "closed"
  /\ peer'    = Nobody
  /\ UNCHANGED <<discoveryVars, taskVars>>

\* The worker has closed the connection, by GracefulStop or with its process;
\* calls that were not sent wait for the next connection.
Disconnect ==
  /\ channel = "ready"
  /\ stage[peer] # "serving"
  /\ channel' = "idle"
  /\ peer'    = Nobody
  /\ UNCHANGED <<discoveryVars, taskVars>>

-----------------------------------------------------------------------------
\* Faulty variant of Drained: Stop instead of GracefulStop.
DrainedAtOnce(w) == TRUE

\* GracefulStop waits for the connections to w, and the handlers, to end.
Drained(w) ==
  /\ peer # w
  /\ \A t \in Task : call[t] = "handling" => accepted[t] # w

\* The steps of WorkerDiscovery.
WorkerStep(w) ==
  /\ RunMain(w)
  /\ UNCHANGED dispatchVars

Leave(w) ==
  /\ Drained(w)
  /\ Deregister(w)
  /\ UNCHANGED dispatchVars

Environment ==
  /\ \/ \E w \in Worker : Signal(w) \/ Crash(w) \/ LeaseExpires(w) \/ LatePut(w)
     \/ WatchEnds
  /\ UNCHANGED dispatchVars

FollowRegistry ==
  /\ WatchStep
  /\ UNCHANGED dispatchVars

DispatchTask(t) ==
  \/ Accept(t)
  \/ Answer(t)
  \/ AnswerLost(t)
  \/ CallFails(t)

UseChannel ==
  \/ \E w \in Worker : Connect(w)
  \/ ConnectFails
  \/ Disconnect

Next ==
  \/ \E w \in Worker : WorkerStep(w)
  \/ \E w \in Worker : Leave(w)
  \/ Environment
  \/ FollowRegistry
  \/ \E t \in Task : NoWorkers(t)
  \/ \E t \in Task : PickWorker(t)
  \/ \E t \in Task : DispatchTask(t)
  \/ UseChannel

Spec == Init /\ [][Next]_vars

\* Goroutines are scheduled and etcd answers: main of a worker, WatchWorkers, a
\* dispatch that has begun and the connection attempts go on; a lease that nobody
\* renews expires.  Nothing makes cron trigger a task, a worker stop, a fault
\* occur or a late request arrive.
Fairness ==
  /\ \A w \in Worker :
       /\ WF_vars(WorkerStep(w))
       /\ WF_vars(Leave(w))
       /\ WF_vars(lease[w] = "orphaned" /\ LeaseExpires(w) /\ UNCHANGED dispatchVars)
  /\ \A t \in Task : WF_vars(DispatchTask(t))
  /\ WF_vars(FollowRegistry)
  /\ WF_vars(UseChannel)

FairSpec == Spec /\ Fairness

-----------------------------------------------------------------------------
(* Properties *)

TypeOK ==
  /\ DiscoveryTypeOK
  /\ call     \in [Task -> Calls]
  /\ picked   \in [Task -> Worker \cup {Nobody}]
  /\ accepted \in [Task -> Worker \cup {Nobody}]
  /\ verdict  \in [Task -> {"none", "ok", "failed"}]
  /\ channel  \in {"idle", "ready", "failing"}
  /\ peer     \in Worker \cup {Nobody}

\* A task whose dispatch was reported as failed has not been given to a worker,
\* unless that worker crashed: a worker that is shut down answers what it has
\* taken before it goes.
FailedMeansNotRun ==
  \A t \in Task :
    verdict[t] = "failed" /\ accepted[t] # Nobody => stage[accepted[t]] = "crashed"

\* The dispatcher implements the delivery of tasks: no task is given to two
\* workers or twice to one, and none is reported as dispatched that was not.
Delivery == INSTANCE TaskDelivery

ImplementsTaskDelivery == Delivery!DeliverySpec

\* A dispatch that has begun ends, although the call has no deadline.
DispatchEnds == \A t \in Task : call[t] = "calling" ~> call[t] = "ended"

-----------------------------------------------------------------------------
(* What the documentation says and the code does not do *)

\* README: tasks are dispatched to the available workers, several of which can
\* run to share the work.  A task that is taken was sent to the worker that the
\* dispatcher has picked.
PickedWorkerGetsTask ==
  \A t \in Task : accepted[t] # Nobody => accepted[t] = picked[t]
=============================================================================
