-------------------------- MODULE SchedularService ---------------------------
(***************************************************************************)
(* The life of a master node: SchedularService.Start and runSchedular      *)
(* (internal/usecase/schedular_service.go), the goroutine of               *)
(* cronScheduler.Start (internal/scheduler/cron_scheduler.go) and the end  *)
(* of the process (cmd/master/main.go), over LeaderElection.               *)
(*                                                                         *)
(* A master campaigns, loads the jobs when it is elected, starts cron in a *)
(* goroutine of its own, and campaigns again when its session is done.     *)
(* What goes wrong around it is chosen by two constants: the kinds of      *)
(* faults that may occur, and how many of them.                            *)
(***************************************************************************)
EXTENDS LeaderElection

CONSTANTS
  FaultKinds,   \* the kinds of faults that may occur
  MaxFaults     \* bound: how many faults occur

AllFaultKinds == {"session", "propose", "wait", "list", "expire", "crash"}

ASSUME FaultAssumption ==
  /\ FaultKinds \subseteq AllFaultKinds
  /\ MaxFaults \in Nat
  /\ MaxFaults < MaxCampaigns   \* a fault costs a node one campaign at most

VARIABLES
  process,     \* process[n]: whether the process of n runs
  cancelled,   \* the nodes whose root context is cancelled
  pc,          \* pc[n]: where n is in SchedularService.Start
  loaded,      \* loaded[n]: the campaign after which n last loaded the jobs
  starting,    \* starting[n]: how many goroutines have cron.Start before them
  waiting,     \* waiting[n]: how many have called it and wait to call cron.Stop
  cron,        \* the nodes whose cron runs
  faults       \* the number of faults so far

serviceVars == <<process, cancelled, pc, loaded, starting, waiting, cron, faults>>
vars == <<electionVars, serviceVars>>

PCs == {"looping", "campaigning", "sleeping", "elected", "leading", "returned"}

Up(n)  == process[n] = "up"
Ended(n) == ~Up(n) \/ n \in cancelled

Fault(kind) ==
  /\ kind \in FaultKinds
  /\ faults < MaxFaults
  /\ faults' = faults + 1

Goto(n, from, to) ==
  /\ Up(n)
  /\ pc[n] = from
  /\ pc' = [pc EXCEPT ![n] = to]

Init ==
  /\ ElectionInit
  /\ process   = [n \in Node |-> "up"]
  /\ cancelled = {}
  /\ pc        = [n \in Node |-> "looping"]
  /\ loaded    = [n \in Node |-> 0]
  /\ starting  = [n \in Node |-> 0]
  /\ waiting   = [n \in Node |-> 0]
  /\ cron      = {}
  /\ faults    = 0

-----------------------------------------------------------------------------
(* The loop of Start *)

\* Faulty variant of StartCampaign: every campaign uses the first session.
StartCampaignInOldSession(n) ==
  /\ n \notin cancelled
  /\ Goto(n, "looping", "campaigning")
  /\ \/ attempt[n] = 0 /\ NewSession(n)
     \/ /\ attempt[n] > 0
        /\ campaign' = [campaign EXCEPT ![n] = "proposing"]
        /\ UNCHANGED <<attempt, lease, keys, late, rank, revision, doneChan, elected,
                       isLeader>>
  /\ UNCHANGED <<process, cancelled, loaded, starting, waiting, cron, faults>>

\* The context is not cancelled: call Campaign, which opens a session.
StartCampaign(n) ==
  /\ n \notin cancelled
  /\ Goto(n, "looping", "campaigning")
  /\ NewSession(n)
  /\ UNCHANGED <<process, cancelled, loaded, starting, waiting, cron, faults>>

\* Faulty variant of CampaignWithoutSession: Start returns the error.
CampaignGivesUp(n) ==
  /\ n \notin cancelled
  /\ Goto(n, "looping", "returned")
  /\ Fault("session")
  /\ UNCHANGED <<electionVars, process, cancelled, loaded, starting, waiting, cron>>

\* Faulty variant of CampaignWithoutSession: a state that the loop does not know.
CampaignIsPaused(n) ==
  /\ n \notin cancelled
  /\ Goto(n, "looping", "paused")
  /\ Fault("session")
  /\ UNCHANGED <<electionVars, process, cancelled, loaded, starting, waiting, cron>>

\* No session could be opened: Campaign fails, and the loop sleeps.
CampaignWithoutSession(n) ==
  /\ n \notin cancelled
  /\ Goto(n, "looping", "sleeping")
  /\ Fault("session")
  /\ UNCHANGED <<electionVars, process, cancelled, loaded, starting, waiting, cron>>

Candidate(n) ==
  /\ Up(n)
  /\ pc[n] = "campaigning"
  /\ Propose(n)
  /\ UNCHANGED serviceVars

\* etcd no longer knows the lease of the session: Campaign returns an error.
SessionRefused(n) ==
  /\ Goto(n, "campaigning", "sleeping")
  /\ lease[Current(n)] = "gone"
  /\ ProposeFails(n)
  /\ UNCHANGED <<process, cancelled, loaded, starting, waiting, cron, faults>>

\* Campaign returns an error: etcd failed, or the context was cancelled.
CampaignFails(n) ==
  /\ Goto(n, "campaigning", "sleeping")
  /\ \/ ProposeFails(n) /\ Fault("propose")
     \/ WaitFails(n)    /\ Fault("wait")
     \/ ProposeFails(n)  /\ n \in cancelled /\ UNCHANGED faults
     \/ WaitCancelled(n) /\ n \in cancelled /\ UNCHANGED faults
  /\ UNCHANGED <<process, cancelled, loaded, starting, waiting, cron>>

\* Five seconds later the loop goes on.
Wake(n) ==
  /\ Goto(n, "sleeping", "looping")
  /\ UNCHANGED <<electionVars, process, cancelled, loaded, starting, waiting, cron, faults>>

Won(n) ==
  /\ Goto(n, "campaigning", "elected")
  /\ Elected(n)
  /\ UNCHANGED <<process, cancelled, loaded, starting, waiting, cron, faults>>

\* runSchedular: the jobs are listed and added to cron, and a goroutine is
\* created that will start cron.
LoadJobs(n) ==
  /\ Goto(n, "elected", "leading")
  /\ loaded'   = [loaded EXCEPT ![n] = attempt[n]]
  /\ starting' = [starting EXCEPT ![n] = @ + 1]
  /\ UNCHANGED <<electionVars, process, cancelled, waiting, cron, faults>>

\* Faulty variant of LoadFails: the error is logged, and cron started without
\* the jobs.
LoadFailsYetStarts(n) ==
  /\ Goto(n, "elected", "leading")
  /\ Fault("list") \/ (n \in cancelled /\ UNCHANGED faults)
  /\ starting' = [starting EXCEPT ![n] = @ + 1]
  /\ UNCHANGED <<electionVars, process, cancelled, loaded, waiting, cron>>

\* runSchedular: the jobs cannot be listed.  It returns, and the node leads.
LoadFails(n) ==
  /\ Goto(n, "elected", "leading")
  /\ Fault("list") \/ (n \in cancelled /\ UNCHANGED faults)
  /\ UNCHANGED <<electionVars, process, cancelled, loaded, starting, waiting, cron>>

\* Faulty variant of LostLeadership: a leader waits for its context only.
LostLeadershipUnseen(n) ==
  /\ Current(n) \in doneChan
  /\ n \in cancelled
  /\ Goto(n, "leading", "looping")
  /\ UNCHANGED <<electionVars, process, cancelled, loaded, starting, waiting, cron, faults>>

\* The session of the leader is done: schedular.Stop, which does nothing, and
\* back to the top of the loop.
LostLeadership(n) ==
  /\ Current(n) \in doneChan
  /\ Goto(n, "leading", "looping")
  /\ UNCHANGED <<electionVars, process, cancelled, loaded, starting, waiting, cron, faults>>

\* The cancelled context is seen, at the top of the loop or by the leader.
Return(n) ==
  /\ n \in cancelled
  /\ Goto(n, "looping", "returned") \/ Goto(n, "leading", "returned")
  /\ UNCHANGED <<electionVars, process, cancelled, loaded, starting, waiting, cron, faults>>

-----------------------------------------------------------------------------
(* The goroutine of cronScheduler.Start *)

\* Each term that loads the jobs creates a goroutine of its own.  Terms may follow
\* each other faster than their goroutines run, so one of them may get to cron.Start
\* when the context is cancelled and the others have stopped cron.

\* Faulty variant of StartCron: a goroutine that finds the context cancelled
\* returns, with cron started.
StartCronAndCheckContext(n) ==
  /\ Up(n)
  /\ starting[n] > 0
  /\ starting' = [starting EXCEPT ![n] = @ - 1]
  /\ waiting'  = [waiting EXCEPT ![n] = IF n \in cancelled THEN @ ELSE @ + 1]
  /\ cron'     = cron \cup {n}
  /\ UNCHANGED <<electionVars, process, cancelled, pc, loaded, faults>>

\* cron.Start, which does nothing if cron runs already; the goroutine is left in
\* front of the wait for the end of the context.
StartCron(n) ==
  /\ Up(n)
  /\ starting[n] > 0
  /\ starting' = [starting EXCEPT ![n] = @ - 1]
  /\ waiting'  = [waiting EXCEPT ![n] = @ + 1]
  /\ cron'     = cron \cup {n}
  /\ UNCHANGED <<electionVars, process, cancelled, pc, loaded, faults>>

\* The context has ended: cron.Stop, which stops cron whoever started it.
StopCron(n) ==
  /\ Up(n)
  /\ n \in cancelled
  /\ waiting[n] > 0
  /\ waiting' = [waiting EXCEPT ![n] = @ - 1]
  /\ cron'    = cron \ {n}
  /\ UNCHANGED <<electionVars, process, cancelled, pc, loaded, starting, faults>>

-----------------------------------------------------------------------------
(* The process and its environment *)

\* SIGINT or SIGTERM cancels the root context.
Cancel(n) ==
  /\ Up(n)
  /\ n \notin cancelled
  /\ cancelled' = cancelled \cup {n}
  /\ UNCHANGED <<electionVars, process, pc, loaded, starting, waiting, cron, faults>>

EndProcess(n) ==
  /\ process'  = [process EXCEPT ![n] = "down"]
  /\ starting' = [starting EXCEPT ![n] = 0]
  /\ waiting'  = [waiting EXCEPT ![n] = 0]
  /\ cron'     = cron \ {n}
  /\ MasterExit(n)
  /\ UNCHANGED <<cancelled, pc, loaded>>

\* After a cancellation the process ends, when main has shut the HTTP server
\* down or, often earlier, when Start has returned and main calls log.Fatalf.
Exit(n) ==
  /\ Up(n)
  /\ n \in cancelled
  /\ EndProcess(n)
  /\ UNCHANGED faults

Crash(n) ==
  /\ Up(n)
  /\ Fault("crash")
  /\ EndProcess(n)

\* A given-up put arrives.
LateCandidate(s) ==
  /\ LatePut(s)
  /\ UNCHANGED serviceVars

\* A lease that is renewed expires, or its client finds that it cannot renew it,
\* only by a fault; what follows of one of the two is the other.
SessionStep(s) ==
  /\ LeaseExpires(s) \/ SessionDone(s)
  /\ \/ lease[s] = "alive" /\ Fault("expire")
     \/ lease[s] # "alive" /\ UNCHANGED faults
  /\ UNCHANGED <<process, cancelled, pc, loaded, starting, waiting, cron>>

-----------------------------------------------------------------------------
\* What the goroutine of Start does when nothing fails.
Serve(n) ==
  \/ StartCampaign(n)
  \/ Candidate(n)
  \/ SessionRefused(n)
  \/ Won(n)
  \/ Wake(n)
  \/ LoadJobs(n)
  \/ LostLeadership(n)
  \/ Return(n)

Next ==
  \/ \E n \in Node : Serve(n)
  \/ \E n \in Node : CampaignWithoutSession(n)
  \/ \E n \in Node : CampaignFails(n)
  \/ \E n \in Node : LoadFails(n)
  \/ \E n \in Node : StartCron(n)
  \/ \E n \in Node : StopCron(n)
  \/ \E n \in Node : Cancel(n)
  \/ \E n \in Node : Exit(n)
  \/ \E n \in Node : Crash(n)
  \/ \E s \in Session : SessionStep(s)
  \/ \E s \in Session : LateCandidate(s)

Spec == Init /\ [][Next]_vars

\* Goroutines are scheduled, etcd answers, a lease that nobody renews expires,
\* and a cancelled main returns (its shutdown of the HTTP server has a deadline).
\* Nothing makes a fault, a signal or a crash happen.
Fairness ==
  /\ \A n \in Node : /\ WF_vars(Serve(n))
                     /\ WF_vars(StartCron(n))
                     /\ WF_vars(StopCron(n))
                     /\ WF_vars(Exit(n))
  /\ \A s \in Session : /\ WF_vars(lease[s] = "orphaned" /\ LeaseExpires(s) /\ SessionStep(s))
                        /\ WF_vars(lease[s] = "gone" /\ SessionDone(s) /\ SessionStep(s))

FairSpec == Spec /\ Fairness

-----------------------------------------------------------------------------
(* Properties *)

TypeOK ==
  /\ ElectionTypeOK
  /\ process   \in [Node -> {"up", "down"}]
  /\ cancelled \in SUBSET Node
  /\ pc        \in [Node -> PCs]
  /\ loaded    \in [Node -> 0..MaxCampaigns]
  /\ starting  \in [Node -> Nat]
  /\ waiting   \in [Node -> Nat]
  /\ cron      \in SUBSET Node
  /\ faults    \in 0..MaxFaults

\* The node acts as the leader.
Leading(n) == Up(n) /\ pc[n] \in {"elected", "leading"}

\* Two masters act as leaders together only if one of them has lost its lease
\* without having noticed it yet, or having had the time to.
LiveLeaderExclusive ==
  \A m, n \in Node :
    m # n /\ Leading(m) /\ Leading(n)
      => lease[Current(m)] = "gone" \/ lease[Current(n)] = "gone"

\* A cron that runs can be stopped: of the goroutines that the terms have created,
\* one at least has called cron.Start and not cron.Stop, in whatever order terms,
\* their goroutines and the cancellation came.
CronCanBeStopped == \A n \in cron : waiting[n] > 0

\* A node whose cron runs, or is about to, has been told that it leads and has
\* loaded the jobs in that term, or in an earlier one: neither a term without a
\* list nor a campaign that failed starts cron.
CronWasLoadedAsLeader ==
  \A n \in Node : n \in cron \/ starting[n] > 0 => <<n, loaded[n]>> \in elected

\* The master uses the election as the election expects: what holds of
\* LeaderElection holds of the masters.
UsesElection == ElectionSpec

\* The node leads, and triggers the jobs it has loaded as this leader.
Schedules(n) ==
  /\ Leading(n)
  /\ Current(n) \in keys \cap elected
  /\ loaded[n] = attempt[n]
  /\ n \in cron

\* Whenever nobody schedules, some node takes over, unless every master has
\* died or is being stopped.
TakeOver ==
  (\A n \in Node : ~Schedules(n))
    ~> (\E n \in Node : Schedules(n)) \/ (\A n \in Node : Ended(n))

\* A leader that etcd has forgotten does not stay a leader.
DeposedStepsDown ==
  \A n \in Node : pc[n] = "leading" /\ Current(n) \notin keys
                    ~> pc[n] # "leading" \/ ~Up(n)

-----------------------------------------------------------------------------
(* What the documentation says and the code does not do *)

\* README: only one master is active at any time.  Even allowing for the time
\* that a deposed leader needs to notice, a node that waits to be elected does
\* not trigger jobs while another leads.
SingleActiveScheduler ==
  \A m, n \in Node :
    Leading(m) /\ Current(m) \in keys /\ m \in cron
      => ~(n # m /\ pc[n] = "campaigning" /\ n \in cron)

\* README: when the leader goes down, another master takes over.
Failover ==
  \A m \in Node : (\A n \in Node : ~Leading(n)) /\ ~Ended(m)
                    ~> (\E n \in Node : Leading(n)) \/ Ended(m)
=============================================================================
