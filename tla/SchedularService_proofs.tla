----------------------- MODULE SchedularService_proofs ------------------------
(***************************************************************************)
(* Proofs about SchedularService, for every set of masters and every bound *)
(* on their campaigns and faults.                                          *)
(*                                                                         *)
(* A master takes no step that the election does not allow, so what is     *)
(* proved of LeaderElection holds of the masters.  LeadsUnderLease ties    *)
(* the place of a master in the loop of Start to the session it campaigned *)
(* with: together with OneLeaderKey it excludes two leaders that both have *)
(* their lease.                                                            *)
(***************************************************************************)
EXTENDS SchedularService, LeaderElection_proofs

\* The part of TypeOK that is about the service's own variables.
ServiceTypeOK ==
  /\ process   \in [Node -> {"up", "down"}]
  /\ cancelled \in SUBSET Node
  /\ pc        \in [Node -> PCs]
  /\ loaded    \in [Node -> 0..MaxCampaigns]
  /\ starting  \in [Node -> Nat]
  /\ waiting   \in [Node -> Nat]
  /\ cron      \in SUBSET Node
  /\ faults    \in 0..MaxFaults

-----------------------------------------------------------------------------
\* Every step of a master is a step of the election, or does not touch it.
LEMMA NextUsesElection ==
  ASSUME [Next]_vars
  PROVE  [ElectionNext]_electionVars
<1>1. CASE UNCHANGED vars
  BY <1>1 DEF vars
<1>2. ASSUME NEW n \in Node,
             \/ StartCampaign(n) \/ Candidate(n) \/ SessionRefused(n)
             \/ CampaignFails(n) \/ Won(n)
      PROVE  ElectionNext
  BY <1>2 DEF StartCampaign, Candidate, SessionRefused, CampaignFails, Won, ElectionNext
<1>3. ASSUME NEW n \in Node,
             \/ CampaignWithoutSession(n) \/ Wake(n) \/ LoadJobs(n) \/ LoadFails(n)
             \/ LostLeadership(n) \/ Return(n) \/ StartCron(n) \/ StopCron(n)
             \/ Cancel(n)
      PROVE  UNCHANGED electionVars
  BY <1>3 DEF CampaignWithoutSession, Wake, LoadJobs, LoadFails, LostLeadership, Return,
              StartCron, StopCron, Cancel
<1>4. ASSUME NEW n \in Node, Exit(n) \/ Crash(n)
      PROVE  ElectionNext
  BY <1>4 DEF Exit, Crash, EndProcess, ElectionNext
<1>5. ASSUME NEW s \in Session, SessionStep(s) \/ LateCandidate(s)
      PROVE  ElectionNext
  BY <1>5 DEF SessionStep, LateCandidate, ElectionNext
<1> QED
  BY <1>1, <1>2, <1>3, <1>4, <1>5 DEF Next, Serve

\* Start (schedular_service.go:30-56) uses the election as it expects to be used.
THEOREM MasterUsesElection == Spec => UsesElection
<1>1. Init => ElectionInit
  BY DEF Init
<1>2. [Next]_vars => [ElectionNext]_electionVars
  BY NextUsesElection
<1> QED
  BY <1>1, <1>2, PTL DEF Spec, UsesElection, ElectionSpec

\* The invariant of the election holds of the masters.
LEMMA MasterElectionInv == Spec => []ElectionIInv
BY MasterUsesElection, ElectionInductive, PTL DEF UsesElection

-----------------------------------------------------------------------------
\* A step of the loop of Start leaves the program counters well typed.
LEMMA GotoIsTyped ==
  ASSUME ServiceTypeOK, NEW n \in Node, NEW from, NEW to \in PCs, Goto(n, from, to)
  PROVE  pc' \in [Node -> PCs]
BY DEF Goto, ServiceTypeOK

\* A fault leaves their number within the bound.
LEMMA FaultIsTyped ==
  ASSUME ServiceTypeOK, NEW kind, Fault(kind)
  PROVE  faults' \in 0..MaxFaults
BY FaultAssumption DEF Fault, ServiceTypeOK

\* The state of the service stays well typed.
LEMMA ServiceTypeKept ==
  ASSUME ServiceTypeOK, ElectionTypeOK, [Next]_vars
  PROVE  ServiceTypeOK'
<1>1. CASE UNCHANGED vars
  BY <1>1 DEF vars, serviceVars, ServiceTypeOK
<1>2. ASSUME NEW n \in Node,
             \/ StartCampaign(n) \/ SessionRefused(n) \/ Wake(n) \/ Won(n)
             \/ LostLeadership(n) \/ Return(n)
      PROVE  ServiceTypeOK'
  <2>1. pc' \in [Node -> PCs]
    BY <1>2, GotoIsTyped
       DEF StartCampaign, SessionRefused, Wake, Won, LostLeadership, Return, PCs
  <2> QED
    BY <1>2, <2>1
       DEF StartCampaign, SessionRefused, Wake, Won, LostLeadership, Return, ServiceTypeOK
<1>3. ASSUME NEW n \in Node,
             CampaignWithoutSession(n) \/ CampaignFails(n) \/ LoadFails(n)
      PROVE  ServiceTypeOK'
  <2>1. pc' \in [Node -> PCs]
    BY <1>3, GotoIsTyped DEF CampaignWithoutSession, CampaignFails, LoadFails, PCs
  <2>2. faults' \in 0..MaxFaults
    BY <1>3, FaultIsTyped
       DEF CampaignWithoutSession, CampaignFails, LoadFails, ServiceTypeOK
  <2> QED
    BY <1>3, <2>1, <2>2 DEF CampaignWithoutSession, CampaignFails, LoadFails, ServiceTypeOK
<1>4. ASSUME NEW n \in Node, LoadJobs(n)
      PROVE  ServiceTypeOK'
  <2>1. pc' \in [Node -> PCs]
    BY <1>4, GotoIsTyped DEF LoadJobs, PCs
  <2>2. loaded' \in [Node -> 0..MaxCampaigns]
    BY <1>4 DEF LoadJobs, ServiceTypeOK, ElectionTypeOK
  <2> QED
    BY <1>4, <2>1, <2>2 DEF LoadJobs, ServiceTypeOK
<1>5. ASSUME NEW n \in Node,
             Candidate(n) \/ StartCron(n) \/ StopCron(n) \/ Cancel(n)
      PROVE  ServiceTypeOK'
  BY <1>5 DEF Candidate, StartCron, StopCron, Cancel, serviceVars, ServiceTypeOK
<1>6. ASSUME NEW n \in Node, Exit(n) \/ Crash(n)
      PROVE  ServiceTypeOK'
  <2>1. faults' \in 0..MaxFaults
    BY <1>6, FaultIsTyped DEF Exit, Crash, ServiceTypeOK
  <2> QED
    BY <1>6, <2>1 DEF Exit, Crash, EndProcess, ServiceTypeOK
<1>7. ASSUME NEW s \in Session, SessionStep(s) \/ LateCandidate(s)
      PROVE  ServiceTypeOK'
  <2>1. faults' \in 0..MaxFaults
    BY <1>7, FaultIsTyped DEF SessionStep, LateCandidate, serviceVars, ServiceTypeOK
  <2> QED
    BY <1>7, <2>1 DEF SessionStep, LateCandidate, serviceVars, ServiceTypeOK
<1> QED
  BY <1>1, <1>2, <1>3, <1>4, <1>5, <1>6, <1>7 DEF Next, Serve

\* The state of the masters is well typed (schedular_service.go, cron_scheduler.go
\* and cmd/master/main.go as a whole).
THEOREM MasterTypeCorrect == Spec => []TypeOK
<1>1. Init => ServiceTypeOK
  BY MaxCampaignsAssumption, FaultAssumption DEF Init, ServiceTypeOK, PCs
<1>2. ServiceTypeOK /\ ElectionIInv /\ [Next]_vars => ServiceTypeOK'
  BY ServiceTypeKept DEF ElectionIInv
<1>3. ServiceTypeOK /\ ElectionIInv => TypeOK
  BY DEF ServiceTypeOK, ElectionIInv, TypeOK
<1> QED
  BY <1>1, <1>2, <1>3, MasterElectionInv, PTL DEF Spec

-----------------------------------------------------------------------------
\* The candidate key of a session is in etcd, or went with its lease.
LeaseHeld(s) == s \in keys \/ lease[s] = "gone"

\* A node has put the key of the session that it waits with or leads by, and has
\* it until the lease is gone.
LeadsUnderLease(n) ==
  /\ campaign[n] = "waiting" => LeaseHeld(Current(n))
  /\ Leading(n) => Current(n) \in elected /\ LeaseHeld(Current(n))

MasterIInv ==
  /\ TypeOK
  /\ ElectionIInv
  /\ \A n \in Node : LeadsUnderLease(n)

\* Nobody but its own node takes the key of a session whose lease is not gone.
LEMMA HeldStays ==
  ASSUME ElectionTypeOK, [ElectionNext]_electionVars,
         NEW s \in Session, LeaseHeld(s),
         \A m \in Node : WaitCancelled(m) => Current(m) # s \/ UNCHANGED keys,
         \A m \in Node : NewSession(m) => <<m, attempt[m] + 1>> # s
  PROVE  LeaseHeld(s)'
<1> USE DEF ElectionTypeOK, LeaseHeld
<1>1. CASE UNCHANGED electionVars
  BY <1>1 DEF electionVars
<1>2. ASSUME NEW m \in Node, NewSession(m)
      PROVE  LeaseHeld(s)'
  BY <1>2 DEF NewSession
<1>3. ASSUME NEW m \in Node,
             Propose(m) \/ ProposeFails(m) \/ Elected(m) \/ WaitFails(m) \/ WaitCancelled(m)
      PROVE  LeaseHeld(s)'
  BY <1>3 DEF Propose, PutKey, ProposeFails, Elected, WaitFails, WaitCancelled
<1>4. ASSUME NEW m \in Node, MasterExit(m)
      PROVE  LeaseHeld(s)'
  BY <1>4 DEF MasterExit
<1>5. ASSUME NEW t \in Session, LatePut(t) \/ LeaseExpires(t) \/ SessionDone(t)
      PROVE  LeaseHeld(s)'
  BY <1>5 DEF LatePut, PutKey, LeaseExpires, SessionDone
<1> QED
  BY <1>1, <1>2, <1>3, <1>4, <1>5 DEF ElectionNext

\* A node that stays with its session and does not start to lead keeps what it has.
LEMMA LeadsUnderLeaseStays ==
  ASSUME ElectionIInv, [ElectionNext]_electionVars,
         NEW n \in Node, LeadsUnderLease(n),
         WaitCancelled(n) => UNCHANGED keys, attempt'[n] = attempt[n],
         campaign'[n] = "waiting" => campaign[n] = "waiting",
         Leading(n)' => Leading(n)
  PROVE  LeadsUnderLease(n)'
<1> USE DEF ElectionIInv
<1>1. Current(n)' = Current(n)
  BY DEF Current
<1>2. \A m \in Node : WaitCancelled(m) => Current(m) # Current(n) \/ UNCHANGED keys
  BY CurrentIsOwn
<1>3. \A m \in Node : NewSession(m) => <<m, attempt[m] + 1>> # Current(n)
  BY MaxCampaignsAssumption DEF NewSession, Current, ElectionTypeOK
<1>4. elected \subseteq elected'
  BY DEF ElectionNext, electionVars, NewSession, Propose, ProposeFails, Elected, WaitFails,
         WaitCancelled, MasterExit, LatePut, LeaseExpires, SessionDone
<1>5. ASSUME campaign[n] = "waiting"
      PROVE  LeaseHeld(Current(n))'
  <2>1. Current(n) \in Session /\ LeaseHeld(Current(n))
    BY <1>5, CurrentIsSession DEF LeadsUnderLease
  <2> QED
    BY <1>2, <1>3, <1>1, <2>1, HeldStays DEF LeaseHeld
<1>6. ASSUME Leading(n)
      PROVE  Current(n)' \in elected' /\ LeaseHeld(Current(n))'
  <2>1. Current(n) \in elected /\ LeaseHeld(Current(n))
    BY <1>6 DEF LeadsUnderLease
  <2>2. Current(n) \in Session
    BY <2>1 DEF ElectionTypeOK
  <2> QED
    BY <1>1, <1>2, <1>3, <1>4, <2>1, <2>2, HeldStays DEF LeaseHeld
<1> QED
  BY <1>5, <1>6 DEF LeadsUnderLease

\* A step of the node's own loop in the election puts the key before the node
\* waits, and lets it lead only after it has waited.
LEMMA OwnCampaignStep ==
  ASSUME TypeOK, ElectionIInv, NEW n \in Node, LeadsUnderLease(n),
         \/ StartCampaign(n) \/ Candidate(n) \/ SessionRefused(n)
         \/ CampaignFails(n) \/ Won(n)
  PROVE  LeadsUnderLease(n)'
<1> USE DEF TypeOK, ElectionTypeOK
<1>1. CASE StartCampaign(n)
  <2>1. campaign'[n] = "proposing" /\ pc'[n] = "campaigning"
    BY <1>1 DEF StartCampaign, Goto, NewSession
  <2> QED
    BY <2>1 DEF LeadsUnderLease, Leading
<1>2. CASE Candidate(n)
  <2>1. pc'[n] = "campaigning" /\ Current(n)' = Current(n) /\ Current(n) \in keys'
    BY <1>2 DEF Candidate, Propose, PutKey, serviceVars, Current
  <2> QED
    BY <2>1 DEF LeadsUnderLease, LeaseHeld, Leading
<1>3. CASE SessionRefused(n) \/ CampaignFails(n)
  <2>1. campaign'[n] = "idle" /\ pc'[n] = "sleeping"
    BY <1>3 DEF SessionRefused, CampaignFails, Goto, ProposeFails, WaitFails, WaitCancelled
  <2> QED
    BY <2>1 DEF LeadsUnderLease, Leading
<1>4. CASE Won(n)
  <2>1. campaign[n] = "waiting" /\ campaign'[n] = "idle" /\ Current(n)' = Current(n)
        /\ Current(n) \in elected' /\ keys' = keys /\ lease' = lease
    BY <1>4 DEF Won, Elected, Current
  <2>2. LeaseHeld(Current(n))
    BY <2>1 DEF LeadsUnderLease
  <2> QED
    BY <2>1, <2>2 DEF LeadsUnderLease, LeaseHeld
<1> QED
  BY <1>1, <1>2, <1>3, <1>4

\* Every other step leaves a node with its session, its key and its place, unless
\* it takes it out of them.
LEMMA OtherStep ==
  ASSUME TypeOK, [Next]_vars, NEW n \in Node,
         ~ StartCampaign(n), ~ Candidate(n), ~ SessionRefused(n),
         ~ CampaignFails(n), ~ Won(n)
  PROVE  /\ WaitCancelled(n) => UNCHANGED keys
         /\ attempt'[n] = attempt[n]
         /\ campaign'[n] = "waiting" => campaign[n] = "waiting"
         /\ Leading(n)' => Leading(n)
<1> DEFINE Stays == /\ WaitCancelled(n) => UNCHANGED keys
                    /\ attempt'[n] = attempt[n]
                    /\ campaign'[n] = "waiting" => campaign[n] = "waiting"
                    /\ Leading(n)' => Leading(n)
<1> USE DEF TypeOK, ElectionTypeOK, Leading, Up
<1>1. CASE UNCHANGED vars
  BY <1>1 DEF vars, electionVars, serviceVars
<1>2. ASSUME NEW m \in Node, m # n,
             \/ StartCampaign(m) \/ Candidate(m) \/ SessionRefused(m)
             \/ CampaignFails(m) \/ Won(m)
      PROVE  Stays
  <2>1. /\ attempt'[n] = attempt[n] /\ campaign'[n] = campaign[n]
        /\ pc'[n] = pc[n] /\ process' = process
    BY <1>2 DEF StartCampaign, Candidate, SessionRefused, CampaignFails, Won, Goto,
                NewSession, Propose, ProposeFails, WaitFails, WaitCancelled, Elected,
                serviceVars
  <2> QED
    BY <2>1 DEF WaitCancelled
<1>3. ASSUME NEW m \in Node,
             \/ CampaignWithoutSession(m) \/ Wake(m) \/ LoadJobs(m) \/ LoadFails(m)
             \/ LostLeadership(m) \/ Return(m) \/ StartCron(m) \/ StopCron(m)
             \/ Cancel(m)
      PROVE  Stays
  BY <1>3 DEF CampaignWithoutSession, Wake, LoadJobs, LoadFails, LostLeadership, Return,
              StartCron, StopCron, Cancel, Goto, electionVars
<1>4. ASSUME NEW m \in Node, Exit(m) \/ Crash(m)
      PROVE  Stays
  BY <1>4 DEF Exit, Crash, EndProcess, MasterExit
<1>5. ASSUME NEW s \in Session, SessionStep(s) \/ LateCandidate(s)
      PROVE  Stays
  BY <1>5 DEF SessionStep, LateCandidate, LeaseExpires, SessionDone, LatePut, WaitCancelled,
              serviceVars
<1> QED
  BY <1>1, <1>2, <1>3, <1>4, <1>5 DEF Next, Serve

\* A master waits and leads under the lease of its session: MasterIInv holds in
\* every reachable state.
THEOREM MasterInductive == Spec => []MasterIInv
<1> DEFINE L == \A n \in Node : LeadsUnderLease(n)
<1>1. Init => L
  BY DEF Init, ElectionInit, LeadsUnderLease, Leading
<1>2. L /\ TypeOK /\ ElectionIInv /\ [Next]_vars => L'
  <2> SUFFICES ASSUME L, TypeOK, ElectionIInv, [Next]_vars, NEW n \in Node
               PROVE  LeadsUnderLease(n)'
    OBVIOUS
  <2>1. CASE \/ StartCampaign(n) \/ Candidate(n) \/ SessionRefused(n)
             \/ CampaignFails(n) \/ Won(n)
    BY <2>1, OwnCampaignStep
  <2>2. CASE ~ (\/ StartCampaign(n) \/ Candidate(n) \/ SessionRefused(n)
                \/ CampaignFails(n) \/ Won(n))
    BY <2>2, OtherStep, NextUsesElection, LeadsUnderLeaseStays
  <2> QED
    BY <2>1, <2>2
<1>3. L /\ TypeOK /\ ElectionIInv => MasterIInv
  BY DEF MasterIInv
<1> HIDE DEF L
<1> QED
  BY <1>1, <1>2, <1>3, MasterTypeCorrect, MasterElectionInv, PTL DEF Spec

\* Of two masters that act as leaders, one has lost its lease: two that both have
\* it would both have their key, and be one (Start, schedular_service.go:36-50).
THEOREM MasterLiveLeaderExclusive == Spec => []LiveLeaderExclusive
<1>1. MasterIInv => LiveLeaderExclusive
  <2> SUFFICES ASSUME MasterIInv, NEW m \in Node, NEW n \in Node,
                      Leading(m), Leading(n),
                      lease[Current(m)] # "gone", lease[Current(n)] # "gone"
               PROVE  m = n
    BY DEF LiveLeaderExclusive
  <2>1. Current(m) \in keys \cap elected /\ Current(n) \in keys \cap elected
    BY DEF MasterIInv, LeadsUnderLease, LeaseHeld
  <2>2. Current(m) = Current(n)
    BY <2>1, LeaderKeyIsUnique DEF MasterIInv, OneLeaderKey
  <2> QED
    BY <2>2, CurrentIsOwn
<1> QED
  BY <1>1, MasterInductive, PTL

\* A cron that runs has a goroutine that will stop it (Start, cron_scheduler.go:36-43):
\* the one that stopped cron last stopped it for all, and one that starts it after
\* that is itself left waiting.
THEOREM MasterCronCanBeStopped == Spec => []CronCanBeStopped
<1>1. Init => CronCanBeStopped
  BY DEF Init, CronCanBeStopped
<1>2. TypeOK /\ CronCanBeStopped /\ [Next]_vars => CronCanBeStopped'
  <2> SUFFICES ASSUME TypeOK, CronCanBeStopped, [Next]_vars
               PROVE  CronCanBeStopped'
    OBVIOUS
  <2>1. \/ UNCHANGED <<waiting, cron>>
        \/ \E n \in Node : StartCron(n) \/ StopCron(n) \/ EndProcess(n)
    BY DEF Next, Serve, vars, serviceVars, StartCampaign, Candidate, SessionRefused, Won,
           Wake, LoadJobs, LostLeadership, Return, CampaignWithoutSession, CampaignFails,
           LoadFails, Cancel, Exit, Crash, SessionStep, LateCandidate
  <2> QED
    BY <2>1 DEF CronCanBeStopped, StartCron, StopCron, EndProcess, TypeOK
<1> QED
  BY <1>1, <1>2, MasterTypeCorrect, PTL DEF Spec

\* A cron that runs was started by a term in which the node was told to lead and
\* listed the jobs (runSchedular, schedular_service.go:58-78): MasterIInv says that
\* a node that is about to list them was told so.
THEOREM MasterCronWasLoadedAsLeader == Spec => []CronWasLoadedAsLeader
<1>1. Init => CronWasLoadedAsLeader
  BY DEF Init, CronWasLoadedAsLeader
<1>2. CronWasLoadedAsLeader /\ MasterIInv /\ [Next]_vars => CronWasLoadedAsLeader'
  <2> SUFFICES ASSUME CronWasLoadedAsLeader, MasterIInv, [Next]_vars
               PROVE  CronWasLoadedAsLeader'
    OBVIOUS
  <2>1. elected \subseteq elected'
    BY NextUsesElection
       DEF ElectionNext, electionVars, NewSession, Propose, ProposeFails, Elected, WaitFails,
           WaitCancelled, MasterExit, LatePut, LeaseExpires, SessionDone
  <2>2. \/ UNCHANGED <<loaded, cron, starting>>
        \/ \E n \in Node : LoadJobs(n) \/ StartCron(n) \/ StopCron(n) \/ EndProcess(n)
    BY DEF Next, Serve, vars, serviceVars, StartCampaign, Candidate, SessionRefused, Won,
           Wake, LostLeadership, Return, CampaignWithoutSession, CampaignFails,
           LoadFails, Cancel, Exit, Crash, SessionStep, LateCandidate
  <2>3. ASSUME NEW n \in Node, LoadJobs(n)
        PROVE  CronWasLoadedAsLeader'
    <3>1. Current(n) \in elected
      BY <2>3 DEF LoadJobs, Goto, Leading, MasterIInv, LeadsUnderLease
    <3>2. loaded' = [loaded EXCEPT ![n] = attempt[n]] /\ cron' = cron
          /\ loaded \in [Node -> 0..MaxCampaigns]
          /\ \A m \in Node \ {n} : starting'[m] = starting[m]
      BY <2>3 DEF LoadJobs, MasterIInv, TypeOK
    <3> QED
      BY <2>1, <3>1, <3>2 DEF CronWasLoadedAsLeader, Current
  <2>4. ASSUME NEW n \in Node, StartCron(n) \/ StopCron(n) \/ EndProcess(n)
        PROVE  CronWasLoadedAsLeader'
    BY <2>1, <2>4
       DEF StartCron, StopCron, EndProcess, CronWasLoadedAsLeader, MasterIInv, TypeOK
  <2> QED
    BY <2>1, <2>2, <2>3, <2>4 DEF CronWasLoadedAsLeader
<1> QED
  BY <1>1, <1>2, MasterInductive, PTL DEF Spec
=============================================================================
