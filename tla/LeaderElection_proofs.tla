------------------------ MODULE LeaderElection_proofs ------------------------
(***************************************************************************)
(* Proofs about LeaderElection, for every set of nodes and every bound on  *)
(* their campaigns.                                                        *)
(*                                                                         *)
(* A session is told to lead when etcd has no older candidate.  That this  *)
(* stays so rests on the create revisions: a candidate key that appears    *)
(* later, even by a put that everybody has given up, is younger than all   *)
(* that were there, and no session puts its key after it has been told to  *)
(* lead.                                                                   *)
(***************************************************************************)
EXTENDS LeaderElection, TLAPS

\* Create revisions do not exceed etcd's, and tell the candidates apart.
RanksAreDistinct ==
  /\ \A s \in Session : rank[s] <= revision
  /\ \A s, t \in keys : rank[s] = rank[t] => s = t

\* A session that may still put its key has not put it, and does not lead.
UndecidedIsNew ==
  /\ \A s \in late : s \notin keys \cup elected
  /\ \A n \in Node : campaign[n] = "proposing"
                       => Current(n) \notin keys \cup elected \cup late

\* Sessions are numbered from 1; those that have not been opened have no part.
SessionsWereOpened ==
  /\ \A n \in Node : campaign[n] # "idle" => attempt[n] \in 1..MaxCampaigns
  /\ \A s \in keys \cup elected \cup late : s[2] <= attempt[s[1]]

\* A node that waits has not been told yet that its session leads.
WaitingIsNotElected ==
  \A n \in Node : campaign[n] = "waiting" => Current(n) \notin elected \cup late

ElectionIInv ==
  /\ ElectionTypeOK
  /\ RanksAreDistinct
  /\ UndecidedIsNew
  /\ SessionsWereOpened
  /\ WaitingIsNotElected
  /\ LeadershipInOrder

-----------------------------------------------------------------------------
\* A session is a node and the number of its campaign.
LEMMA SessionShape ==
  ASSUME NEW n \in Node, NEW i \in 1..MaxCampaigns
  PROVE  <<n, i>> \in Session /\ <<n, i>>[1] = n /\ <<n, i>>[2] = i
BY DEF Session

\* The parts of a session, by name.
LEMMA SessionParts ==
  ASSUME NEW s \in Session
  PROVE  s[1] \in Node /\ s[2] \in 1..MaxCampaigns /\ s = <<s[1], s[2]>>
BY DEF Session

\* A node that is in Campaign has opened a session.
LEMMA CurrentIsSession ==
  ASSUME ElectionTypeOK, SessionsWereOpened, NEW n \in Node, campaign[n] # "idle"
  PROVE  Current(n) \in Session
BY SessionShape DEF SessionsWereOpened, Current

\* The put of a candidate key leaves the keys and revisions well typed.
LEMMA PutKeyIsTyped ==
  ASSUME ElectionTypeOK, NEW s \in Session, PutKey(s)
  PROVE  /\ keys' \in SUBSET Session
         /\ rank' \in [Session -> Nat]
         /\ revision' \in Nat
BY DEF PutKey, ElectionTypeOK

\* The state stays well typed.
LEMMA TypeKept ==
  ASSUME ElectionTypeOK, SessionsWereOpened, [ElectionNext]_electionVars
  PROVE  ElectionTypeOK'
<1> USE DEF ElectionTypeOK
<1>1. CASE UNCHANGED electionVars
  BY <1>1 DEF electionVars
<1>2. ASSUME NEW n \in Node, NewSession(n)
      PROVE  ElectionTypeOK'
  <2>1. attempt[n] + 1 \in 1..MaxCampaigns
    BY <1>2, MaxCampaignsAssumption DEF NewSession
  <2>2. attempt' \in [Node -> 0..MaxCampaigns]
    BY <1>2, <2>1 DEF NewSession
  <2>3. campaign' \in [Node -> Phases] /\ lease' \in [Session -> Leases]
    BY <1>2 DEF NewSession, Phases, Leases
  <2> QED
    BY <1>2, <2>2, <2>3 DEF NewSession
<1>3. ASSUME NEW n \in Node, Propose(n)
      PROVE  ElectionTypeOK'
  <2>1. Current(n) \in Session
    BY <1>3, CurrentIsSession DEF Propose
  <2>2. campaign' \in [Node -> Phases]
    BY <1>3 DEF Propose, Phases
  <2> QED
    BY <1>3, <2>1, <2>2, PutKeyIsTyped DEF Propose
<1>4. ASSUME NEW n \in Node, ProposeFails(n)
      PROVE  ElectionTypeOK'
  <2>1. Current(n) \in Session
    BY <1>4, CurrentIsSession DEF ProposeFails
  <2>2. campaign' \in [Node -> Phases] /\ late' \in SUBSET Session
    BY <1>4, <2>1 DEF ProposeFails, GiveUp, Phases
  <2> QED
    BY <1>4, <2>2 DEF ProposeFails
<1>5. ASSUME NEW n \in Node, Elected(n)
      PROVE  ElectionTypeOK'
  <2>1. Current(n) \in Session
    BY <1>5, CurrentIsSession DEF Elected
  <2>2. campaign' \in [Node -> Phases]
    BY <1>5 DEF Elected, Phases
  <2>3. isLeader' \in [Node -> BOOLEAN]
    BY <1>5, Zenon DEF Elected
  <2> QED
    BY <1>5, <2>1, <2>2, <2>3 DEF Elected
<1>6. ASSUME NEW n \in Node, WaitFails(n) \/ WaitCancelled(n)
      PROVE  ElectionTypeOK'
  <2>1. campaign' \in [Node -> Phases] /\ keys' \in SUBSET Session
    BY <1>6 DEF WaitFails, WaitCancelled, Phases
  <2> QED
    BY <1>6, <2>1 DEF WaitFails, WaitCancelled
<1>7. ASSUME NEW n \in Node, MasterExit(n)
      PROVE  ElectionTypeOK'
  <2>1. campaign' \in [Node -> Phases] /\ lease' \in [Session -> Leases]
    BY <1>7 DEF MasterExit, Phases, Leases
  <2>2. late' \in SUBSET Session /\ doneChan' \in SUBSET Session
    BY <1>7, CurrentIsSession DEF MasterExit, GiveUp
  <2>3. isLeader' \in [Node -> BOOLEAN]
    BY <1>7, Zenon DEF MasterExit
  <2> QED
    BY <1>7, <2>1, <2>2, <2>3 DEF MasterExit
<1>8. ASSUME NEW s \in Session, LatePut(s)
      PROVE  ElectionTypeOK'
  BY <1>8, PutKeyIsTyped DEF LatePut
<1>9. ASSUME NEW s \in Session, LeaseExpires(s) \/ SessionDone(s)
      PROVE  ElectionTypeOK'
  <2>1. lease' \in [Session -> Leases] /\ doneChan' \in SUBSET Session
    BY <1>9 DEF LeaseExpires, SessionDone, Leases
  <2> QED
    BY <1>9, <2>1 DEF LeaseExpires, SessionDone
<1> QED
  BY <1>1, <1>2, <1>3, <1>4, <1>5, <1>6, <1>7, <1>8, <1>9 DEF ElectionNext

-----------------------------------------------------------------------------
\* A new candidate key is younger than every session that leads.
LEMMA PutKeyKeepsOrder ==
  ASSUME ElectionIInv, NEW s \in Session, PutKey(s), s \notin keys \cup elected,
         elected' = elected
  PROVE  RanksAreDistinct' /\ LeadershipInOrder'
<1> USE DEF ElectionIInv, ElectionTypeOK
<1>1. /\ keys' = keys \cup {s} /\ revision' = revision + 1
      /\ rank' = [rank EXCEPT ![s] = revision + 1]
  BY DEF PutKey
<1>2. \A t \in Session : rank[t] <= revision /\ rank[t] \in Nat
  BY DEF RanksAreDistinct
<1>3. RanksAreDistinct'
  BY <1>1, <1>2 DEF RanksAreDistinct
<1>4. LeadershipInOrder'
  BY <1>1, <1>2 DEF LeadershipInOrder
<1> QED
  BY <1>3, <1>4

\* Two nodes never use the same session.
LEMMA CurrentIsOwn ==
  ASSUME NEW m \in Node, NEW n \in Node, Current(m) = Current(n)
  PROVE  m = n
BY DEF Current

\* Every action but NewSession leaves the numbering alone.
LEMMA OpenedKept ==
  ASSUME ElectionTypeOK, SessionsWereOpened, attempt' = attempt,
         \A n \in Node : campaign'[n] # "idle" => campaign[n] # "idle",
         \A s \in Session : s \in keys' \cup elected' \cup late'
           => \/ s \in keys \cup elected \cup late
              \/ \E n \in Node : s = Current(n),
         keys' \cup elected' \cup late' \subseteq Session
  PROVE  SessionsWereOpened'
<1>1. ASSUME NEW s \in keys' \cup elected' \cup late'
      PROVE  s[2] <= attempt[s[1]]
  <2>1. CASE s \in keys \cup elected \cup late
    BY <2>1 DEF SessionsWereOpened
  <2>2. ASSUME NEW n \in Node, s = Current(n)
        PROVE  s[2] <= attempt[s[1]]
    <3>1. s[1] = n /\ s[2] = attempt[n]
      BY <2>2 DEF Current
    <3>2. attempt[n] \in Nat
      BY MaxCampaignsAssumption DEF ElectionTypeOK
    <3> QED
      BY <3>1, <3>2
  <2> QED
    BY <2>1, <2>2
<1> QED
  BY <1>1 DEF SessionsWereOpened

\* A new session has no key and is told nothing yet.
LEMMA NewSessionKeepsInv ==
  ASSUME ElectionIInv, ElectionTypeOK', NEW n \in Node, NewSession(n)
  PROVE  ElectionIInv'
<1> USE DEF ElectionIInv
<1>1. /\ campaign[n] = "idle" /\ attempt[n] < MaxCampaigns
      /\ attempt' = [attempt EXCEPT ![n] = attempt[n] + 1]
      /\ campaign' = [campaign EXCEPT ![n] = "proposing"]
      /\ UNCHANGED <<keys, late, rank, revision, elected>>
  BY DEF NewSession
<1>2. attempt[n] + 1 \in 1..MaxCampaigns /\ attempt'[n] = attempt[n] + 1
  BY <1>1, MaxCampaignsAssumption DEF ElectionTypeOK
<1>3. Current(n)' = <<n, attempt[n] + 1>>
  BY <1>2 DEF Current
<1>4. \A m \in Node \ {n} : Current(m)' = Current(m) /\ campaign'[m] = campaign[m]
  BY <1>1 DEF Current, ElectionTypeOK
<1>5. <<n, attempt[n] + 1>> \notin keys \cup elected \cup late
  BY <1>2, SessionShape DEF SessionsWereOpened, ElectionTypeOK
<1>6. RanksAreDistinct' /\ LeadershipInOrder'
  BY <1>1 DEF RanksAreDistinct, LeadershipInOrder
<1>7. UndecidedIsNew'
  <2>1. campaign'[n] = "proposing"
    BY <1>1 DEF ElectionTypeOK
  <2> QED
    BY <1>1, <1>3, <1>4, <1>5, <2>1 DEF UndecidedIsNew
<1>8. WaitingIsNotElected'
  <2>1. campaign'[n] = "proposing"
    BY <1>1 DEF ElectionTypeOK
  <2> QED
    BY <1>1, <1>4, <2>1 DEF WaitingIsNotElected
<1>9. SessionsWereOpened'
  <2>1. ASSUME NEW s \in keys \cup elected \cup late
        PROVE  s[2] <= attempt'[s[1]]
    <3>1. s[1] \in Node /\ s[2] \in Nat /\ s[2] <= attempt[s[1]]
      BY SessionParts DEF SessionsWereOpened, ElectionTypeOK
    <3>2. attempt[s[1]] \in Nat
      BY <3>1, MaxCampaignsAssumption DEF ElectionTypeOK
    <3>3. attempt[s[1]] <= attempt'[s[1]]
      BY <1>1, <3>1, <3>2 DEF ElectionTypeOK
    <3>4. attempt'[s[1]] \in Nat
      BY <3>1, MaxCampaignsAssumption DEF ElectionTypeOK
    <3> QED
      BY <3>1, <3>2, <3>3, <3>4
  <2>2. \A m \in Node : campaign'[m] # "idle" => attempt'[m] \in 1..MaxCampaigns
    BY <1>1, <1>2 DEF SessionsWereOpened, ElectionTypeOK
  <2> QED
    BY <1>1, <2>1, <2>2 DEF SessionsWereOpened
<1> QED
  BY <1>6, <1>7, <1>8, <1>9

\* A candidate key is put, in time or late.
LEMMA PutKeepsInv ==
  ASSUME ElectionIInv, ElectionTypeOK',
         \/ \E n \in Node : Propose(n)
         \/ \E s \in Session : LatePut(s)
  PROVE  ElectionIInv'
<1> USE DEF ElectionIInv
<1>1. ASSUME NEW n \in Node, Propose(n)
      PROVE  ElectionIInv'
  <2>1. campaign[n] = "proposing" /\ campaign' = [campaign EXCEPT ![n] = "waiting"]
        /\ PutKey(Current(n)) /\ UNCHANGED <<attempt, late, elected>>
    BY <1>1 DEF Propose
  <2>2. Current(n) \in Session
    BY <2>1, CurrentIsSession
  <2>3. Current(n) \notin keys \cup elected \cup late
    BY <2>1 DEF UndecidedIsNew
  <2>4. keys' = keys \cup {Current(n)} /\ \A m \in Node : Current(m)' = Current(m)
    BY <2>1 DEF PutKey, Current
  <2>5. campaign'[n] = "waiting" /\ \A m \in Node \ {n} : campaign'[m] = campaign[m]
    BY <2>1 DEF ElectionTypeOK
  <2>6. RanksAreDistinct' /\ LeadershipInOrder'
    BY <2>1, <2>2, <2>3, PutKeyKeepsOrder
  <2>7. UndecidedIsNew' /\ WaitingIsNotElected'
    BY <2>1, <2>3, <2>4, <2>5, CurrentIsOwn DEF UndecidedIsNew, WaitingIsNotElected
  <2>8. SessionsWereOpened'
    BY <2>1, <2>4, <2>5, OpenedKept DEF ElectionTypeOK
  <2> QED
    BY <2>6, <2>7, <2>8
<1>2. ASSUME NEW s \in Session, LatePut(s)
      PROVE  ElectionIInv'
  <2>1. s \in late /\ PutKey(s) /\ late' = late \ {s}
        /\ UNCHANGED <<attempt, campaign, elected>>
    BY <1>2 DEF LatePut
  <2>2. s \notin keys \cup elected
    BY <2>1 DEF UndecidedIsNew
  <2>3. keys' = keys \cup {s} /\ \A m \in Node : Current(m)' = Current(m)
    BY <2>1 DEF PutKey, Current
  <2>4. RanksAreDistinct' /\ LeadershipInOrder'
    BY <2>1, <2>2, PutKeyKeepsOrder
  <2>5. UndecidedIsNew' /\ WaitingIsNotElected'
    BY <2>1, <2>3 DEF UndecidedIsNew, WaitingIsNotElected
  <2>6. SessionsWereOpened'
    BY <2>1, <2>3, OpenedKept DEF ElectionTypeOK
  <2> QED
    BY <2>4, <2>5, <2>6
<1> QED
  BY <1>1, <1>2

\* A put is given up: it becomes late.
LEMMA GiveUpKeepsInv ==
  ASSUME ElectionIInv, ElectionTypeOK', NEW n \in Node,
         ProposeFails(n) \/ MasterExit(n)
  PROVE  ElectionIInv'
<1> USE DEF ElectionIInv
<1>1. /\ campaign' = [campaign EXCEPT ![n] = "idle"]
      /\ UNCHANGED <<attempt, keys, rank, revision, elected>>
      /\ late \subseteq late' /\ late' \subseteq late \cup {Current(n)}
      /\ campaign[n] # "proposing" => late' = late
  BY DEF ProposeFails, MasterExit, GiveUp
<1>2. \A m \in Node : Current(m)' = Current(m)
  BY <1>1 DEF Current
<1>3. campaign'[n] = "idle" /\ \A m \in Node \ {n} : campaign'[m] = campaign[m]
  BY <1>1 DEF ElectionTypeOK
<1>4. RanksAreDistinct' /\ LeadershipInOrder'
  BY <1>1 DEF RanksAreDistinct, LeadershipInOrder
<1>5. UndecidedIsNew' /\ WaitingIsNotElected'
  BY <1>1, <1>2, <1>3, CurrentIsOwn DEF UndecidedIsNew, WaitingIsNotElected
<1>6. SessionsWereOpened'
  BY <1>1, <1>3, OpenedKept DEF ElectionTypeOK
<1> QED
  BY <1>4, <1>5, <1>6

\* A session is told to lead: no older candidate is left.
LEMMA ElectedKeepsInv ==
  ASSUME ElectionIInv, ElectionTypeOK', NEW n \in Node, Elected(n)
  PROVE  ElectionIInv'
<1> USE DEF ElectionIInv
<1>1. /\ campaign[n] = "waiting" /\ Older(Current(n)) = {}
      /\ campaign' = [campaign EXCEPT ![n] = "idle"]
      /\ elected' = elected \cup {Current(n)}
      /\ UNCHANGED <<attempt, keys, late, rank, revision>>
  BY DEF Elected
<1>2. Current(n) \in Session
  BY <1>1, CurrentIsSession
<1>3. \A m \in Node : Current(m)' = Current(m)
  BY <1>1 DEF Current
<1>4. campaign'[n] = "idle" /\ \A m \in Node \ {n} : campaign'[m] = campaign[m]
  BY <1>1 DEF ElectionTypeOK
<1>5. RanksAreDistinct'
  BY <1>1 DEF RanksAreDistinct
<1>6. LeadershipInOrder'
  <2>1. \A t \in keys : rank[t] \in Nat /\ rank[Current(n)] \in Nat
    BY <1>2 DEF ElectionTypeOK
  <2>2. \A t \in keys : rank[t] >= rank[Current(n)]
    BY <1>1, <2>1 DEF Older
  <2> QED
    BY <1>1, <2>2 DEF LeadershipInOrder
<1>7. UndecidedIsNew' /\ WaitingIsNotElected'
  BY <1>1, <1>3, <1>4, CurrentIsOwn DEF UndecidedIsNew, WaitingIsNotElected
<1>8. SessionsWereOpened'
  BY <1>1, <1>4, OpenedKept DEF ElectionTypeOK
<1> QED
  BY <1>5, <1>6, <1>7, <1>8

\* A step that only takes keys away, or lets a call of Campaign fail.
LEMMA ShrinkKeepsInv ==
  ASSUME ElectionIInv, ElectionTypeOK',
         \/ \E n \in Node : WaitFails(n) \/ WaitCancelled(n)
         \/ \E s \in Session : LeaseExpires(s) \/ SessionDone(s)
  PROVE  ElectionIInv'
<1> USE DEF ElectionIInv
<1>1. /\ UNCHANGED <<attempt, rank, revision, elected>>
      /\ keys' \subseteq keys /\ late' \subseteq late
      /\ \A m \in Node : campaign'[m] \in {campaign[m], "idle"}
  BY DEF WaitFails, WaitCancelled, LeaseExpires, SessionDone, ElectionTypeOK
<1>2. \A m \in Node : Current(m)' = Current(m)
  BY <1>1 DEF Current
<1>3. RanksAreDistinct' /\ LeadershipInOrder'
  BY <1>1 DEF RanksAreDistinct, LeadershipInOrder
<1>4. UndecidedIsNew' /\ WaitingIsNotElected'
  BY <1>1, <1>2 DEF UndecidedIsNew, WaitingIsNotElected
<1>5. SessionsWereOpened'
  BY <1>1 DEF SessionsWereOpened
<1> QED
  BY <1>3, <1>4, <1>5

-----------------------------------------------------------------------------
\* ElectionIInv holds in every reachable state.
THEOREM ElectionInductive == ElectionSpec => []ElectionIInv
<1>1. ElectionInit => ElectionIInv
  <2> SUFFICES ASSUME ElectionInit
               PROVE  ElectionIInv
    OBVIOUS
  <2>1. ElectionTypeOK
    BY MaxCampaignsAssumption DEF ElectionInit, ElectionTypeOK, Phases, Leases
  <2> QED
    BY <2>1 DEF ElectionInit, ElectionIInv, RanksAreDistinct, UndecidedIsNew,
                SessionsWereOpened, WaitingIsNotElected, LeadershipInOrder
<1>2. ElectionIInv /\ [ElectionNext]_electionVars => ElectionIInv'
  <2> SUFFICES ASSUME ElectionIInv, [ElectionNext]_electionVars
               PROVE  ElectionIInv'
    OBVIOUS
  <2>1. ElectionTypeOK'
    BY TypeKept DEF ElectionIInv
  <2>2. CASE UNCHANGED electionVars
    BY <2>1, <2>2 DEF electionVars, ElectionIInv, RanksAreDistinct, UndecidedIsNew,
                 SessionsWereOpened, WaitingIsNotElected, LeadershipInOrder, Current
  <2>3. CASE ElectionNext
    BY <2>1, <2>3, NewSessionKeepsInv, PutKeepsInv, GiveUpKeepsInv, ElectedKeepsInv,
       ShrinkKeepsInv DEF ElectionNext
  <2> QED
    BY <2>2, <2>3
<1> QED
  BY <1>1, <1>2, PTL DEF ElectionSpec

\* The state of the election is well typed (etcd_leader_election.go as a whole).
THEOREM ElectionTypeCorrect == ElectionSpec => []ElectionTypeOK
<1>1. ElectionIInv => ElectionTypeOK
  BY DEF ElectionIInv
<1> QED
  BY <1>1, ElectionInductive, PTL

\* Leadership is passed on in the order of the candidate keys, however many
\* nodes campaign how often (Campaign, etcd_leader_election.go:39-62).
THEOREM ElectionInOrder == ElectionSpec => []LeadershipInOrder
<1>1. ElectionIInv => LeadershipInOrder
  BY DEF ElectionIInv
<1> QED
  BY <1>1, ElectionInductive, PTL

\* Two sessions that were told to lead never both have their key.
LEMMA LeaderKeyIsUnique ==
  ASSUME ElectionIInv
  PROVE  OneLeaderKey
<1> SUFFICES ASSUME NEW s \in keys \cap elected, NEW t \in keys \cap elected
             PROVE  s = t
  BY DEF OneLeaderKey
<1>1. rank[s] \in Nat /\ rank[t] \in Nat
  BY DEF ElectionIInv, ElectionTypeOK
<1>2. rank[s] = rank[t]
  BY <1>1 DEF ElectionIInv, LeadershipInOrder
<1> QED
  BY <1>2 DEF ElectionIInv, RanksAreDistinct

\* One leader at a time has its key in etcd, for every number of masters.
THEOREM ElectionOneLeader == ElectionSpec => []OneLeaderKey
<1>1. ElectionIInv => OneLeaderKey
  BY LeaderKeyIsUnique
<1> QED
  BY <1>1, ElectionInductive, PTL

-----------------------------------------------------------------------------
(* LeaderElection implements LeaseLock. *)

LeaderName == "/cron/leader"

\* A step that makes no leader is, for the abstract lock, a loss or nothing.
LEMMA QuietElectionStep ==
  ASSUME keys \in SUBSET Session, elected \in SUBSET Session, elected' = elected,
         keys' \cap elected' \subseteq keys \cap elected
  PROVE  LeaseLock!Lose
BY DEF LeaseLock!Lose

\* Campaign's success is the abstract Acquire, or AcquireTooLate if the lease
\* expired while it waited.
LEMMA ElectedMapsToAcquire ==
  ASSUME ElectionIInv, NEW n \in Node, Elected(n)
  PROVE  LeaseLock!LeaseNext
<1> DEFINE s == Current(n)
<1>1. /\ campaign[n] = "waiting" /\ Older(s) = {}
      /\ elected' = elected \cup {s} /\ keys' = keys
  BY DEF Elected
<1>2. s \in Session /\ s \notin elected
  BY <1>1, CurrentIsSession DEF ElectionIInv, WaitingIsNotElected
<1>3. CASE s \in keys
  <2>1. ASSUME NEW t \in keys \cap elected
        PROVE  FALSE
    <3>1. rank[s] \in Nat /\ rank[t] \in Nat
      BY <1>2 DEF ElectionIInv, ElectionTypeOK
    <3>2. rank[s] = rank[t]
      BY <1>1, <1>3, <3>1 DEF ElectionIInv, LeadershipInOrder, Older
    <3> QED
      BY <1>2, <1>3, <3>2 DEF ElectionIInv, RanksAreDistinct
  <2>2. keys \cap elected = {} /\ keys' \cap elected' = {s}
    BY <1>1, <1>3, <2>1
  <2>3. LeaseLock!Acquire(s, LeaderName)
    BY <1>1, <1>2, <2>2 DEF LeaseLock!Acquire, LeaderName
  <2> QED
    BY <1>2, <2>3 DEF LeaseLock!LeaseNext, LeaseLock!Acquire, LeaderName
<1>4. CASE s \notin keys
  <2>1. keys' \cap elected' = keys \cap elected
    BY <1>1, <1>4
  <2>2. LeaseLock!AcquireTooLate(s)
    BY <1>1, <1>2, <2>1 DEF LeaseLock!AcquireTooLate
  <2> QED
    BY <1>2, <2>2 DEF LeaseLock!LeaseNext, LeaseLock!AcquireTooLate
<1> QED
  BY <1>3, <1>4

\* The election implements the lease lock, with the leadership as its one lock.
THEOREM ElectionImplementsLeaseLock == ElectionSpec => ImplementsLeaseLock
<1>1. ElectionInit => LeaseLock!LeaseInit
  BY DEF ElectionInit, LeaseLock!LeaseInit
<1>2. ElectionIInv /\ [ElectionNext]_electionVars
        => [LeaseLock!LeaseNext]_(LeaseLock!leaseVars)
  <2> SUFFICES ASSUME ElectionIInv, [ElectionNext]_electionVars
               PROVE  [LeaseLock!LeaseNext]_(LeaseLock!leaseVars)
    OBVIOUS
  <2> USE DEF ElectionIInv, ElectionTypeOK
  <2>1. CASE UNCHANGED electionVars
    BY <2>1 DEF electionVars, LeaseLock!leaseVars
  <2>2. CASE \E n \in Node : Elected(n)
    BY <2>2, ElectedMapsToAcquire
  <2>3. CASE ElectionNext /\ ~ \E n \in Node : Elected(n)
    <3>1. elected' = elected
      BY <2>3 DEF ElectionNext, NewSession, Propose, ProposeFails, WaitFails,
         WaitCancelled, MasterExit, LatePut, LeaseExpires, SessionDone
    <3>2. keys' \cap elected \subseteq keys
      <4>1. ASSUME NEW n \in Node, Propose(n)
            PROVE  keys' = keys \cup {Current(n)} /\ Current(n) \notin elected
        BY <4>1 DEF Propose, PutKey, UndecidedIsNew
      <4>2. ASSUME NEW s \in Session, LatePut(s)
            PROVE  keys' = keys \cup {s} /\ s \notin elected
        BY <4>2 DEF LatePut, PutKey, UndecidedIsNew
      <4>3. ASSUME NEW n \in Node,
                   \/ NewSession(n) \/ ProposeFails(n) \/ WaitFails(n)
                   \/ WaitCancelled(n) \/ MasterExit(n)
            PROVE  keys' \subseteq keys
        BY <4>3 DEF NewSession, ProposeFails, WaitFails, WaitCancelled, MasterExit
      <4>4. ASSUME NEW s \in Session, LeaseExpires(s) \/ SessionDone(s)
            PROVE  keys' \subseteq keys
        BY <4>4 DEF LeaseExpires, SessionDone
      <4> QED
        BY <2>3, <4>1, <4>2, <4>3, <4>4 DEF ElectionNext
    <3> QED
      BY <3>1, <3>2, QuietElectionStep DEF LeaseLock!LeaseNext
  <2> QED
    BY <2>1, <2>2, <2>3
<1> QED
  BY <1>1, <1>2, ElectionInductive, PTL
     DEF ElectionSpec, ImplementsLeaseLock, LeaseLock!LeaseSpec
=============================================================================
