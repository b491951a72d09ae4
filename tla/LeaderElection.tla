--------------------------- MODULE LeaderElection ----------------------------
(***************************************************************************)
(* The election of the leading master: etcdLeaderElectionManager.Campaign  *)
(* (internal/infra/etcd/etcd_leader_election.go) over an etcd session and  *)
(* the client library's Election.                                          *)
(*                                                                         *)
(* Each call of Campaign opens a new session and puts a candidate key that *)
(* lives as long as the session's lease.  The library then waits until no  *)
(* key with an older create revision is left; it does not look at the      *)
(* candidate's own key, so a candidate whose lease expired while it waited *)
(* is told that it leads.                                                  *)
(***************************************************************************)
EXTENDS Naturals

CONSTANTS
  Node,          \* the master nodes
  MaxCampaigns   \* bound: how often a node may call Campaign

ASSUME MaxCampaignsAssumption == MaxCampaigns \in Nat

VARIABLES
  attempt,   \* attempt[n]: the number of sessions that n has opened
  campaign,  \* campaign[n]: where n is in Campaign
  lease,     \* lease[s]: the lease of session s
  keys,      \* the sessions whose candidate key is in etcd
  late,      \* the sessions whose put was given up but may yet reach etcd
  rank,      \* rank[s]: the create revision of s's candidate key, 0 before
  revision,  \* the last create revision that etcd has given
  doneChan,  \* the sessions whose Done channel is closed
  elected,   \* the sessions whose Campaign returned without an error
  isLeader   \* isLeader[n]: the manager's flag

electionVars == <<attempt, campaign, lease, keys, late, rank, revision,
                  doneChan, elected, isLeader>>

Session == Node \X (1..MaxCampaigns)

\* The session that n opened last.
Current(n) == <<n, attempt[n]>>

Phases == {"idle", "proposing", "waiting"}
Leases == {"none", "alive", "orphaned", "gone"}

\* The candidates that etcd has ahead of s.
Older(s) == {t \in keys : rank[t] < rank[s]}

ElectionInit ==
  /\ attempt  = [n \in Node |-> 0]
  /\ campaign = [n \in Node |-> "idle"]
  /\ lease    = [s \in Session |-> "none"]
  /\ keys     = {}
  /\ late     = {}
  /\ rank     = [s \in Session |-> 0]
  /\ revision = 0
  /\ doneChan = {}
  /\ elected  = {}
  /\ isLeader = [n \in Node |-> FALSE]

-----------------------------------------------------------------------------
(* Campaign *)

\* concurrency.NewSession: a lease is granted and renewed from now on.
NewSession(n) ==
  /\ campaign[n] = "idle"
  /\ attempt[n] < MaxCampaigns
  /\ attempt'  = [attempt EXCEPT ![n] = @ + 1]
  /\ campaign' = [campaign EXCEPT ![n] = "proposing"]
  /\ lease'    = [lease EXCEPT ![<<n, attempt[n] + 1>>] = "alive"]
  /\ UNCHANGED <<keys, late, rank, revision, doneChan, elected, isLeader>>

\* The candidate key of session s is put, with the next create revision.
PutKey(s) ==
  /\ lease[s] \in {"alive", "orphaned"}
  /\ keys'     = keys \cup {s}
  /\ revision' = revision + 1
  /\ rank'     = [rank EXCEPT ![s] = revision + 1]

\* Election.Campaign puts the candidate key.
Propose(n) ==
  /\ campaign[n] = "proposing"
  /\ PutKey(Current(n))
  /\ campaign' = [campaign EXCEPT ![n] = "waiting"]
  /\ UNCHANGED <<attempt, lease, late, doneChan, elected, isLeader>>

\* The put of session s that nobody waits for any more may still be applied.
GiveUp(s) ==
  late' \in {late, IF lease[s] = "gone" THEN late ELSE late \cup {s}}

\* The put fails, as far as the client knows.  Campaign returns the error and
\* leaves the session as it is: open, and renewed.
ProposeFails(n) ==
  /\ campaign[n] = "proposing"
  /\ campaign' = [campaign EXCEPT ![n] = "idle"]
  /\ GiveUp(Current(n))
  /\ UNCHANGED <<attempt, lease, keys, rank, revision, doneChan, elected, isLeader>>

\* etcd applies a put that was given up.
LatePut(s) ==
  /\ s \in late
  /\ PutKey(s)
  /\ late' = late \ {s}
  /\ UNCHANGED <<attempt, campaign, lease, doneChan, elected, isLeader>>

\* Faulty variant of Elected: nobody looks for older candidates.
ElectedAtOnce(n) ==
  /\ campaign[n] = "waiting"
  /\ campaign' = [campaign EXCEPT ![n] = "idle"]
  /\ elected'  = elected \cup {Current(n)}
  /\ isLeader' = [isLeader EXCEPT ![n] = TRUE]
  /\ UNCHANGED <<attempt, lease, keys, late, rank, revision, doneChan>>

\* Faulty variant of Elected: it waits for the candidate just before it only.
ElectedAfterPredecessor(n) ==
  /\ campaign[n] = "waiting"
  /\ \A t \in keys : rank[t] + 1 # rank[Current(n)]
  /\ campaign' = [campaign EXCEPT ![n] = "idle"]
  /\ elected'  = elected \cup {Current(n)}
  /\ isLeader' = [isLeader EXCEPT ![n] = TRUE]
  /\ UNCHANGED <<attempt, lease, keys, late, rank, revision, doneChan>>

\* No older candidate is left: Campaign sets the flag and returns the session's
\* Done channel.
Elected(n) ==
  /\ campaign[n] = "waiting"
  /\ Older(Current(n)) = {}
  /\ campaign' = [campaign EXCEPT ![n] = "idle"]
  /\ elected'  = elected \cup {Current(n)}
  /\ isLeader' = [isLeader EXCEPT ![n] = TRUE]
  /\ UNCHANGED <<attempt, lease, keys, late, rank, revision, doneChan>>

\* A read or a watch of the older candidates fails.  Campaign returns the
\* error; the candidate key stays, under a lease that is still renewed.
WaitFails(n) ==
  /\ campaign[n] = "waiting"
  /\ campaign' = [campaign EXCEPT ![n] = "idle"]
  /\ UNCHANGED <<attempt, lease, keys, late, rank, revision, doneChan, elected,
                 isLeader>>

\* The context ends while Campaign waits: the library deletes the candidate
\* key, if it can, and Campaign returns the error.
WaitCancelled(n) ==
  /\ campaign[n] = "waiting"
  /\ campaign' = [campaign EXCEPT ![n] = "idle"]
  /\ keys' \in {keys, keys \ {Current(n)}}
  /\ UNCHANGED <<attempt, lease, late, rank, revision, doneChan, elected, isLeader>>

-----------------------------------------------------------------------------
(* The sessions *)

\* etcd lets the lease of s expire, and deletes its key.
LeaseExpires(s) ==
  /\ lease[s] \in {"alive", "orphaned"}
  /\ lease' = [lease EXCEPT ![s] = "gone"]
  /\ keys'  = keys \ {s}
  /\ late'  = late \ {s}
  /\ UNCHANGED <<attempt, campaign, rank, revision, doneChan, elected, isLeader>>

\* The client gives up renewing the lease of s, because etcd says that it is
\* gone or does not answer for the TTL, and closes the Done channel.
SessionDone(s) ==
  /\ lease[s] # "none"
  /\ s \notin doneChan
  /\ doneChan' = doneChan \cup {s}
  /\ lease' = [lease EXCEPT ![s] = IF @ = "alive" THEN "orphaned" ELSE @]
  /\ UNCHANGED <<attempt, campaign, keys, late, rank, revision, elected, isLeader>>

\* The process of n ends: its leases are not renewed any more.  A put it has
\* just sent may still arrive.
MasterExit(n) ==
  /\ campaign' = [campaign EXCEPT ![n] = "idle"]
  /\ isLeader' = [isLeader EXCEPT ![n] = FALSE]
  /\ lease'    = [s \in Session |-> IF s[1] = n /\ lease[s] = "alive"
                                      THEN "orphaned" ELSE lease[s]]
  /\ doneChan' = doneChan \cup {s \in Session : s[1] = n /\ lease[s] # "none"}
  /\ IF campaign[n] = "proposing" THEN GiveUp(Current(n)) ELSE UNCHANGED late
  /\ UNCHANGED <<attempt, keys, rank, revision, elected>>

-----------------------------------------------------------------------------
ElectionNext ==
  \/ \E n \in Node : NewSession(n)
  \/ \E n \in Node : Propose(n)
  \/ \E n \in Node : ProposeFails(n)
  \/ \E n \in Node : Elected(n)
  \/ \E n \in Node : WaitFails(n)
  \/ \E n \in Node : WaitCancelled(n)
  \/ \E n \in Node : MasterExit(n)
  \/ \E s \in Session : LatePut(s)
  \/ \E s \in Session : LeaseExpires(s)
  \/ \E s \in Session : SessionDone(s)

ElectionSpec == ElectionInit /\ [][ElectionNext]_electionVars

-----------------------------------------------------------------------------
(* Properties *)

ElectionTypeOK ==
  /\ attempt  \in [Node -> 0..MaxCampaigns]
  /\ campaign \in [Node -> Phases]
  /\ lease    \in [Session -> Leases]
  /\ keys     \in SUBSET Session
  /\ late     \in SUBSET Session
  /\ rank     \in [Session -> Nat]
  /\ revision \in Nat
  /\ doneChan \in SUBSET Session
  /\ elected  \in SUBSET Session
  /\ isLeader \in [Node -> BOOLEAN]

\* At most one of the sessions that were told to lead has its key in etcd,
\* whatever campaigns failed half-way, expired while waiting or were repeated.
OneLeaderKey ==
  \A s, t \in keys \cap elected : s = t

\* The leadership passes in the order of the candidate keys: a session is told
\* to lead only after every session that was a candidate before it has gone.
LeadershipInOrder ==
  \A s \in elected : \A t \in keys : rank[t] >= rank[s]

\* The election implements the lease lock, with one lock to own.
LeaseLock == INSTANCE LeaseLock
               WITH Client <- Session,
                    Name   <- {"/cron/leader"},
                    owners <- [n \in {"/cron/leader"} |-> keys \cap elected],
                    spent  <- elected

ImplementsLeaseLock == LeaseLock!LeaseSpec
=============================================================================
