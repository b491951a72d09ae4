----------------------------- MODULE EtcdLocker ------------------------------
(***************************************************************************)
(* The distributed lock of the workers: etcdLocker.Lock and etcdLock.Unlock *)
(* (internal/infra/etcd/etcd_locker.go) over an etcd session and the        *)
(* client library's Mutex.                                                 *)
(*                                                                         *)
(* Every call of Lock opens a session (a lease that the client keeps        *)
(* alive), puts a key of its own under the lock's prefix and has the lock   *)
(* iff no other key was there.  A key is younger than all the keys it       *)
(* finds, so of the create revisions that etcd compares only this matters:  *)
(* whether there was another key.  No clock is modelled: a lease may        *)
(* expire at any moment (the worker cannot reach etcd for the TTL), and     *)
(* must expire some time after its client stopped renewing it.              *)
(***************************************************************************)

CONSTANTS
  Exec,     \* the executions; each calls Lock at most once
  Name      \* the lock names: the job names

VARIABLES
  stage,    \* stage[e]: how far e is with Lock and Unlock
  name,     \* name[e]: the lock that e asked for
  lease,    \* lease[e]: the lease of e's session, as etcd and the client hold it
  keys,     \* the executions whose key is in etcd
  inflight, \* those whose TryLock was given up but may yet reach etcd
  result    \* result[e]: what Lock returned, or will return once it has closed

lockerVars == <<stage, name, lease, keys, inflight, result>>

NoName == "no name"

ASSUME NameAssumption == NoName \notin Name

Stages  == {"idle", "trying", "losing", "held", "closing", "done", "dead"}
Leases  == {"none", "alive", "orphaned", "gone"}
Errors  == {"ErrLockNotAcquired", "otherError"}
Results == Errors \cup {"none", "ok"}

\* The keys other than e's under the prefix of e's lock.
Rivals(e) == {f \in keys \ {e} : name[f] = name[e]}

LockerInit ==
  /\ stage    = [e \in Exec |-> "idle"]
  /\ name     = [e \in Exec |-> NoName]
  /\ lease    = [e \in Exec |-> "none"]
  /\ keys     = {}
  /\ inflight = {}
  /\ result   = [e \in Exec |-> "none"]

-----------------------------------------------------------------------------
(* Lock *)

\* concurrency.NewSession granted the lease and renews it from now on.
NewSession(e, n) ==
  /\ stage[e] = "idle"
  /\ stage' = [stage EXCEPT ![e] = "trying"]
  /\ name'  = [name  EXCEPT ![e] = n]
  /\ lease' = [lease EXCEPT ![e] = "alive"]
  /\ UNCHANGED <<keys, inflight, result>>

\* concurrency.NewSession failed: Lock returns at once.
NewSessionFails(e, n) ==
  /\ stage[e] = "idle"
  /\ stage'  = [stage  EXCEPT ![e] = "done"]
  /\ name'   = [name   EXCEPT ![e] = n]
  /\ result' = [result EXCEPT ![e] = "otherError"]
  /\ UNCHANGED <<lease, keys, inflight>>

\* Faulty variant of TryLock: the transaction does not compare revisions.
TryLockWithoutCompare(e) ==
  /\ stage[e] = "trying"
  /\ lease[e] = "alive"
  /\ keys'   = keys \cup {e}
  /\ stage'  = [stage  EXCEPT ![e] = "held"]
  /\ result' = [result EXCEPT ![e] = "ok"]
  /\ UNCHANGED <<name, lease, inflight>>

\* TryLock's transaction was applied and answered: e's key is in, and e has
\* the lock iff there was no other.
TryLock(e) ==
  /\ stage[e] = "trying"
  /\ lease[e] = "alive"
  /\ keys' = keys \cup {e}
  /\ \/ /\ Rivals(e) = {}
        /\ stage'  = [stage  EXCEPT ![e] = "held"]
        /\ result' = [result EXCEPT ![e] = "ok"]
     \/ /\ Rivals(e) # {}
        /\ stage' = [stage EXCEPT ![e] = "losing"]
        /\ UNCHANGED result
  /\ UNCHANGED <<name, lease, inflight>>

\* Faulty variant of TryLockFails: the library's error is passed on as it is.
TryLockFailsUnwrapped(e) ==
  /\ stage[e] = "trying"
  /\ stage'  = [stage  EXCEPT ![e] = "closing"]
  /\ result' = [result EXCEPT ![e] = "ErrSessionExpired"]
  /\ UNCHANGED <<name, lease, keys, inflight>>

\* TryLock returned an error: its 100 ms ran out (ErrLockNotAcquired) or etcd
\* failed or no longer knew the lease (any other error).  The transaction may
\* be lost, or still under way.
TryLockFails(e) ==
  /\ stage[e] = "trying"
  /\ stage' = [stage EXCEPT ![e] = "closing"]
  /\ \E err \in Errors : result' = [result EXCEPT ![e] = err]
  /\ \/ UNCHANGED inflight
     \/ lease[e] = "alive" /\ inflight' = inflight \cup {e}
  /\ UNCHANGED <<name, lease, keys>>

\* etcd applies a TryLock that nobody waits for any more.
LateTryLock(e) ==
  /\ e \in inflight
  /\ keys'     = keys \cup {e}
  /\ inflight' = inflight \ {e}
  /\ UNCHANGED <<stage, name, lease, result>>

\* The lock is another's: TryLock deletes the key it has put and returns
\* ErrLocked, which Lock wraps into an error of its own.  The deletion may
\* fail too, with or without effect, and its error replaces ErrLocked.
DeleteOwnKey(e) ==
  /\ stage[e] = "losing"
  /\ stage' = [stage EXCEPT ![e] = "closing"]
  /\ \/ /\ keys'   = keys \ {e}
        /\ result' = [result EXCEPT ![e] = "otherError"]
     \/ /\ keys' \in {keys, keys \ {e}}
        /\ \E err \in Errors : result' = [result EXCEPT ![e] = err]
  /\ UNCHANGED <<name, lease, inflight>>

-----------------------------------------------------------------------------
(* Unlock and Session.Close *)

\* Faulty variant of Unlock: everything under the lock's prefix is deleted.
UnlockByPrefix(e) ==
  /\ stage[e] = "held"
  /\ stage' = [stage EXCEPT ![e] = "closing"]
  /\ keys'  = keys \ ({e} \cup Rivals(e))
  /\ UNCHANGED <<name, lease, inflight, result>>

\* Mutex.Unlock deletes e's own key, which names e's lease; the call may fail,
\* with or without effect, and the session is closed in either case.
Unlock(e) ==
  /\ stage[e] = "held"
  /\ stage' = [stage EXCEPT ![e] = "closing"]
  /\ keys' \in {keys, keys \ {e}}
  /\ UNCHANGED <<name, lease, inflight, result>>

\* The leases in S are gone, with their keys; etcd refuses a late put.
EndLease(S) ==
  /\ lease'    = [e \in Exec |-> IF e \in S THEN "gone" ELSE lease[e]]
  /\ keys'     = keys \ S
  /\ inflight' = inflight \ S

\* Nobody renews the leases in S any more.
Orphan(S) ==
  lease' = [e \in Exec |->
              IF e \in S /\ lease[e] = "alive" THEN "orphaned" ELSE lease[e]]

\* Faulty variant of CloseSession: the renewal goes on if the revocation fails.
CloseSessionLeaking(e) ==
  /\ stage[e] = "closing"
  /\ stage' = [stage EXCEPT ![e] = "done"]
  /\ EndLease({e}) \/ UNCHANGED <<lease, keys, inflight>>
  /\ UNCHANGED <<name, result>>

\* Faulty variant of CloseSession: it waits for a lease that is gone already.
CloseLiveSession(e) ==
  /\ stage[e] = "closing"
  /\ lease[e] # "gone"
  /\ stage' = [stage EXCEPT ![e] = "done"]
  /\ EndLease({e})
  /\ UNCHANGED <<name, result>>

\* Session.Close stops the renewal and revokes the lease; the revocation may
\* fail, and its error is ignored.
CloseSession(e) ==
  /\ stage[e] = "closing"
  /\ stage' = [stage EXCEPT ![e] = "done"]
  /\ \/ EndLease({e})
     \/ Orphan({e}) /\ UNCHANGED <<keys, inflight>>
  /\ UNCHANGED <<name, result>>

-----------------------------------------------------------------------------
(* The environment *)

\* etcd lets a lease expire.
LeaseExpires(e) ==
  /\ lease[e] \in {"alive", "orphaned"}
  /\ EndLease({e})
  /\ UNCHANGED <<stage, name, result>>

Active(e) == stage[e] \notin {"idle", "done", "dead"}

\* The process of the executions in S ends, by a crash or by returning from
\* main; requests it has just sent may still arrive.
ProcessExit(S) ==
  /\ \A e \in S : Active(e)
  /\ stage' = [e \in Exec |-> IF e \in S THEN "dead" ELSE stage[e]]
  /\ Orphan(S)
  /\ \E sent \in SUBSET {e \in S : stage[e] = "trying" /\ lease[e] = "alive"} :
        inflight' = inflight \cup sent
  /\ UNCHANGED <<name, keys, result>>

-----------------------------------------------------------------------------
LockerNext ==
  \/ \E e \in Exec, n \in Name : NewSession(e, n) \/ NewSessionFails(e, n)
  \/ \E e \in Exec : TryLock(e)
  \/ \E e \in Exec : TryLockFails(e)
  \/ \E e \in Exec : LateTryLock(e)
  \/ \E e \in Exec : DeleteOwnKey(e)
  \/ \E e \in Exec : Unlock(e)
  \/ \E e \in Exec : CloseSession(e)
  \/ \E e \in Exec : LeaseExpires(e)
  \/ \E S \in SUBSET Exec : ProcessExit(S)

LockerSpec == LockerInit /\ [][LockerNext]_lockerVars

-----------------------------------------------------------------------------
(* Properties *)

LockerTypeOK ==
  /\ stage    \in [Exec -> Stages]
  /\ name     \in [Exec -> Name \cup {NoName}]
  /\ lease    \in [Exec -> Leases]
  /\ keys     \in SUBSET Exec
  /\ inflight \in SUBSET Exec
  /\ result   \in [Exec -> Results]

\* Two executions that were both given the lock of one job, and both still work
\* under it, never both have their lease: whatever requests are lost, late or
\* refused, one of them has outlived its session.
LiveLockExclusive ==
  \A e, f \in Exec :
    /\ e # f
    /\ name[e] = name[f]
    /\ stage[e] = "held" /\ stage[f] = "held"
    => lease[e] = "gone" \/ lease[f] = "gone"

\* Nothing that the others do, their late Unlocks included, takes the key from
\* an execution that holds the lock: its own lease has to end or it has to
\* leave the lock itself.
NobodyElseUnlocks ==
  [][\A e \in Exec :
       stage[e] = "held" /\ e \in keys /\ e \notin keys'
         => lease'[e] = "gone" \/ stage'[e] # "held"]_lockerVars

\* The executions that own lock n: they were told so and their key is in etcd.
Owners(n) == {e \in keys : stage[e] = "held" /\ name[e] = n}

\* The locker implements the lease lock: a job's lock is given to an execution
\* only while no other one owns it, and at most once.
LeaseLock == INSTANCE LeaseLock
               WITH Client <- Exec,
                    owners <- [n \in Name |-> Owners(n)],
                    spent  <- {e \in Exec : result[e] = "ok"}

ImplementsLeaseLock == LeaseLock!LeaseSpec

\* An execution whose Lock failed, or that has unlocked, or whose process has
\* died, leaves no key that would keep the others out for ever, not even by a
\* request that arrives late.
KeysAreFreed ==
  \A e \in Exec :
    stage[e] \in {"done", "dead"} ~> e \notin keys \cup inflight
=============================================================================
