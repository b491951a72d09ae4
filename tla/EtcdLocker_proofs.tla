-------------------------- MODULE EtcdLocker_proofs --------------------------
(***************************************************************************)
(* Proofs about EtcdLocker, for every set of executions and of names.      *)
(*                                                                         *)
(* What excludes a second holder is that a key in etcd keeps out everybody *)
(* who comes after it.  The inductive invariant LockerIInv says what this  *)
(* rests on: a key lives only as long as its lease, a holder whose lease   *)
(* lives has its key, and a request that nobody waits for any more belongs *)
(* to an execution that will never hold the lock.                          *)
(***************************************************************************)
EXTENDS EtcdLocker, TLAPS

\* A key, or a put under way, has a lease that etcd still knows.
KeysHaveLeases ==
  \A e \in Exec : e \in keys \cup inflight => lease[e] \in {"alive", "orphaned"}

\* A holder that has not lost its lease has its key.
HoldersHaveKeys ==
  \A e \in Exec : stage[e] = "held" => lease[e] = "gone" \/ e \in keys

\* Of the executions that hold one lock, one at most has a key.
OneOwner ==
  \A e, f \in Exec :
    stage[e] = "held" /\ stage[f] = "held" /\ name[e] = name[f]
      /\ e \in keys /\ f \in keys => e = f

\* A put that was given up belongs to an execution that does not, and will not,
\* hold the lock.
InflightIsGivenUp ==
  \A e \in inflight : stage[e] \in {"closing", "done", "dead"}

\* Lock has decided nothing before its transaction was answered.
UndecidedHasNoResult ==
  \A e \in Exec : stage[e] \in {"idle", "trying", "losing"} => result[e] = "none"

\* An execution that has called Lock has the name it asked for.
AskedForAName == \A e \in Exec : stage[e] # "idle" => name[e] \in Name

LockerIInv ==
  /\ LockerTypeOK
  /\ KeysHaveLeases
  /\ HoldersHaveKeys
  /\ OneOwner
  /\ InflightIsGivenUp
  /\ UndecidedHasNoResult
  /\ AskedForAName

-----------------------------------------------------------------------------
\* The state is well typed whatever the steps (etcd_locker.go as a whole).
THEOREM LockerTypeCorrect == LockerSpec => []LockerTypeOK
<1>1. LockerInit => LockerTypeOK
  BY DEF LockerInit, LockerTypeOK, Stages, Leases, Results, Errors
<1>2. LockerTypeOK /\ [LockerNext]_lockerVars => LockerTypeOK'
  <2> SUFFICES ASSUME LockerTypeOK, [LockerNext]_lockerVars
               PROVE  LockerTypeOK'
    OBVIOUS
  <2> USE DEF LockerTypeOK, Stages, Leases, Results, Errors
  <2>1. CASE UNCHANGED lockerVars
    BY <2>1 DEF lockerVars
  <2>2. ASSUME NEW e \in Exec, NEW n \in Name, NewSession(e, n) \/ NewSessionFails(e, n)
        PROVE  LockerTypeOK'
    BY <2>2 DEF NewSession, NewSessionFails
  <2>3. ASSUME NEW e \in Exec, TryLock(e)
        PROVE  LockerTypeOK'
    BY <2>3 DEF TryLock
  <2>4. ASSUME NEW e \in Exec, TryLockFails(e)
        PROVE  LockerTypeOK'
    BY <2>4 DEF TryLockFails
  <2>5. ASSUME NEW e \in Exec, LateTryLock(e)
        PROVE  LockerTypeOK'
    BY <2>5 DEF LateTryLock
  <2>6. ASSUME NEW e \in Exec, DeleteOwnKey(e)
        PROVE  LockerTypeOK'
    BY <2>6 DEF DeleteOwnKey
  <2>7. ASSUME NEW e \in Exec, Unlock(e)
        PROVE  LockerTypeOK'
    BY <2>7 DEF Unlock
  <2>8. ASSUME NEW e \in Exec, CloseSession(e)
        PROVE  LockerTypeOK'
    BY <2>8 DEF CloseSession, EndLease, Orphan
  <2>9. ASSUME NEW e \in Exec, LeaseExpires(e)
        PROVE  LockerTypeOK'
    BY <2>9 DEF LeaseExpires, EndLease
  <2>10. ASSUME NEW S \in SUBSET Exec, ProcessExit(S)
         PROVE  LockerTypeOK'
    BY <2>10 DEF ProcessExit, Orphan
  <2> QED
    BY <2>1, <2>2, <2>3, <2>4, <2>5, <2>6, <2>7, <2>8, <2>9, <2>10 DEF LockerNext
<1> QED
  BY <1>1, <1>2, PTL DEF LockerSpec

-----------------------------------------------------------------------------
\* A step of one execution keeps the invariant: one fact per action.
LEMMA SessionKeepsInv ==
  ASSUME LockerIInv, NEW e \in Exec, NEW n \in Name,
         NewSession(e, n) \/ NewSessionFails(e, n)
  PROVE  LockerIInv'
<1> USE DEF LockerIInv, LockerTypeOK, Stages, Leases, Results, Errors
<1>1. stage[e] = "idle" /\ keys' = keys /\ inflight' = inflight
  BY DEF NewSession, NewSessionFails
<1>2. e \notin inflight
  BY <1>1 DEF InflightIsGivenUp
<1>3. \A f \in Exec \ {e} : /\ stage'[f] = stage[f]
                           /\ name'[f] = name[f]
                           /\ lease'[f] = lease[f]
                           /\ result'[f] = result[f]
  BY DEF NewSession, NewSessionFails
<1>4. stage'[e] \in {"trying", "done"} /\ name'[e] = n
  BY DEF NewSession, NewSessionFails
<1>5. CASE NewSession(e, n)
  BY <1>1, <1>2, <1>3, <1>4, <1>5
     DEF NewSession, KeysHaveLeases, HoldersHaveKeys, OneOwner, InflightIsGivenUp,
         UndecidedHasNoResult, AskedForAName
<1>6. CASE NewSessionFails(e, n)
  BY <1>1, <1>2, <1>3, <1>4, <1>6
     DEF NewSessionFails, KeysHaveLeases, HoldersHaveKeys, OneOwner,
         InflightIsGivenUp, UndecidedHasNoResult, AskedForAName
<1> QED
  BY <1>5, <1>6

\* The one step that makes a holder: the transaction saw no other key.
LEMMA TryLockKeepsInv ==
  ASSUME LockerIInv, NEW e \in Exec, TryLock(e)
  PROVE  LockerIInv'
<1> USE DEF LockerIInv, LockerTypeOK, Stages, Leases, Results, Errors
<1>1. /\ stage[e] = "trying" /\ lease[e] = "alive"
      /\ stage'[e] \in {"held", "losing"}
      /\ keys' = keys \cup {e}
      /\ name' = name /\ lease' = lease /\ inflight' = inflight
      /\ \A f \in Exec \ {e} : stage'[f] = stage[f] /\ result'[f] = result[f]
  BY DEF TryLock
<1>2. LockerTypeOK'
  BY DEF TryLock
<1>3. KeysHaveLeases' /\ HoldersHaveKeys'
  BY <1>1 DEF KeysHaveLeases, HoldersHaveKeys
<1>4. OneOwner'
  <2> SUFFICES ASSUME NEW f \in Exec, NEW g \in Exec, f # g,
                      stage'[f] = "held", stage'[g] = "held", name[f] = name[g],
                      f \in keys', g \in keys'
               PROVE  FALSE
    BY <1>1 DEF OneOwner
  <2>1. CASE f # e /\ g # e
    BY <1>1, <2>1 DEF OneOwner
  <2>2. CASE f = e \/ g = e
    BY <1>1, <2>2 DEF TryLock, Rivals
  <2> QED
    BY <2>1, <2>2
<1>5. InflightIsGivenUp'
  BY <1>1 DEF InflightIsGivenUp
<1>6. UndecidedHasNoResult' /\ AskedForAName'
  BY <1>1 DEF TryLock, UndecidedHasNoResult, AskedForAName
<1> QED
  BY <1>2, <1>3, <1>4, <1>5, <1>6

\* The other steps of an execution, and the late ones of etcd, make no holder,
\* and take a key only from an execution that does not hold the lock any more.
LEMMA LockerStepKeepsInv ==
  ASSUME LockerIInv, NEW e \in Exec,
         \/ TryLockFails(e) \/ LateTryLock(e) \/ DeleteOwnKey(e) \/ Unlock(e)
         \/ CloseSession(e) \/ LeaseExpires(e)
  PROVE  LockerIInv'
<1> USE DEF LockerIInv, LockerTypeOK, Stages, Leases, Results, Errors,
            KeysHaveLeases, HoldersHaveKeys, OneOwner, InflightIsGivenUp,
            UndecidedHasNoResult, AskedForAName
<1>1. CASE TryLockFails(e)
  BY <1>1 DEF TryLockFails
<1>2. CASE LateTryLock(e)
  BY <1>2 DEF LateTryLock
<1>3. CASE DeleteOwnKey(e)
  BY <1>3 DEF DeleteOwnKey
<1>4. CASE Unlock(e)
  BY <1>4 DEF Unlock
<1>5. CASE CloseSession(e)
  BY <1>5 DEF CloseSession, EndLease, Orphan
<1>6. CASE LeaseExpires(e)
  BY <1>6 DEF LeaseExpires, EndLease
<1> QED
  BY <1>1, <1>2, <1>3, <1>4, <1>5, <1>6

\* The end of a process orphans leases, and takes nobody's key.
LEMMA ProcessExitKeepsInv ==
  ASSUME LockerIInv, NEW S \in SUBSET Exec, ProcessExit(S)
  PROVE  LockerIInv'
<1> USE DEF LockerIInv, LockerTypeOK, Stages, Leases, Results, Errors
<1>1. /\ name' = name /\ keys' = keys /\ result' = result
      /\ inflight' \in SUBSET (inflight \cup {e \in S : stage[e] = "trying" /\ lease[e] = "alive"})
      /\ stage' = [e \in Exec |-> IF e \in S THEN "dead" ELSE stage[e]]
      /\ \A e \in S : stage[e] \notin {"idle", "done", "dead"}
      /\ lease' = [e \in Exec |-> IF e \in S /\ lease[e] = "alive"
                                   THEN "orphaned" ELSE lease[e]]
  BY DEF ProcessExit, Orphan, Active
<1>2. LockerTypeOK'
  BY <1>1
<1>3. KeysHaveLeases' /\ HoldersHaveKeys'
  BY <1>1 DEF KeysHaveLeases, HoldersHaveKeys
<1>4. OneOwner'
  BY <1>1 DEF OneOwner
<1>5. InflightIsGivenUp'
  BY <1>1 DEF InflightIsGivenUp
<1>6. UndecidedHasNoResult' /\ AskedForAName'
  BY <1>1 DEF UndecidedHasNoResult, AskedForAName
<1> QED
  BY <1>2, <1>3, <1>4, <1>5, <1>6

\* LockerIInv holds in every reachable state.
THEOREM LockerInductive == LockerSpec => []LockerIInv
<1>1. LockerInit => LockerIInv
  BY DEF LockerInit, LockerIInv, LockerTypeOK, Stages, Leases, Results, Errors,
         KeysHaveLeases, HoldersHaveKeys, OneOwner, InflightIsGivenUp,
         UndecidedHasNoResult, AskedForAName
<1>2. LockerIInv /\ [LockerNext]_lockerVars => LockerIInv'
  <2> SUFFICES ASSUME LockerIInv, [LockerNext]_lockerVars
               PROVE  LockerIInv'
    OBVIOUS
  <2>1. CASE UNCHANGED lockerVars
    BY <2>1 DEF lockerVars, LockerIInv, LockerTypeOK, KeysHaveLeases, HoldersHaveKeys,
                OneOwner, InflightIsGivenUp, UndecidedHasNoResult, AskedForAName
  <2>2. CASE LockerNext
    BY <2>2, SessionKeepsInv, TryLockKeepsInv, LockerStepKeepsInv,
       ProcessExitKeepsInv DEF LockerNext
  <2> QED
    BY <2>1, <2>2
<1> QED
  BY <1>1, <1>2, PTL DEF LockerSpec

\* Mutual exclusion while the leases live: domain.Locker as etcd can give it
\* (etcd_locker.go Lock and Unlock), for every number of executions and jobs.
THEOREM LockerExclusive == LockerSpec => []LiveLockExclusive
<1>1. LockerIInv => LiveLockExclusive
  BY DEF LockerIInv, HoldersHaveKeys, OneOwner, LiveLockExclusive
<1> QED
  BY <1>1, LockerInductive, PTL

-----------------------------------------------------------------------------
\* An execution loses the key under which it holds a lock only by its own Unlock
\* or with its lease: the late deletions and puts of the others spare it.
THEOREM OwnKeyOnly == LockerSpec => NobodyElseUnlocks
<1> DEFINE Spared == \A e \in Exec :
                       stage[e] = "held" /\ e \in keys /\ e \notin keys'
                         => lease'[e] = "gone" \/ stage'[e] # "held"
<1>1. LockerTypeOK /\ [LockerNext]_lockerVars => Spared
  <2> SUFFICES ASSUME LockerTypeOK, [LockerNext]_lockerVars,
                      NEW e \in Exec, stage[e] = "held", e \in keys, e \notin keys'
               PROVE  lease'[e] = "gone" \/ stage'[e] # "held"
    OBVIOUS
  <2> USE DEF LockerTypeOK, Stages, Leases, Results, Errors
  <2>1. LockerNext
    BY DEF lockerVars
  <2>2. ASSUME NEW f \in Exec,
               DeleteOwnKey(f) \/ Unlock(f) \/ CloseSession(f) \/ LeaseExpires(f)
        PROVE  lease'[e] = "gone" \/ stage'[e] # "held"
    BY <2>2 DEF DeleteOwnKey, Unlock, CloseSession, LeaseExpires, EndLease
  <2>3. ASSUME NEW f \in Exec, TryLock(f) \/ TryLockFails(f) \/ LateTryLock(f)
        PROVE  FALSE
    BY <2>3 DEF TryLock, TryLockFails, LateTryLock
  <2>4. ASSUME NEW f \in Exec, NEW n \in Name, NewSession(f, n) \/ NewSessionFails(f, n)
        PROVE  FALSE
    BY <2>4 DEF NewSession, NewSessionFails
  <2>5. ASSUME NEW S \in SUBSET Exec, ProcessExit(S)
        PROVE  FALSE
    BY <2>5 DEF ProcessExit
  <2> QED
    BY <2>1, <2>2, <2>3, <2>4, <2>5 DEF LockerNext
<1>2. LockerTypeOK /\ [LockerNext]_lockerVars => [Spared]_lockerVars
  BY <1>1
<1> QED
  BY <1>2, LockerTypeCorrect, PTL DEF LockerSpec, NobodyElseUnlocks

-----------------------------------------------------------------------------
(* EtcdLocker implements LeaseLock. *)

Spent == {e \in Exec : result[e] = "ok"}

\* A step that makes no holder, gives no key to one and reports no success is,
\* for the abstract lock, a loss of some ownerships or nothing at all.
LEMMA QuietStepMapsToLose ==
  ASSUME Spent' = Spent,
         \A e \in Exec : stage'[e] = "held" /\ e \in keys'
                           => stage[e] = "held" /\ e \in keys /\ name'[e] = name[e],
         keys \in SUBSET Exec, keys' \in SUBSET Exec
  PROVE  LeaseLock!Lose
<1>1. \A n \in Name : Owners(n)' \subseteq Owners(n) /\ Owners(n)' \in SUBSET Exec
  BY DEF Owners
<1> DEFINE own == [n \in Name |-> Owners(n)]
<1>2. own' \in [Name -> SUBSET Exec]
  BY <1>1
<1>3. \A n \in Name : own'[n] \subseteq own[n]
  BY <1>1
<1> QED
  BY <1>2, <1>3 DEF LeaseLock!Lose, Spent

\* A TryLock that is answered with the lock is the abstract Acquire.
LEMMA TryLockMapsToAcquire ==
  ASSUME LockerIInv, NEW e \in Exec, TryLock(e), stage'[e] = "held"
  PROVE  LeaseLock!Acquire(e, name[e])
<1> USE DEF LockerIInv, LockerTypeOK, Stages, Leases, Results, Errors
<1>1. /\ stage[e] = "trying" /\ Rivals(e) = {} /\ result[e] = "none"
      /\ keys' = keys \cup {e} /\ name' = name
      /\ stage' = [stage EXCEPT ![e] = "held"]
      /\ result' = [result EXCEPT ![e] = "ok"]
  BY DEF TryLock, UndecidedHasNoResult
<1>2. name[e] \in Name
  BY <1>1 DEF AskedForAName
<1> DEFINE own == [n \in Name |-> Owners(n)]
<1>3. Owners(name[e]) = {}
  BY <1>1 DEF Rivals, Owners
<1>4. \A n \in Name : Owners(n)' = IF n = name[e] THEN {e} ELSE Owners(n)
  <2> SUFFICES ASSUME NEW n \in Name
               PROVE  Owners(n)' = IF n = name[e] THEN {e} ELSE Owners(n)
    OBVIOUS
  <2>1. Owners(n)' = {f \in keys \cup {e} : (f = e \/ stage[f] = "held") /\ name[f] = n}
    BY <1>1 DEF Owners
  <2>2. CASE n = name[e]
    BY <1>3, <2>1, <2>2 DEF Owners
  <2>3. CASE n # name[e]
    BY <1>1, <2>1, <2>3 DEF Owners
  <2> QED
    BY <2>2, <2>3
<1>5. own' = [own EXCEPT ![name[e]] = {e}]
  BY <1>2, <1>4
<1>6. Spent' = Spent \cup {e} /\ e \notin Spent
  BY <1>1 DEF Spent
<1>7. own[name[e]] = {}
  BY <1>2, <1>3
<1> QED
  BY <1>5, <1>6, <1>7 DEF LeaseLock!Acquire, Spent

\* The steps that are quiet in the sense of QuietStepMapsToLose.
LEMMA OtherStepsAreQuiet ==
  ASSUME LockerIInv, LockerNext, ~ \E e \in Exec : TryLock(e) /\ stage'[e] = "held"
  PROVE  /\ Spent' = Spent
         /\ \A e \in Exec : stage'[e] = "held" /\ e \in keys'
                             => stage[e] = "held" /\ e \in keys /\ name'[e] = name[e]
<1> DEFINE Quiet == /\ Spent' = Spent
                    /\ \A e \in Exec :
                         stage'[e] = "held" /\ e \in keys'
                           => stage[e] = "held" /\ e \in keys /\ name'[e] = name[e]
<1> USE DEF LockerIInv, LockerTypeOK, Stages, Leases, Results, Errors, Spent,
            UndecidedHasNoResult
<1>1. ASSUME NEW e \in Exec, NEW n \in Name, NewSession(e, n) \/ NewSessionFails(e, n)
      PROVE  Quiet
  BY <1>1 DEF NewSession, NewSessionFails
<1>2. ASSUME NEW e \in Exec, TryLock(e)
      PROVE  Quiet
  BY <1>2 DEF TryLock
<1>3. ASSUME NEW e \in Exec, TryLockFails(e)
      PROVE  Quiet
  BY <1>3 DEF TryLockFails
<1>4. ASSUME NEW e \in Exec, LateTryLock(e)
      PROVE  Quiet
  BY <1>4 DEF LateTryLock, InflightIsGivenUp
<1>5. ASSUME NEW e \in Exec, DeleteOwnKey(e)
      PROVE  Quiet
  BY <1>5 DEF DeleteOwnKey
<1>6. ASSUME NEW e \in Exec, Unlock(e) \/ CloseSession(e) \/ LeaseExpires(e)
      PROVE  Quiet
  BY <1>6 DEF Unlock, CloseSession, LeaseExpires, EndLease
<1>7. ASSUME NEW S \in SUBSET Exec, ProcessExit(S)
      PROVE  Quiet
  BY <1>7 DEF ProcessExit
<1> QED
  BY <1>1, <1>2, <1>3, <1>4, <1>5, <1>6, <1>7 DEF LockerNext

\* The locker implements the lease lock: domain.Locker as the worker uses it
\* gives a job's lock only to one owner at a time, and to each caller once.
THEOREM LockerImplementsLeaseLock == LockerSpec => ImplementsLeaseLock
<1>1. LockerInit => LeaseLock!LeaseInit
  BY DEF LockerInit, LeaseLock!LeaseInit, Owners
<1>2. LockerIInv /\ LockerIInv' /\ [LockerNext]_lockerVars
        => [LeaseLock!LeaseNext]_(LeaseLock!leaseVars)
  <2> SUFFICES ASSUME LockerIInv, LockerIInv', [LockerNext]_lockerVars
               PROVE  [LeaseLock!LeaseNext]_(LeaseLock!leaseVars)
    OBVIOUS
  <2>1. CASE UNCHANGED lockerVars
    BY <2>1 DEF lockerVars, LeaseLock!leaseVars, Owners
  <2>2. ASSUME NEW e \in Exec, TryLock(e), stage'[e] = "held"
        PROVE  LeaseLock!LeaseNext
    <3>1. stage[e] # "idle"
      BY <2>2 DEF TryLock
    <3>2. name[e] \in Name
      BY <3>1 DEF LockerIInv, AskedForAName
    <3>3. LeaseLock!Acquire(e, name[e])
      BY <2>2, TryLockMapsToAcquire
    <3> QED
      BY <3>2, <3>3 DEF LeaseLock!LeaseNext, LeaseLock!Acquire
  <2>3. CASE LockerNext /\ ~ \E e \in Exec : TryLock(e) /\ stage'[e] = "held"
    <3>1. keys \in SUBSET Exec /\ keys' \in SUBSET Exec
      BY DEF LockerIInv, LockerTypeOK
    <3> QED
      BY <2>3, <3>1, OtherStepsAreQuiet, QuietStepMapsToLose DEF LeaseLock!LeaseNext
  <2> QED
    BY <2>1, <2>2, <2>3
<1> QED
  BY <1>1, <1>2, LockerInductive, PTL DEF LockerSpec, ImplementsLeaseLock, LeaseLock!LeaseSpec
=============================================================================
