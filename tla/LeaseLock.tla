------------------------------ MODULE LeaseLock ------------------------------
(***************************************************************************)
(* What a lock built on an etcd lease promises, and all that it promises:  *)
(* a name is given to a client only while nobody owns it, and a client     *)
(* that has been given the lock once is never given it again (every        *)
(* attempt opens a session of its own).  Ownership may end at any moment,  *)
(* without the client taking a step: its lease can expire while it works.  *)
(*                                                                         *)
(* The worker's job locks (EtcdLocker) and the masters' leadership         *)
(* (LeaderElection) are both shown to implement this specification.        *)
(***************************************************************************)

CONSTANTS
  Client,   \* the sessions that compete: one per lock attempt or campaign
  Name      \* the names of the locks

VARIABLES
  owners,   \* owners[n]: the clients that own lock n; at most one
  spent     \* the clients that have been given a lock

leaseVars == <<owners, spent>>

LeaseInit ==
  /\ owners = [n \in Name |-> {}]
  /\ spent  = {}

\* Client c is told that it has lock n.
Acquire(c, n) ==
  /\ owners[n] = {}
  /\ c \notin spent
  /\ owners' = [owners EXCEPT ![n] = {c}]
  /\ spent'  = spent \cup {c}

\* Client c is told that it has a lock that ended before the answer came: it
\* owns nothing, now or later.
AcquireTooLate(c) ==
  /\ c \notin spent
  /\ spent' = spent \cup {c}
  /\ UNCHANGED owners

\* Some ownerships end: a release, an expired lease, a dead process.
Lose ==
  /\ owners' \in [Name -> SUBSET Client]
  /\ \A n \in Name : owners'[n] \subseteq owners[n]
  /\ UNCHANGED spent

LeaseNext ==
  \/ \E c \in Client, n \in Name : Acquire(c, n)
  \/ \E c \in Client : AcquireTooLate(c)
  \/ Lose

LeaseSpec == LeaseInit /\ [][LeaseNext]_leaseVars
=============================================================================
