-------------------------- MODULE WorkerDiscovery ----------------------------
(***************************************************************************)
(* How a master knows its workers: the life of a worker process            *)
(* (cmd/worker/main.go), its registration in etcd                          *)
(* (internal/worker/registry.go), and the master's map of workers, which is *)
(* filled by one list and kept by a watch (internal/master/discovery.go).   *)
(*                                                                         *)
(* One master is enough: masters share nothing here.  A worker that is      *)
(* started again is another member of Worker, since it takes a new uuid.    *)
(* Every worker registers the same address, ":50052", so the registry is    *)
(* the set of workers that have a key.                                      *)
(***************************************************************************)
EXTENDS Naturals, Sequences

CONSTANTS
  Worker,       \* worker processes
  Hosts,        \* the hosts, each as the set of workers that are started on it
  FaultKinds,   \* the kinds of faults that may occur
  MaxFaults     \* bound: how many faults occur

AllFaultKinds == {"grant", "put", "revoke", "list", "watch", "expire", "crash"}

ASSUME HostAssumption ==
  /\ UNION Hosts = Worker
  /\ \A g, h \in Hosts : g # h => g \cap h = {}

ASSUME FaultAssumption == FaultKinds \subseteq AllFaultKinds /\ MaxFaults \in Nat

VARIABLES
  stage,       \* stage[w]: how far main is in worker w
  signalled,   \* the running workers whose root context is cancelled
  lease,       \* lease[w]: the lease of w's registration
  registry,    \* the workers that have a key in etcd
  latePut,     \* those whose registration was given up but may yet reach etcd
  watch,       \* how far WatchWorkers is
  known,       \* the master's map of workers
  events,      \* the changes that etcd has sent, and WatchWorkers not yet seen
  missed,      \* history: whose last change fell between the list and the watch
  faults       \* the number of faults so far

workerVars    == <<stage, signalled, lease, registry, latePut>>
watchVars     == <<watch, known, events, missed>>
discoveryVars == <<workerVars, watchVars, faults>>

Ended  == {"exited", "fatal", "crashed"}
Bound  == {"listening", "serving", "unserved"}   \* the process has the port
Stages == {"new", "granted", "registered", "draining"} \cup Bound \cup Ended
Leases == {"none", "alive", "orphaned", "expired", "revoked"}
Event  == [type : {"put", "delete"}, worker : Worker]

Fault(kind) ==
  /\ kind \in FaultKinds
  /\ faults < MaxFaults
  /\ faults' = faults + 1

\* A fault, or no fault where cond explains the failure.
FaultUnless(cond, kind) == Fault(kind) \/ (cond /\ UNCHANGED faults)

DiscoveryInit ==
  /\ stage     = [w \in Worker |-> "new"]
  /\ signalled = {}
  /\ lease     = [w \in Worker |-> "none"]
  /\ registry  = {}
  /\ latePut   = {}
  /\ watch     = "starting"
  /\ known     = {}
  /\ events    = <<>>
  /\ missed    = {}
  /\ faults    = 0

Goto(w, from, to) ==
  /\ stage[w] = from
  /\ stage' = [stage EXCEPT ![w] = to]

-----------------------------------------------------------------------------
(* etcd *)

\* etcd tells an open watch of a change of w's key.
Announce(type, w) ==
  /\ events' = IF watch = "watching"
                 THEN Append(events, [type |-> type, worker |-> w]) ELSE events
  /\ missed' = IF watch = "watching" THEN missed \ {w} ELSE missed
  /\ UNCHANGED <<watch, known>>

\* w's key is put, under its lease.
PutKey(w) ==
  /\ registry' = registry \cup {w}
  /\ Announce("put", w)

\* Faulty variant of EndLease: the key was put without the lease.
EndLeaseOnly(w, end) ==
  /\ lease'   = [lease EXCEPT ![w] = end]
  /\ latePut' = latePut \ {w}
  /\ UNCHANGED <<registry, watchVars>>

\* w's lease is revoked or has expired, and its key is gone with it; etcd refuses
\* a late put.
EndLease(w, end) ==
  /\ lease'    = [lease EXCEPT ![w] = end]
  /\ registry' = registry \ {w}
  /\ latePut'  = latePut \ {w}
  /\ IF w \in registry THEN Announce("delete", w) ELSE UNCHANGED watchVars

\* Nobody renews w's lease any more.
Orphan(w) ==
  lease' = [lease EXCEPT ![w] = IF @ = "alive" THEN "orphaned" ELSE @]

\* A lease that is orphaned expires; one that is renewed only by a fault, and
\* then nobody registers the worker again: the keep-alive loop logs a warning.
LeaseExpires(w) ==
  /\ lease[w] \in {"alive", "orphaned"}
  /\ FaultUnless(lease[w] = "orphaned", "expire")
  /\ EndLease(w, "expired")
  /\ UNCHANGED <<stage, signalled>>

\* etcd applies a registration that the worker has given up.
LatePut(w) ==
  /\ w \in latePut
  /\ PutKey(w)
  /\ latePut' = latePut \ {w}
  /\ UNCHANGED <<stage, signalled, lease, faults>>

-----------------------------------------------------------------------------
(* main of a worker, and Register and Deregister within it *)

\* Register: a lease is granted.
Grant(w) ==
  /\ Goto(w, "new", "granted")
  /\ lease' = [lease EXCEPT ![w] = "alive"]
  /\ UNCHANGED <<signalled, registry, latePut, watchVars, faults>>

\* log.Fatalf: no deferred function runs, so nothing is deregistered.
Fatal(w, from) ==
  /\ Goto(w, from, "fatal")
  /\ Orphan(w)
  /\ signalled' = signalled \ {w}

\* etcd cannot be reached, or a signal has cancelled the context of Register.
GrantFails(w) ==
  /\ Fatal(w, "new")
  /\ FaultUnless(w \in signalled, "grant")
  /\ UNCHANGED <<registry, latePut, watchVars>>

\* Register: the key is put under the lease, which is renewed from now on.
Put(w) ==
  /\ Goto(w, "granted", "registered")
  /\ lease[w] = "alive"
  /\ PutKey(w)
  /\ UNCHANGED <<signalled, lease, latePut, faults>>

\* The put fails for the worker: it is lost, applied, or late; or refused,
\* because the lease has expired.
PutFails(w) ==
  /\ Fatal(w, "granted")
  /\ FaultUnless(w \in signalled \/ lease[w] = "expired", "put")
  /\ \/ UNCHANGED <<registry, latePut, watchVars>>
     \/ lease[w] = "alive" /\ PutKey(w) /\ UNCHANGED latePut
     \/ /\ lease[w] = "alive"
        /\ latePut' = latePut \cup {w}
        /\ UNCHANGED <<registry, watchVars>>

\* Another process on w's host has the port.
PortTaken(w) ==
  \E h \in Hosts : \E v \in h \ {w} : w \in h /\ stage[v] \in Bound

\* net.Listen, and a goroutine is created that will call Serve.
Listen(w) ==
  /\ ~PortTaken(w)
  /\ Goto(w, "registered", "listening")
  /\ UNCHANGED <<signalled, lease, registry, latePut, watchVars, faults>>

\* net.Listen fails: the process ends, and its key stays until the lease ends.
ListenFails(w) ==
  /\ PortTaken(w)
  /\ Fatal(w, "registered")
  /\ UNCHANGED <<registry, latePut, watchVars, faults>>

Serve(w) ==
  /\ Goto(w, "listening", "serving")
  /\ UNCHANGED <<signalled, lease, registry, latePut, watchVars, faults>>

\* SIGINT or SIGTERM.
Signal(w) ==
  /\ stage[w] \notin Ended
  /\ w \notin signalled
  /\ signalled' = signalled \cup {w}
  /\ UNCHANGED <<stage, lease, registry, latePut, watchVars, faults>>

\* Faulty variant of GracefulStop: the worker is deregistered before it stops.
GracefulStopLast(w) ==
  /\ w \in signalled
  /\ Goto(w, "serving", "draining")
  /\ EndLease(w, "revoked")
  /\ UNCHANGED <<signalled, faults>>

\* The root context is cancelled: GracefulStop closes the listener that Serve
\* has taken, or keeps a Serve that comes too late from taking it.
GracefulStop(w) ==
  /\ w \in signalled
  /\ Goto(w, "serving", "draining") \/ Goto(w, "listening", "unserved")
  /\ UNCHANGED <<signalled, lease, registry, latePut, watchVars, faults>>

\* Serve comes after GracefulStop: it returns an error, and log.Fatalf ends the
\* process before its deferred Deregister.
ServeRefused(w) ==
  /\ Fatal(w, "unserved")
  /\ UNCHANGED <<registry, latePut, watchVars, faults>>

\* GracefulStop has returned: Deregister revokes the lease, or fails to and is
\* logged, and main returns.
Deregister(w) ==
  /\ Goto(w, "draining", "exited") \/ Goto(w, "unserved", "exited")
  /\ \/ EndLease(w, IF lease[w] = "expired" THEN "expired" ELSE "revoked") /\ UNCHANGED faults
     \/ /\ Orphan(w)
        /\ Fault("revoke")
        /\ UNCHANGED <<registry, latePut, watchVars>>
  /\ signalled' = signalled \ {w}

\* The process dies at any moment; a request that it has sent may still arrive.
Crash(w) ==
  /\ stage[w] \notin Ended
  /\ Fault("crash")
  /\ stage' = [stage EXCEPT ![w] = "crashed"]
  /\ Orphan(w)
  /\ \/ UNCHANGED latePut
     \/ stage[w] = "granted" /\ lease[w] = "alive" /\ latePut' = latePut \cup {w}
  /\ signalled' = signalled \ {w}
  /\ UNCHANGED <<registry, watchVars>>

-----------------------------------------------------------------------------
(* WatchWorkers *)

Watch(from, to) ==
  /\ watch  = from
  /\ watch' = to

\* loadInitialWorkers: the map is filled with the keys of one list.
LoadWorkers ==
  /\ Watch("starting", "listed")
  /\ known' = known \cup registry
  /\ UNCHANGED <<workerVars, events, missed, faults>>

\* The list fails or exceeds its five seconds; the error is logged.
LoadFails ==
  /\ Watch("starting", "listed")
  /\ Fault("list")
  /\ UNCHANGED <<workerVars, known, events, missed>>

\* The watch begins with the changes that come after its creation.
OpenWatch ==
  /\ Watch("listed", "watching")
  /\ missed' = (registry \ known) \cup (known \ registry)
  /\ UNCHANGED <<workerVars, known, events, faults>>

\* Faulty variant of Receive: only registrations are looked at.
ReceivePuts ==
  /\ events # <<>>
  /\ events' = Tail(events)
  /\ known'  = known \cup {Head(events).worker}
  /\ UNCHANGED <<workerVars, watch, missed, faults>>

\* The next event of the watch changes the map.
Receive ==
  /\ events # <<>>
  /\ events' = Tail(events)
  /\ LET e == Head(events) IN
       known' = IF e.type = "put" THEN known \cup {e.worker} ELSE known \ {e.worker}
  /\ UNCHANGED <<workerVars, watch, missed, faults>>

\* The channel of the watch is closed, with what it has not delivered: etcd has
\* compacted the changes, or the master shuts down.  Nobody opens it again.
WatchEnds ==
  /\ Watch("watching", "ended")
  /\ Fault("watch")
  /\ events' = <<>>
  /\ UNCHANGED <<workerVars, known, missed>>

-----------------------------------------------------------------------------
\* What a worker's main does when no fault occurs.
RunMain(w) ==
  \/ Grant(w)
  \/ GrantFails(w)
  \/ Put(w)
  \/ PutFails(w)
  \/ Listen(w)
  \/ ListenFails(w)
  \/ Serve(w)
  \/ GracefulStop(w)
  \/ ServeRefused(w)

WatchStep ==
  \/ LoadWorkers
  \/ LoadFails
  \/ OpenWatch
  \/ Receive

DiscoveryNext ==
  \/ \E w \in Worker : RunMain(w)
  \/ \E w \in Worker : Deregister(w)
  \/ \E w \in Worker : Signal(w)
  \/ \E w \in Worker : Crash(w)
  \/ \E w \in Worker : LeaseExpires(w)
  \/ \E w \in Worker : LatePut(w)
  \/ WatchStep
  \/ WatchEnds

DiscoverySpec == DiscoveryInit /\ [][DiscoveryNext]_discoveryVars

-----------------------------------------------------------------------------
(* Properties *)

DiscoveryTypeOK ==
  /\ stage     \in [Worker -> Stages]
  /\ signalled \in SUBSET Worker
  /\ lease     \in [Worker -> Leases]
  /\ registry  \in SUBSET Worker
  /\ latePut   \in SUBSET Worker
  /\ watch     \in {"starting", "listed", "watching", "ended"}
  /\ known     \in SUBSET Worker
  /\ events    \in Seq(Event)
  /\ missed    \in SUBSET Worker
  /\ faults    \in 0..MaxFaults

\* A worker that takes tasks, or may yet answer one while it shuts down, is in
\* the registry unless its lease has expired under it: registration comes before
\* Serve, and deregistration after GracefulStop.
ServingIsRegistered ==
  \A w \in Worker :
    stage[w] \in {"listening", "serving", "draining"}
      => w \in registry \/ lease[w] = "expired"

\* What WatchWorkers will hold of w when it has seen the events under way.
WillKnow(w) ==
  LET about == {i \in DOMAIN events : events[i].worker = w}
  IN  IF about = {} THEN w \in known
      ELSE \E i \in about : events[i].type = "put" /\ \A j \in about : j <= i

\* While the watch lasts, list and events lead the master to what etcd holds,
\* whatever the order in which workers came and went, except for the workers
\* that came or went between the list and the watch and not since.
ListConverges ==
  watch = "watching" =>
    \A w \in Worker \ missed : WillKnow(w) <=> w \in registry

\* A worker that stays registered gets known, and one whose process has ended,
\* deregistered or not, gets forgotten, in the end; again with the exception of
\* the workers that were missed, and unless the watch has ended.
RegistryIsFollowed ==
  \A w \in Worker :
    /\ w \in registry ~> w \in known \cup missed \/ w \notin registry \/ watch = "ended"
    /\ stage[w] \in Ended ~> w \notin known \/ w \in missed \/ watch = "ended"
=============================================================================
