-------------------------- MODULE Dispatcher_proofs --------------------------
(***************************************************************************)
(* Proofs about WorkerDiscovery and Dispatcher, for every set of workers   *)
(* and tasks, any spread of the workers over hosts, and any bound on the   *)
(* faults.                                                                 *)
(*                                                                         *)
(* WorkerDiscovery: RegisteredFirst makes ServingIsRegistered inductive: a *)
(* worker has its key before it listens, and until its lease has ended.    *)
(* ListConverges is about the events that are under way: a change of the   *)
(* registry appends one, which decides alone what the master will know of  *)
(* that worker, and the master's taking the first one decides nothing.     *)
(*                                                                         *)
(* Dispatcher: a step of the dispatcher is a step of WorkerDiscovery or    *)
(* leaves it alone, so what is proved there holds here too.                *)
(* HandledByTheLiving says in whose hands a task is while its dispatch     *)
(* lasts; FailedMeansNotRun and the refinement of TaskDelivery follow.     *)
(***************************************************************************)
EXTENDS Dispatcher, SequenceTheorems, TLAPS

-----------------------------------------------------------------------------
(* Types *)

\* A step of main leaves the stages well typed.
LEMMA GotoIsTyped ==
  ASSUME DiscoveryTypeOK, NEW w \in Worker, NEW from, NEW to \in Stages, Goto(w, from, to)
  PROVE  stage' \in [Worker -> Stages]
BY DEF Goto, DiscoveryTypeOK

\* So does a log.Fatalf, and the lease that it leaves behind.
LEMMA FatalIsTyped ==
  ASSUME DiscoveryTypeOK, NEW w \in Worker, NEW from, Fatal(w, from)
  PROVE  /\ stage' \in [Worker -> Stages]
         /\ lease' \in [Worker -> Leases]
         /\ signalled' \in SUBSET Worker
BY DEF Fatal, Orphan, Goto, DiscoveryTypeOK, Stages, Ended, Leases

\* A fault leaves their number within the bound.
LEMMA FaultIsTyped ==
  ASSUME DiscoveryTypeOK, NEW kind, Fault(kind) \/ UNCHANGED faults
  PROVE  faults' \in 0..MaxFaults
BY FaultAssumption DEF Fault, DiscoveryTypeOK

\* An announced change is an event.
LEMMA AnnounceIsTyped ==
  ASSUME DiscoveryTypeOK, NEW w \in Worker, NEW type \in {"put", "delete"}, Announce(type, w)
  PROVE  /\ events' \in Seq(Event)
         /\ missed' \in SUBSET Worker
         /\ known' = known /\ watch' = watch
<1>1. [type |-> type, worker |-> w] \in Event
  BY DEF Event
<1>2. Append(events, [type |-> type, worker |-> w]) \in Seq(Event)
  BY <1>1, AppendProperties DEF DiscoveryTypeOK
<1> QED
  BY <1>2 DEF Announce, DiscoveryTypeOK

\* What a put and the end of a lease do to etcd and the watch is well typed.
WatchTypeOK ==
  /\ registry \in SUBSET Worker
  /\ latePut  \in SUBSET Worker
  /\ watch    \in {"starting", "listed", "watching", "ended"}
  /\ known    \in SUBSET Worker
  /\ events   \in Seq(Event)
  /\ missed   \in SUBSET Worker

LEMMA PutKeyIsTyped ==
  ASSUME DiscoveryTypeOK, NEW w \in Worker, PutKey(w), latePut' \in SUBSET Worker
  PROVE  WatchTypeOK'
<1>1. events' \in Seq(Event) /\ missed' \in SUBSET Worker /\ known' = known /\ watch' = watch
  BY AnnounceIsTyped DEF PutKey
<1> QED
  BY <1>1 DEF PutKey, WatchTypeOK, DiscoveryTypeOK

LEMMA EndLeaseIsTyped ==
  ASSUME DiscoveryTypeOK, NEW w \in Worker, NEW end \in Leases, EndLease(w, end)
  PROVE  WatchTypeOK' /\ lease' \in [Worker -> Leases]
<1>1. events' \in Seq(Event) /\ missed' \in SUBSET Worker /\ known' = known /\ watch' = watch
  BY AnnounceIsTyped DEF EndLease, watchVars, DiscoveryTypeOK
<1> QED
  BY <1>1 DEF EndLease, WatchTypeOK, DiscoveryTypeOK

\* The steps of a worker, of etcd and of WatchWorkers leave the state well typed.
LEMMA WorkerTypeKept ==
  ASSUME DiscoveryTypeOK, NEW w \in Worker,
         RunMain(w) \/ Deregister(w) \/ Signal(w) \/ Crash(w) \/ LeaseExpires(w) \/ LatePut(w)
  PROVE  DiscoveryTypeOK'
<1>1. CASE Grant(w) \/ Listen(w) \/ Serve(w)
  <2>1. stage' \in [Worker -> Stages]
    BY <1>1, GotoIsTyped DEF Grant, Listen, Serve, Stages, Bound
  <2> QED
    BY <1>1, <2>1 DEF Grant, Listen, Serve, watchVars, DiscoveryTypeOK, Leases
<1>2. CASE Put(w)
  <2>1. stage' \in [Worker -> Stages]
    BY <1>2, GotoIsTyped DEF Put, Stages
  <2>2. WatchTypeOK'
    BY <1>2, PutKeyIsTyped DEF Put, DiscoveryTypeOK
  <2> QED
    BY <1>2, <2>1, <2>2 DEF Put, DiscoveryTypeOK, WatchTypeOK
<1>3. CASE GrantFails(w) \/ ListenFails(w) \/ ServeRefused(w)
  <2>1. /\ stage' \in [Worker -> Stages] /\ lease' \in [Worker -> Leases]
        /\ signalled' \in SUBSET Worker
    BY <1>3, FatalIsTyped DEF GrantFails, ListenFails, ServeRefused
  <2>2. faults' \in 0..MaxFaults
    BY <1>3, FaultIsTyped DEF GrantFails, ListenFails, ServeRefused, FaultUnless
  <2> QED
    BY <1>3, <2>1, <2>2 DEF GrantFails, ListenFails, ServeRefused, watchVars, DiscoveryTypeOK
<1>4. CASE PutFails(w)
  <2>1. /\ stage' \in [Worker -> Stages] /\ lease' \in [Worker -> Leases]
        /\ signalled' \in SUBSET Worker
    BY <1>4, FatalIsTyped DEF PutFails
  <2>2. faults' \in 0..MaxFaults
    BY <1>4, FaultIsTyped DEF PutFails, FaultUnless
  <2>3. WatchTypeOK'
    <3>1. CASE PutKey(w) /\ UNCHANGED latePut
      BY <3>1, PutKeyIsTyped DEF DiscoveryTypeOK
    <3>2. CASE UNCHANGED <<registry, latePut, watchVars>>
      BY <3>2 DEF watchVars, WatchTypeOK, DiscoveryTypeOK
    <3>3. CASE latePut' = latePut \cup {w} /\ UNCHANGED <<registry, watchVars>>
      BY <3>3 DEF watchVars, WatchTypeOK, DiscoveryTypeOK
    <3> QED
      BY <1>4, <3>1, <3>2, <3>3 DEF PutFails
  <2> QED
    BY <2>1, <2>2, <2>3 DEF DiscoveryTypeOK, WatchTypeOK
<1>5. CASE GracefulStop(w)
  <2>1. stage' \in [Worker -> Stages]
    BY <1>5, GotoIsTyped DEF GracefulStop, Stages, Bound
  <2> QED
    BY <1>5, <2>1 DEF GracefulStop, watchVars, DiscoveryTypeOK
<1>6. CASE Deregister(w)
  <2>1. stage' \in [Worker -> Stages]
    BY <1>6, GotoIsTyped DEF Deregister, Stages, Ended
  <2>2. CASE EndLease(w, IF lease[w] = "expired" THEN "expired" ELSE "revoked") /\ UNCHANGED faults
    <3>1. WatchTypeOK' /\ lease' \in [Worker -> Leases]
      BY <2>2, EndLeaseIsTyped DEF Leases
    <3> QED
      BY <1>6, <2>1, <2>2, <3>1 DEF Deregister, DiscoveryTypeOK, WatchTypeOK
  <2>3. CASE Orphan(w) /\ Fault("revoke") /\ UNCHANGED <<registry, latePut, watchVars>>
    <3>1. faults' \in 0..MaxFaults
      BY <2>3, FaultIsTyped
    <3> QED
      BY <1>6, <2>1, <2>3, <3>1 DEF Deregister, Orphan, watchVars, DiscoveryTypeOK, Leases
  <2> QED
    BY <1>6, <2>2, <2>3 DEF Deregister
<1>7. CASE Signal(w) \/ Crash(w)
  <2>1. faults' \in 0..MaxFaults
    BY <1>7, FaultIsTyped DEF Signal, Crash
  <2> QED
    BY <1>7, <2>1
       DEF Signal, Crash, Orphan, watchVars, DiscoveryTypeOK, Stages, Ended, Leases
<1>8. CASE LeaseExpires(w)
  <2>1. WatchTypeOK' /\ lease' \in [Worker -> Leases]
    BY <1>8, EndLeaseIsTyped DEF LeaseExpires, Leases
  <2>2. faults' \in 0..MaxFaults
    BY <1>8, FaultIsTyped DEF LeaseExpires, FaultUnless
  <2> QED
    BY <1>8, <2>1, <2>2 DEF LeaseExpires, DiscoveryTypeOK, WatchTypeOK
<1>9. CASE LatePut(w)
  <2>1. WatchTypeOK'
    BY <1>9, PutKeyIsTyped DEF LatePut, DiscoveryTypeOK
  <2> QED
    BY <1>9, <2>1 DEF LatePut, DiscoveryTypeOK, WatchTypeOK
<1> QED
  BY <1>1, <1>2, <1>3, <1>4, <1>5, <1>6, <1>7, <1>8, <1>9 DEF RunMain

LEMMA WatchTypeKept ==
  ASSUME DiscoveryTypeOK, WatchStep \/ WatchEnds
  PROVE  DiscoveryTypeOK'
<1>1. CASE LoadWorkers \/ LoadFails \/ OpenWatch
  <2>1. faults' \in 0..MaxFaults
    BY <1>1, FaultIsTyped DEF LoadWorkers, LoadFails, OpenWatch
  <2> QED
    BY <1>1, <2>1 DEF LoadWorkers, LoadFails, OpenWatch, Watch, workerVars, DiscoveryTypeOK
<1>2. CASE Receive
  <2>1. Head(events) \in Event /\ events' \in Seq(Event)
    BY <1>2, HeadTailProperties DEF Receive, DiscoveryTypeOK
  <2> QED
    BY <1>2, <2>1 DEF Receive, workerVars, DiscoveryTypeOK, Event
<1>3. CASE WatchEnds
  <2>1. faults' \in 0..MaxFaults
    BY <1>3, FaultIsTyped DEF WatchEnds
  <2>2. events' \in Seq(Event)
    BY <1>3 DEF WatchEnds
  <2> QED
    BY <1>3, <2>1, <2>2 DEF WatchEnds, Watch, workerVars, DiscoveryTypeOK
<1> QED
  BY <1>1, <1>2, <1>3 DEF WatchStep

LEMMA DiscoveryTypeKept ==
  ASSUME DiscoveryTypeOK, [DiscoveryNext]_discoveryVars
  PROVE  DiscoveryTypeOK'
<1>1. CASE UNCHANGED discoveryVars
  BY <1>1 DEF discoveryVars, workerVars, watchVars, DiscoveryTypeOK
<1> QED
  BY <1>1, WorkerTypeKept, WatchTypeKept DEF DiscoveryNext

\* The state of the registry and of its watcher is well typed (registry.go,
\* discovery.go and cmd/worker/main.go as a whole).
THEOREM DiscoveryTypeCorrect == DiscoverySpec => []DiscoveryTypeOK
<1>1. DiscoveryInit => DiscoveryTypeOK
  BY FaultAssumption DEF DiscoveryInit, DiscoveryTypeOK, Stages, Leases
<1> QED
  BY <1>1, DiscoveryTypeKept, PTL DEF DiscoverySpec

-----------------------------------------------------------------------------
(* Registered first, deregistered last *)

\* From its registration until it is deregistered or ends, a worker has its key
\* or has lost its lease.
RegisteredFirst ==
  \A w \in Worker :
    stage[w] \in {"registered", "unserved", "listening", "serving", "draining"}
      => w \in registry \/ lease[w] = "expired"

\* A step takes away only the key of a worker whose main ends with it or whose
\* lease expires.
LEMMA RegisteredFirstKept ==
  ASSUME DiscoveryTypeOK, RegisteredFirst, [DiscoveryNext]_discoveryVars
  PROVE  RegisteredFirst'
<1> USE DEF DiscoveryTypeOK, RegisteredFirst
<1>1. CASE UNCHANGED discoveryVars \/ WatchStep \/ WatchEnds
  BY <1>1 DEF discoveryVars, workerVars, WatchStep, LoadWorkers, LoadFails, OpenWatch,
              Receive, WatchEnds
<1>2. ASSUME NEW w \in Worker, Grant(w) \/ Listen(w) \/ Serve(w) \/ GracefulStop(w) \/ Signal(w)
      PROVE  RegisteredFirst'
  BY <1>2 DEF Grant, Listen, Serve, GracefulStop, Signal, Goto
<1>3. ASSUME NEW w \in Worker, Put(w) \/ LatePut(w)
      PROVE  RegisteredFirst'
  BY <1>3 DEF Put, LatePut, PutKey, Goto
<1>4. ASSUME NEW w \in Worker, GrantFails(w) \/ PutFails(w) \/ ListenFails(w) \/ ServeRefused(w)
      PROVE  RegisteredFirst'
  <2>1. stage' = [stage EXCEPT ![w] = "fatal"]
        /\ lease' = [lease EXCEPT ![w] = IF @ = "alive" THEN "orphaned" ELSE @]
    BY <1>4 DEF GrantFails, PutFails, ListenFails, ServeRefused, Fatal, Goto, Orphan
  <2>2. registry \subseteq registry'
    BY <1>4 DEF GrantFails, PutFails, ListenFails, ServeRefused, PutKey
  <2> QED
    BY <2>1, <2>2
<1>5. ASSUME NEW w \in Worker, Deregister(w)
      PROVE  RegisteredFirst'
  <2>1. stage' = [stage EXCEPT ![w] = "exited"]
    BY <1>5 DEF Deregister, Goto
  <2>2. \A v \in Worker \ {w} : lease'[v] = lease[v] /\ (v \in registry => v \in registry')
    BY <1>5 DEF Deregister, EndLease, Orphan
  <2> QED
    BY <2>1, <2>2
<1>6. ASSUME NEW w \in Worker, Crash(w)
      PROVE  RegisteredFirst'
  BY <1>6 DEF Crash, Orphan
<1>7. ASSUME NEW w \in Worker, LeaseExpires(w)
      PROVE  RegisteredFirst'
  BY <1>7 DEF LeaseExpires, EndLease
<1> QED
  BY <1>1, <1>2, <1>3, <1>4, <1>5, <1>6, <1>7 DEF DiscoveryNext, RunMain

-----------------------------------------------------------------------------
(* List and watch *)

\* Nothing is under way unless the watch is open; while it is, ListConverges.
Converging ==
  /\ watch # "watching" => events = <<>>
  /\ ListConverges

\* The last event decides alone what the master will know of its worker.
LEMMA LastEventDecides ==
  ASSUME NEW s \in Seq(Event), NEW e \in Event, events = s,
         events' = Append(s, e), known' = known, NEW v \in Worker
  PROVE  WillKnow(v)' <=> IF v = e.worker THEN e.type = "put" ELSE WillKnow(v)
<1> DEFINE t == Append(s, e)
<1>1. /\ Len(t) = Len(s) + 1
      /\ \A i \in 1..Len(s) : t[i] = s[i]
      /\ t[Len(s) + 1] = e
      /\ t \in Seq(Event)
  BY AppendProperties
<1>2. DOMAIN s = 1..Len(s) /\ DOMAIN t = 1..(Len(s) + 1) /\ Len(s) \in Nat
  BY <1>1
<1> HIDE DEF t
<1>3. events' = t
  BY DEF t
<1>4. CASE v = e.worker
  <2>1. WillKnow(v)' <=> t[Len(s) + 1].type = "put"
    BY <1>1, <1>2, <1>3, <1>4 DEF WillKnow
  <2> QED
    BY <1>1, <1>4, <2>1
<1>5. CASE v # e.worker
  <2>1. {i \in DOMAIN t : t[i].worker = v} = {i \in DOMAIN s : s[i].worker = v}
    BY <1>1, <1>2, <1>5
  <2>2. \A i \in DOMAIN s : t[i].type = s[i].type
    BY <1>1, <1>2
  <2> QED
    BY <1>3, <1>5, <2>1, <2>2 DEF WillKnow
<1> QED
  BY <1>4, <1>5

\* The first event decides nothing by being taken.
LEMMA FirstEventIsTaken ==
  ASSUME DiscoveryTypeOK, Receive, NEW v \in Worker
  PROVE  WillKnow(v)' <=> WillKnow(v)
<1> DEFINE s == events
           t == Tail(events)
           old == {i \in DOMAIN s : s[i].worker = v}
           new == {i \in DOMAIN t : t[i].worker = v}
<1>1. /\ s \in Seq(Event) /\ s # <<>> /\ t \in Seq(Event)
      /\ Len(t) = Len(s) - 1
      /\ \A i \in 1..Len(t) : t[i] = s[i + 1]
      /\ Head(s) = s[1]
  BY HeadTailProperties DEF Receive, DiscoveryTypeOK
<1>2. DOMAIN s = 1..Len(s) /\ DOMAIN t = 1..(Len(s) - 1) /\ Len(s) \in Nat /\ Len(s) >= 1
  BY <1>1
<1>3. known' = IF s[1].type = "put" THEN known \cup {s[1].worker} ELSE known \ {s[1].worker}
  BY <1>1 DEF Receive
<1>4. events' = t
  BY DEF Receive
<1> HIDE DEF s, t
<1>5. \A i \in DOMAIN t : i \in new <=> i + 1 \in old
  BY <1>1, <1>2
<1>6. \A j \in old : j = 1 \/ j - 1 \in new
  BY <1>1, <1>2
<1>7. WillKnow(v) <=> IF old = {} THEN v \in known
                      ELSE \E i \in old : s[i].type = "put" /\ \A j \in old : j <= i
  BY DEF WillKnow, s
<1>8. WillKnow(v)' <=> IF new = {} THEN v \in known'
                       ELSE \E i \in new : t[i].type = "put" /\ \A j \in new : j <= i
  BY <1>4 DEF WillKnow
<1>9. CASE new = {}
  <2>1. old = IF s[1].worker = v THEN {1} ELSE {}
    BY <1>2, <1>6, <1>9
  <2> QED
    BY <1>3, <1>7, <1>8, <1>9, <2>1
<1>10. CASE new # {}
  <2>1. old # {}
    BY <1>5, <1>10
  <2>2. ASSUME NEW i \in new, t[i].type = "put", \A j \in new : j <= i
        PROVE  i + 1 \in old /\ s[i + 1].type = "put" /\ \A j \in old : j <= i + 1
    <3>1. i \in 1..(Len(s) - 1) /\ i + 1 \in old /\ t[i] = s[i + 1]
      BY <1>1, <1>2, <1>5
    <3>2. ASSUME NEW j \in old
          PROVE  j <= i + 1
      <4>1. j \in 1..Len(s) /\ (j = 1 \/ j - 1 \in new)
        BY <1>2, <1>6
      <4> QED
        BY <1>2, <2>2, <3>1, <4>1
    <3> QED
      BY <2>2, <3>1, <3>2
  <2>3. ASSUME NEW i \in old, s[i].type = "put", \A j \in old : j <= i
        PROVE  i - 1 \in new /\ t[i - 1].type = "put" /\ \A j \in new : j <= i - 1
    <3>1. i # 1
      BY <1>2, <1>5, <1>10, <2>3
    <3> QED
      BY <1>1, <1>2, <1>5, <1>6, <2>3, <3>1
  <2> QED
    BY <1>7, <1>8, <1>10, <2>1, <2>2, <2>3
<1> QED
  BY <1>9, <1>10

\* A change of the registry that is announced keeps list and registry together.
LEMMA AnnounceConverges ==
  ASSUME DiscoveryTypeOK, Converging,
         NEW w \in Worker, NEW type \in {"put", "delete"}, Announce(type, w),
         registry' = IF type = "put" THEN registry \cup {w} ELSE registry \ {w}
  PROVE  Converging'
<1> DEFINE e == [type |-> type, worker |-> w]
<1>1. e \in Event /\ e.type = type /\ e.worker = w
  BY DEF Event
<1>2. watch' = watch /\ known' = known
  BY DEF Announce
<1>3. CASE watch = "watching"
  <2>1. events' = Append(events, e) /\ missed' = missed \ {w}
    BY <1>3 DEF Announce
  <2> HIDE DEF e
  <2>2. \A v \in Worker : WillKnow(v)' <=> IF v = w THEN type = "put" ELSE WillKnow(v)
    BY <1>1, <1>2, <2>1, LastEventDecides DEF DiscoveryTypeOK
  <2>3. \A v \in Worker \ missed : WillKnow(v) <=> v \in registry
    BY <1>3 DEF Converging, ListConverges
  <2>4. ASSUME NEW v \in Worker \ missed'
        PROVE  WillKnow(v)' <=> v \in registry'
    BY <2>1, <2>2, <2>3, <2>4
  <2> QED
    BY <1>2, <1>3, <2>4 DEF Converging, ListConverges
<1>4. CASE watch # "watching"
  BY <1>2, <1>4 DEF Announce, Converging, ListConverges
<1> QED
  BY <1>3, <1>4

\* So does a step that changes neither.
LEMMA UntouchedConverges ==
  ASSUME Converging, UNCHANGED <<registry, watchVars>>
  PROVE  Converging'
BY DEF Converging, ListConverges, WillKnow, watchVars

LEMMA EndLeaseConverges ==
  ASSUME DiscoveryTypeOK, Converging, NEW w \in Worker, NEW end, EndLease(w, end)
  PROVE  Converging'
<1>1. CASE w \in registry
  <2>1. Announce("delete", w) /\ registry' = registry \ {w}
    BY <1>1 DEF EndLease
  <2> QED
    BY <2>1, AnnounceConverges
<1>2. CASE w \notin registry
  <2>1. UNCHANGED <<registry, watchVars>>
    BY <1>2 DEF EndLease
  <2> QED
    BY <2>1, UntouchedConverges
<1> QED
  BY <1>1, <1>2

LEMMA PutKeyConverges ==
  ASSUME DiscoveryTypeOK, Converging, NEW w \in Worker, PutKey(w)
  PROVE  Converging'
<1>1. Announce("put", w) /\ registry' = registry \cup {w}
  BY DEF PutKey
<1> QED
  BY <1>1, AnnounceConverges

\* WatchWorkers takes the events one by one, and begins with what it has missed.
LEMMA WatchConverges ==
  ASSUME DiscoveryTypeOK, Converging, WatchStep \/ WatchEnds
  PROVE  Converging'
<1>1. CASE LoadWorkers \/ LoadFails \/ WatchEnds
  BY <1>1 DEF LoadWorkers, LoadFails, WatchEnds, Watch, Converging, ListConverges
<1>2. CASE OpenWatch
  <2>1. /\ events = <<>> /\ events' = <<>> /\ known' = known /\ registry' = registry
        /\ missed' = (registry \ known) \cup (known \ registry)
    BY <1>2 DEF OpenWatch, Watch, Converging, workerVars
  <2>2. \A v \in Worker : WillKnow(v)' <=> v \in known
    <3>1. \A v \in Worker : {i \in DOMAIN <<>> : <<>>[i].worker = v} = {}
      OBVIOUS
    <3> QED
      BY <2>1, <3>1 DEF WillKnow
  <2> QED
    BY <1>2, <2>1, <2>2 DEF OpenWatch, Watch, Converging, ListConverges
<1>3. CASE Receive
  <2>1. watch = "watching" /\ UNCHANGED <<watch, registry, missed>>
    BY <1>3 DEF Receive, Converging, workerVars
  <2>2. \A v \in Worker : WillKnow(v)' <=> WillKnow(v)
    BY <1>3, FirstEventIsTaken
  <2> QED
    BY <2>1, <2>2 DEF Converging, ListConverges
<1> QED
  BY <1>1, <1>2, <1>3 DEF WatchStep

LEMMA ConvergingKept ==
  ASSUME DiscoveryTypeOK, Converging, [DiscoveryNext]_discoveryVars
  PROVE  Converging'
<1>1. CASE UNCHANGED discoveryVars
  BY <1>1, UntouchedConverges DEF discoveryVars, workerVars
<1>2. ASSUME NEW w \in Worker,
             \/ Grant(w) \/ GrantFails(w) \/ Listen(w) \/ ListenFails(w) \/ Serve(w)
             \/ GracefulStop(w) \/ ServeRefused(w) \/ Signal(w) \/ Crash(w)
      PROVE  Converging'
  BY <1>2, UntouchedConverges
     DEF Grant, GrantFails, Listen, ListenFails, Serve, GracefulStop, ServeRefused, Signal,
         Crash
<1>3. ASSUME NEW w \in Worker, Put(w) \/ LatePut(w) \/ PutFails(w)
      PROVE  Converging'
  <2>1. PutKey(w) \/ UNCHANGED <<registry, watchVars>>
    BY <1>3 DEF Put, LatePut, PutFails
  <2> QED
    BY <2>1, PutKeyConverges, UntouchedConverges
<1>4. ASSUME NEW w \in Worker, Deregister(w) \/ LeaseExpires(w)
      PROVE  Converging'
  <2>1. (\E end \in Leases : EndLease(w, end)) \/ UNCHANGED <<registry, watchVars>>
    BY <1>4 DEF Deregister, LeaseExpires, Leases
  <2> QED
    BY <2>1, EndLeaseConverges, UntouchedConverges
<1>5. CASE WatchStep \/ WatchEnds
  BY <1>5, WatchConverges
<1> QED
  BY <1>1, <1>2, <1>3, <1>4, <1>5 DEF DiscoveryNext, RunMain

-----------------------------------------------------------------------------
DiscoveryIInv == DiscoveryTypeOK /\ RegisteredFirst /\ Converging

\* Workers register first and deregister last, and list and watch lead to what
\* etcd holds: DiscoveryIInv holds in every reachable state.
THEOREM DiscoveryInductive == DiscoverySpec => []DiscoveryIInv
<1>1. DiscoveryInit => RegisteredFirst /\ Converging
  BY DEF DiscoveryInit, RegisteredFirst, Converging, ListConverges
<1>2. DiscoveryTypeOK /\ RegisteredFirst /\ Converging /\ [DiscoveryNext]_discoveryVars
        => RegisteredFirst' /\ Converging'
  BY RegisteredFirstKept, ConvergingKept
<1>3. DiscoveryTypeOK /\ RegisteredFirst /\ Converging => DiscoveryIInv
  BY DEF DiscoveryIInv
<1> QED
  BY <1>1, <1>2, <1>3, DiscoveryTypeCorrect, PTL DEF DiscoverySpec

-----------------------------------------------------------------------------
(* The dispatcher uses the registry and its watcher *)

\* Every step of the dispatcher is a step of the registry and its watcher, or
\* does not touch them.
LEMMA NextUsesDiscovery ==
  ASSUME [Next]_vars
  PROVE  [DiscoveryNext]_discoveryVars
<1>1. CASE UNCHANGED vars
  BY <1>1 DEF vars
<1>2. CASE \/ \E w \in Worker : WorkerStep(w) \/ Leave(w)
           \/ Environment \/ FollowRegistry
  BY <1>2 DEF WorkerStep, Leave, Environment, FollowRegistry, DiscoveryNext
<1>3. CASE \/ \E t \in Task : NoWorkers(t) \/ PickWorker(t) \/ DispatchTask(t)
           \/ UseChannel
  BY <1>3 DEF NoWorkers, PickWorker, DispatchTask, Accept, Answer, AnswerLost, CallFails,
              UseChannel, Connect, ConnectFails, Disconnect
<1> QED
  BY <1>1, <1>2, <1>3 DEF Next

\* What is proved of WorkerDiscovery holds under the dispatcher.
LEMMA DispatcherDiscoveryInv == Spec => []DiscoveryIInv
<1>1. Init => DiscoveryInit
  BY DEF Init
<1>2. Spec => DiscoverySpec
  BY <1>1, NextUsesDiscovery, PTL DEF Spec, DiscoverySpec
<1> QED
  BY <1>2, DiscoveryInductive, PTL

-----------------------------------------------------------------------------
(* Types *)

\* The part of TypeOK that is about the dispatcher's own variables, and whom the
\* channel is connected to.
DispatchTypeOK ==
  /\ call     \in [Task -> Calls]
  /\ picked   \in [Task -> Worker \cup {Nobody}]
  /\ accepted \in [Task -> Worker \cup {Nobody}]
  /\ verdict  \in [Task -> {"none", "ok", "failed"}]
  /\ channel  \in {"idle", "ready", "failing"}
  /\ peer     \in Worker \cup {Nobody}
  /\ channel = "ready" => peer \in Worker

LEMMA DispatchTypeKept ==
  ASSUME DispatchTypeOK, DiscoveryTypeOK, [Next]_vars
  PROVE  DispatchTypeOK'
<1> USE DEF DispatchTypeOK
<1>1. CASE UNCHANGED dispatchVars
  BY <1>1 DEF dispatchVars, taskVars, channelVars
<1>2. ASSUME NEW t \in Task, NoWorkers(t) \/ Answer(t) \/ AnswerLost(t) \/ CallFails(t)
      PROVE  DispatchTypeOK'
  BY <1>2 DEF NoWorkers, Answer, AnswerLost, CallFails, Return, Advance, Calls, channelVars
<1>3. ASSUME NEW t \in Task, PickWorker(t)
      PROVE  DispatchTypeOK'
  BY <1>3 DEF PickWorker, Advance, Calls, channelVars, DiscoveryTypeOK
<1>4. ASSUME NEW t \in Task, Accept(t)
      PROVE  DispatchTypeOK'
  BY <1>4 DEF Accept, Advance, Calls, channelVars
<1>5. CASE UseChannel
  BY <1>5 DEF UseChannel, Connect, ConnectFails, Disconnect, taskVars
<1> QED
  BY <1>1, <1>2, <1>3, <1>4, <1>5
     DEF Next, vars, WorkerStep, Leave, Environment, FollowRegistry, DispatchTask

\* The state of the dispatcher is well typed (dispatcher.go as a whole).
THEOREM DispatcherTypeCorrect == Spec => []TypeOK
<1>1. Init => DispatchTypeOK
  BY DEF Init, DispatchTypeOK, Calls
<1>2. DispatchTypeOK /\ DiscoveryIInv /\ [Next]_vars => DispatchTypeOK'
  BY DispatchTypeKept DEF DiscoveryIInv
<1>3. DispatchTypeOK /\ DiscoveryIInv => TypeOK
  BY DEF DispatchTypeOK, DiscoveryIInv, TypeOK
<1> QED
  BY <1>1, <1>2, <1>3, DispatcherDiscoveryInv, PTL DEF Spec

-----------------------------------------------------------------------------
(* What holds of the workers whatever the dispatcher does *)

\* A worker that takes tasks, or may yet answer one while it shuts down, has its
\* key, or has lost its lease (main of the worker, cmd/worker/main.go:57-107).
THEOREM DispatcherServingIsRegistered == Spec => []ServingIsRegistered
<1>1. DiscoveryIInv => ServingIsRegistered
  BY DEF DiscoveryIInv, RegisteredFirst, ServingIsRegistered
<1> QED
  BY <1>1, DispatcherDiscoveryInv, PTL

\* While the watch lasts, the master's map and the events under way agree with
\* etcd on every worker that was not missed (discovery.go:37-70).
THEOREM DispatcherListConverges == Spec => []ListConverges
<1>1. DiscoveryIInv => ListConverges
  BY DEF DiscoveryIInv, Converging
<1> QED
  BY <1>1, DispatcherDiscoveryInv, PTL

-----------------------------------------------------------------------------
(* In whose hands a task is *)

\* Before it is handled, nobody has a task; while it is handled, the worker that
\* has it serves, or drains, or has died; afterwards, if it was lost, it has died.
HandledByTheLiving ==
  \A t \in Task :
    /\ call[t] # "ended" => verdict[t] = "none"
    /\ call[t] \in {"waiting", "calling"} => accepted[t] = Nobody
    /\ call[t] = "handling" =>
         accepted[t] \in Worker /\ stage[accepted[t]] \in {"serving", "draining", "crashed"}
    /\ verdict[t] = "failed" /\ accepted[t] # Nobody =>
         accepted[t] \in Worker /\ stage[accepted[t]] = "crashed"

\* A worker that serves, drains or has died does so still after any step, except
\* that one that drains leaves when it is drained.
LEMMA ServingWorkersStay ==
  ASSUME DiscoveryTypeOK, [Next]_vars, NEW w \in Worker,
         stage[w] \in {"serving", "draining", "crashed"}
  PROVE  /\ stage'[w] \in {"serving", "draining", "crashed"} \/ (Leave(w) /\ stage[w] # "crashed")
         /\ stage[w] = "crashed" => stage'[w] = "crashed"
<1> USE DEF DiscoveryTypeOK
<1>1. CASE UNCHANGED stage
  BY <1>1
<1>2. ASSUME NEW v \in Worker, WorkerStep(v)
      PROVE  /\ stage'[w] \in {"serving", "draining", "crashed"}
             /\ stage[w] = "crashed" => stage'[w] = "crashed"
  BY <1>2 DEF WorkerStep, RunMain, Grant, GrantFails, Put, PutFails, Listen, ListenFails,
              Serve, GracefulStop, ServeRefused, Fatal, Goto
<1>3. ASSUME NEW v \in Worker, Leave(v)
      PROVE  /\ stage'[w] = stage[w] \/ (v = w /\ stage[w] # "crashed")
             /\ stage[w] = "crashed" => stage'[w] = "crashed"
  BY <1>3 DEF Leave, Deregister, Goto
<1>4. CASE Environment
  BY <1>4 DEF Environment, Signal, Crash, LeaseExpires, LatePut, WatchEnds, workerVars, Ended
<1>5. CASE FollowRegistry \/ UseChannel
  BY <1>5, <1>1 DEF FollowRegistry, WatchStep, LoadWorkers, LoadFails, OpenWatch, Receive,
              UseChannel, Connect, ConnectFails, Disconnect, discoveryVars, workerVars
<1>6. ASSUME NEW t \in Task, NoWorkers(t) \/ PickWorker(t) \/ DispatchTask(t)
      PROVE  UNCHANGED stage
  BY <1>6 DEF NoWorkers, PickWorker, DispatchTask, Accept, Answer, AnswerLost, CallFails,
              discoveryVars, workerVars
<1>7. CASE UNCHANGED vars
  BY <1>7 DEF vars, discoveryVars, workerVars
<1> QED
  BY <1>1, <1>2, <1>3, <1>4, <1>5, <1>6, <1>7 DEF Next

\* A step of a dispatch takes a task from hand to hand.
LEMMA TaskStepKeepsHands ==
  ASSUME DispatchTypeOK, HandledByTheLiving, NEW t \in Task,
         NoWorkers(t) \/ PickWorker(t) \/ DispatchTask(t)
  PROVE  HandledByTheLiving'
<1> USE DEF DispatchTypeOK, HandledByTheLiving, discoveryVars, workerVars
<1>1. CASE NoWorkers(t) \/ CallFails(t)
  BY <1>1 DEF NoWorkers, CallFails, Return, Advance
<1>2. CASE PickWorker(t)
  BY <1>2 DEF PickWorker, Advance
<1>3. CASE Accept(t)
  BY <1>3 DEF Accept, Advance
<1>4. CASE Answer(t)
  BY <1>4 DEF Answer, Return, Advance
<1>5. CASE AnswerLost(t)
  <2>1. stage[accepted[t]] = "crashed"
    BY <1>5 DEF AnswerLost, Ended
  <2> QED
    BY <1>5, <2>1 DEF AnswerLost, Return, Advance
<1> QED
  BY <1>1, <1>2, <1>3, <1>4, <1>5 DEF DispatchTask

\* A step that is not a task's leaves it in the hands that it is in: Drained does
\* not let the worker go that handles it.
LEMMA OtherStepKeepsHands ==
  ASSUME DiscoveryTypeOK, DispatchTypeOK, HandledByTheLiving, [Next]_vars, UNCHANGED taskVars
  PROVE  HandledByTheLiving'
<1>1. /\ call' = call /\ verdict' = verdict /\ accepted' = accepted
  BY DEF taskVars
<1>2. ASSUME NEW t \in Task, call[t] = "handling"
      PROVE  accepted[t] \in Worker /\ stage'[accepted[t]] \in {"serving", "draining", "crashed"}
  <2>1. accepted[t] \in Worker /\ stage[accepted[t]] \in {"serving", "draining", "crashed"}
    BY <1>2 DEF HandledByTheLiving
  <2>2. ~ Leave(accepted[t])
    BY <1>2 DEF Leave, Drained
  <2> QED
    BY <2>1, <2>2, ServingWorkersStay
<1>3. ASSUME NEW t \in Task, verdict[t] = "failed", accepted[t] # Nobody
      PROVE  accepted[t] \in Worker /\ stage'[accepted[t]] = "crashed"
  <2>1. accepted[t] \in Worker /\ stage[accepted[t]] = "crashed"
    BY <1>3 DEF HandledByTheLiving
  <2> QED
    BY <2>1, ServingWorkersStay
<1> QED
  BY <1>1, <1>2, <1>3 DEF HandledByTheLiving

LEMMA HandsKept ==
  ASSUME DiscoveryTypeOK, DispatchTypeOK, HandledByTheLiving, [Next]_vars
  PROVE  HandledByTheLiving'
<1>1. CASE \E t \in Task : NoWorkers(t) \/ PickWorker(t) \/ DispatchTask(t)
  BY <1>1, TaskStepKeepsHands
<1>2. CASE ~ \E t \in Task : NoWorkers(t) \/ PickWorker(t) \/ DispatchTask(t)
  <2>1. UNCHANGED taskVars
    BY <1>2 DEF Next, vars, dispatchVars, WorkerStep, Leave, Environment, FollowRegistry,
                UseChannel, Connect, ConnectFails, Disconnect
  <2> QED
    BY <2>1, OtherStepKeepsHands
<1> QED
  BY <1>1, <1>2

DispatcherIInv == DiscoveryIInv /\ DispatchTypeOK /\ HandledByTheLiving

\* The hands that a task is in are those of a worker that will answer for it, or
\* has died: DispatcherIInv holds in every reachable state.
THEOREM DispatcherInductive == Spec => []DispatcherIInv
<1>1. Init => DispatchTypeOK /\ HandledByTheLiving
  BY DEF Init, DispatchTypeOK, HandledByTheLiving, Calls
<1>2. DispatchTypeOK /\ HandledByTheLiving /\ DiscoveryIInv /\ [Next]_vars
        => DispatchTypeOK' /\ HandledByTheLiving'
  BY DispatchTypeKept, HandsKept DEF DiscoveryIInv
<1>3. DispatchTypeOK /\ HandledByTheLiving /\ DiscoveryIInv => DispatcherIInv
  BY DEF DispatcherIInv
<1> QED
  BY <1>1, <1>2, <1>3, DispatcherDiscoveryInv, PTL DEF Spec

\* A task whose dispatch is reported as failed was given to nobody, or to a worker
\* that died with it (DispatchTask, dispatcher.go:38-69, and the GracefulStop of
\* cmd/worker/main.go:105).
THEOREM DispatcherFailedMeansNotRun == Spec => []FailedMeansNotRun
<1>1. DispatcherIInv => FailedMeansNotRun
  BY DEF DispatcherIInv, HandledByTheLiving, FailedMeansNotRun
<1> QED
  BY <1>1, DispatcherInductive, PTL

-----------------------------------------------------------------------------
(* The refinement *)

\* A step of a dispatch delivers the task, reports on it, or is not seen.
LEMMA DispatchStepDelivers ==
  ASSUME DispatcherIInv, NEW t \in Task, NoWorkers(t) \/ PickWorker(t) \/ DispatchTask(t)
  PROVE  Delivery!DeliveryNext \/ UNCHANGED Delivery!deliveryVars
<1> USE DEF DispatcherIInv, HandledByTheLiving
<1>1. CASE NoWorkers(t) \/ CallFails(t) \/ AnswerLost(t)
  <2>1. Delivery!ReportFailure(t)
    BY <1>1 DEF NoWorkers, CallFails, AnswerLost, Return, Advance, Delivery!ReportFailure
  <2> QED
    BY <2>1 DEF Delivery!DeliveryNext
<1>2. CASE PickWorker(t)
  BY <1>2 DEF PickWorker, Delivery!deliveryVars
<1>3. CASE Accept(t)
  <2>1. peer \in Worker
    BY <1>3 DEF Accept, DispatchTypeOK
  <2>2. Delivery!Deliver(t, peer)
    BY <1>3 DEF Accept, Advance, Delivery!Deliver
  <2> QED
    BY <2>1, <2>2 DEF Delivery!DeliveryNext
<1>4. CASE Answer(t)
  <2>1. accepted[t] # Nobody
    BY <1>4, NobodyAssumption DEF Answer
  <2>2. Delivery!ReportSuccess(t)
    BY <1>4, <2>1 DEF Answer, Return, Advance, Delivery!ReportSuccess
  <2> QED
    BY <2>2 DEF Delivery!DeliveryNext
<1> QED
  BY <1>1, <1>2, <1>3, <1>4 DEF DispatchTask

\* DispatchTask delivers a task to at most one worker, once, and reports success
\* only for what it has delivered (dispatcher.go:38-69).
THEOREM DispatcherImplementsTaskDelivery == Spec => ImplementsTaskDelivery
<1>1. Init => Delivery!DeliveryInit
  BY DEF Init, Delivery!DeliveryInit
<1>2. DispatcherIInv /\ [Next]_vars => [Delivery!DeliveryNext]_(Delivery!deliveryVars)
  <2> SUFFICES ASSUME DispatcherIInv, [Next]_vars
               PROVE  Delivery!DeliveryNext \/ UNCHANGED Delivery!deliveryVars
    OBVIOUS
  <2>1. CASE \E t \in Task : NoWorkers(t) \/ PickWorker(t) \/ DispatchTask(t)
    BY <2>1, DispatchStepDelivers
  <2>2. CASE ~ \E t \in Task : NoWorkers(t) \/ PickWorker(t) \/ DispatchTask(t)
    BY <2>2 DEF Next, vars, dispatchVars, taskVars, WorkerStep, Leave, Environment,
                FollowRegistry, UseChannel, Connect, ConnectFails, Disconnect,
                Delivery!deliveryVars
  <2> QED
    BY <2>1, <2>2
<1> QED
  BY <1>1, <1>2, DispatcherInductive, PTL
     DEF Spec, ImplementsTaskDelivery, Delivery!DeliverySpec
=============================================================================
