------------------------------ MODULE JobService ------------------------------
(***************************************************************************)
(* Jobs in etcd and in the cron of every master: JobService.Save and       *)
(* Delete (internal/usecase/job_service.go) behind the HTTP handlers,      *)
(* runSchedular (internal/usecase/schedular_service.go), which loads the   *)
(* jobs into the cron of a new leader, and AddJob and RemoveJob            *)
(* (internal/scheduler/cron_scheduler.go), which both of them call.        *)
(*                                                                         *)
(* HTTP handlers and the loader of a master run concurrently.  They share  *)
(* the map from names to cron entries, which nothing protects, and the     *)
(* cron library, which has a lock of its own: an access to the map, a call *)
(* of the library and a request to etcd are one step each.                 *)
(* The election is reduced to one leader key; LeaderElection has the rest. *)
(***************************************************************************)
EXTENDS Integers, FiniteSets, SequencesExt

CONSTANTS
  Node,         \* master nodes
  Name,         \* job names
  Request,      \* requests to the HTTP API that save or delete a job
  Initial,      \* the definition of a job that was stored before
  NoJob,        \* no job is stored under the name
  NoEntry,      \* no cron entry
  NoNode,       \* nobody has the leader key
  FaultKinds,   \* the kinds of faults that may occur
  MaxFaults,    \* bound: how many faults occur
  MaxTerms      \* bound: how many times a node is elected

\* A save stores a definition of its own, named by the request.
Definition == Request \cup {Initial}

ASSUME JobAssumption ==
  /\ IsFiniteSet(Name)
  /\ Node \cap Request = {}
  /\ Initial \notin Request
  /\ NoJob \notin Definition
  /\ NoEntry \notin Nat
  /\ NoNode \notin Node
  /\ FaultKinds \subseteq {"write", "list", "crash"}
  /\ MaxFaults \in Nat
  /\ MaxTerms \in Nat

VARIABLES
  process,   \* process[n]: whether the process of n runs
  leader,    \* the node that has the leader key
  stored,    \* stored[x]: what etcd holds under the name
  late,      \* requests whose write was given up and may still be applied
  request,   \* request[r]: the node, the operation and the job name of r
  pc,        \* pc[t]: where a request, or the loader of a node, is
  listed,    \* listed[n]: what n has listed and not added yet, the first to be next
  found,     \* found[t]: the entry id that a thread read from the map
  added,     \* added[t]: the entry id that cron gave it
  jobs,      \* jobs[n][x]: the map of cronScheduler from names to entry ids
  entries,   \* entries[n]: the entries of the cron of n
  nextID,    \* nextID[n]: the last entry id that the cron of n gave
  terms,     \* the number of elections so far
  faults,    \* the number of faults so far
  tangled,   \* history: <<node, name>> for which calls have overlapped
  settled    \* history: <<node, name>> that the node should have as etcd has it

etcd    == <<leader, stored, late>>
cron    == <<jobs, entries, nextID>>
bounds  == <<terms, faults>>
history == <<tangled, settled>>
vars == <<process, etcd, request, pc, listed, found, added, cron, bounds, history>>

\* A request is served by a thread of its own; the loader of a node is its thread.
Thread == Request \cup Node

RequestPCs == {"idle", "putting", "finding", "removing", "adding", "recording",
               "forgetting", "deleting", "done"}
LoaderPCs  == {"standby", "listing", "leading",
               "finding", "removing", "adding", "recording"}

Up(n)     == process[n] = "up"
NodeOf(t) == IF t \in Node THEN t ELSE request[t].node
Adds(t)   == t \in Node \/ request[t].op = "save"

\* The job that a thread adds or removes.
JobOf(t) == IF t \in Node THEN Head(listed[t])
                          ELSE [name |-> request[t].name, def |-> t]

\* A request works on its job; a loader, once it has listed, on every job.
WorksOn(t, x) ==
  IF t \in Node THEN pc[t] \notin {"standby", "listing", "leading"}
               ELSE pc[t] \notin {"idle", "done"} /\ request[t].name = x

Busy(n, x) == \E t \in Thread : NodeOf(t) = n /\ WorksOn(t, x)

Goto(t, from, to) ==
  /\ pc[t] = from
  /\ pc' = [pc EXCEPT ![t] = to]

Fault(kind) ==
  /\ kind \in FaultKinds
  /\ faults < MaxFaults
  /\ faults' = faults + 1

Init ==
  /\ process = [n \in Node |-> "up"]
  /\ leader  = NoNode
  /\ stored  \in [Name -> {NoJob, Initial}]
  /\ late    = {}
  /\ request \in [Request -> [node : Node, op : {"save", "delete"}, name : Name]]
  /\ pc      = [t \in Thread |-> IF t \in Node THEN "standby" ELSE "idle"]
  /\ listed  = [n \in Node |-> <<>>]
  /\ found   = [t \in Thread |-> NoEntry]
  /\ added   = [t \in Thread |-> NoEntry]
  /\ jobs    = [n \in Node |-> [x \in Name |-> NoEntry]]
  /\ entries = [n \in Node |-> {}]
  /\ nextID  = [n \in Node |-> 0]
  /\ terms   = 0
  /\ faults  = 0
  /\ tangled = {}
  /\ settled = {}

-----------------------------------------------------------------------------
(* The requests *)

\* A handler has decoded, validated and converted a request, and calls Save or
\* Delete.  The first step of Save is the put, that of Delete is RemoveJob.
Receive(r) ==
  LET n == request[r].node
      x == request[r].name
      others == {t \in Thread \ {r} : WorksOn(t, x)}
  IN /\ Up(n)
     /\ Goto(r, "idle", IF request[r].op = "save" THEN "putting" ELSE "finding")
     /\ tangled' = tangled \cup {<<NodeOf(t), x>> : t \in others}
                           \cup {<<m, x>> : m \in IF others \subseteq Node \ {n}
                                                  THEN {} ELSE {n}}
     /\ UNCHANGED <<process, etcd, request, listed, found, added, cron, bounds, settled>>

\* The write of a request takes effect.  Every other node is unaware of it.
Write(r) ==
  LET x == request[r].name IN
  /\ stored'  = [stored EXCEPT ![x] = IF request[r].op = "save" THEN r ELSE NoJob]
  /\ settled' = {p \in settled : p[2] # x}

\* JobService.Save: the repository has stored the job.
PutJob(r) ==
  /\ Goto(r, "putting", "finding")
  /\ Write(r)
  /\ UNCHANGED <<process, leader, late, request, listed, found, added, cron, bounds, tangled>>

\* JobService.Delete: the repository has deleted the job, cron had it removed.
DeleteJob(r) ==
  /\ Goto(r, "deleting", "done")
  /\ stored'  = [stored EXCEPT ![request[r].name] = NoJob]
  /\ settled' = {p \in settled : p[2] # request[r].name}
                   \cup {<<request[r].node, request[r].name>>}
  /\ UNCHANGED <<process, leader, late, request, listed, found, added, cron, bounds, tangled>>

\* Faulty variant of WriteFails: Save goes on to AddJob after an error.
WriteErrorIgnored(r) ==
  /\ Fault("write")
  /\ Goto(r, "putting", "finding") \/ Goto(r, "deleting", "done")
  /\ late' = late \cup {r}
  /\ UNCHANGED <<process, leader, stored, request, listed, found, added, cron, terms, history>>

\* The put or the deletion fails for the client, and Save or Delete returns the
\* error; Delete has removed the job from cron.  etcd may still apply the write.
WriteFails(r) ==
  /\ Fault("write")
  /\ Goto(r, "putting", "done") \/ Goto(r, "deleting", "done")
  /\ late'    = late \cup {r}
  /\ settled' = IF request[r].op = "save" THEN settled
                ELSE settled \ {<<request[r].node, request[r].name>>}
  /\ UNCHANGED <<process, leader, stored, request, listed, found, added, cron, terms, tangled>>

LateWrite(r) ==
  /\ r \in late
  /\ late' = late \ {r}
  /\ Write(r)
  /\ tangled' = tangled \cup {<<NodeOf(t), request[r].name>> :
                                t \in {t \in Thread : WorksOn(t, request[r].name)}}
  /\ UNCHANGED <<process, leader, request, pc, listed, found, added, cron, bounds>>

-----------------------------------------------------------------------------
(* AddJob and RemoveJob, called by requests and by loaders *)

\* Faulty variant of Find: a loader keeps the entries that it finds.
FindOrKeep(t) ==
  LET n  == NodeOf(t)
      id == jobs[n][JobOf(t).name]
  IN /\ Goto(t, "finding", IF id # NoEntry THEN IF t \in Node THEN "recording" ELSE "removing"
                            ELSE IF Adds(t) THEN "adding" ELSE "deleting")
     /\ found' = [found EXCEPT ![t] = id]
     /\ added' = IF t \in Node THEN [added EXCEPT ![t] = id] ELSE added
     /\ UNCHANGED <<process, etcd, request, listed, cron, bounds, history>>

\* The map is read.  AddJob and RemoveJob remove the entry that they find.
Find(t) ==
  LET n  == NodeOf(t)
      id == jobs[n][JobOf(t).name]
  IN /\ Goto(t, "finding", IF id # NoEntry THEN "removing"
                            ELSE IF Adds(t) THEN "adding" ELSE "deleting")
     /\ found' = [found EXCEPT ![t] = id]
     /\ UNCHANGED <<process, etcd, request, listed, added, cron, bounds, history>>

\* Faulty variant of RemoveEntry: the new entry is added to the old one.
LeaveEntry(t) ==
  /\ Goto(t, "removing", IF Adds(t) THEN "adding" ELSE "forgetting")
  /\ UNCHANGED <<process, etcd, request, listed, found, added, cron, bounds, history>>

\* cron.Remove, which does nothing if the entry is gone.
RemoveEntry(t) ==
  LET n == NodeOf(t) IN
  /\ Goto(t, "removing", IF Adds(t) THEN "adding" ELSE "forgetting")
  /\ entries' = [entries EXCEPT ![n] = {e \in @ : e.id # found[t]}]
  /\ UNCHANGED <<process, etcd, request, listed, found, added, jobs, nextID, bounds, history>>

\* cron.AddJob: the expression is valid, it was validated by the handler.
AddEntry(t) ==
  LET n == NodeOf(t) IN
  /\ Goto(t, "adding", "recording")
  /\ nextID'  = [nextID EXCEPT ![n] = @ + 1]
  /\ added'   = [added EXCEPT ![t] = nextID'[n]]
  /\ entries' = [entries EXCEPT ![n] = @ \cup
                   {[id |-> nextID'[n], name |-> JobOf(t).name, def |-> JobOf(t).def]}]
  /\ UNCHANGED <<process, etcd, request, listed, found, jobs, bounds, history>>

\* The end of AddJob: the map leads to the new entry.
Record(t) ==
  LET n == NodeOf(t)
      x == JobOf(t).name
  IN /\ Goto(t, "recording", IF t \in Request THEN "done"
                              ELSE IF Len(listed[t]) = 1 THEN "leading" ELSE "finding")
     /\ jobs'    = [jobs EXCEPT ![n][x] = added[t]]
     /\ found'   = [found EXCEPT ![t] = NoEntry]
     /\ added'   = [added EXCEPT ![t] = NoEntry]
     /\ listed'  = IF t \in Node THEN [listed EXCEPT ![t] = Tail(@)] ELSE listed
     /\ settled' = settled \cup {<<n, x>>}
     /\ UNCHANGED <<process, etcd, request, entries, nextID, bounds, tangled>>

\* Faulty variant of Forget: the map keeps the id of the removed entry.
ForgetNothing(r) ==
  /\ Goto(r, "forgetting", "deleting")
  /\ found' = [found EXCEPT ![r] = NoEntry]
  /\ UNCHANGED <<process, etcd, request, listed, added, cron, bounds, history>>

\* The end of RemoveJob.
Forget(r) ==
  LET n == request[r].node IN
  /\ Goto(r, "forgetting", "deleting")
  /\ jobs'  = [jobs EXCEPT ![n][request[r].name] = NoEntry]
  /\ found' = [found EXCEPT ![r] = NoEntry]
  /\ UNCHANGED <<process, etcd, request, listed, added, entries, nextID, bounds, history>>

-----------------------------------------------------------------------------
(* The loader: runSchedular, once per term *)

BeginTerm(n) ==
  /\ Up(n)
  /\ leader = NoNode
  /\ terms < MaxTerms
  /\ Goto(n, "standby", "listing")
  /\ leader' = n
  /\ terms'  = terms + 1
  /\ UNCHANGED <<process, stored, late, request, listed, found, added, cron, faults, history>>

\* The jobs that are stored, in the order of their keys: names stand for any order.
ListJobs(n) ==
  /\ pc[n] = "listing"
  /\ \E order \in SetToSeqs({x \in Name : stored[x] # NoJob}) :
       /\ listed' = [listed EXCEPT ![n] =
            [i \in DOMAIN order |-> [name |-> order[i], def |-> stored[order[i]]]]]
       /\ pc' = [pc EXCEPT ![n] = IF order = <<>> THEN "leading" ELSE "finding"]
  /\ tangled' = tangled \cup
       {<<n, x>> : x \in {x \in Name : \E r \in Request : WorksOn(r, x)}}
  /\ UNCHANGED <<process, etcd, request, found, added, cron, bounds, settled>>

\* Faulty variant of ListFails: the loader ends and no new term can begin.
ListFailureEnds(n) ==
  /\ Fault("list")
  /\ Goto(n, "listing", "done")
  /\ UNCHANGED <<process, etcd, request, listed, found, added, cron, terms, history>>

\* The jobs cannot be listed: the node leads with the cron that it has.
ListFails(n) ==
  /\ Fault("list")
  /\ Goto(n, "listing", "leading")
  /\ UNCHANGED <<process, etcd, request, listed, found, added, cron, terms, history>>

\* The session of the leader ends; its cron keeps every job.
EndTerm ==
  /\ leader # NoNode
  /\ leader' = NoNode
  /\ UNCHANGED <<process, stored, late, request, pc, listed, found, added, cron, bounds, history>>

LostLeadership(n) ==
  /\ leader # n
  /\ Goto(n, "leading", "standby")
  /\ UNCHANGED <<process, etcd, request, listed, found, added, cron, bounds, history>>

-----------------------------------------------------------------------------
(* The process *)

\* The process ends with its memory.  Requests to etcd under way may be applied.
EndProcess(n) ==
  LET served == {r \in Request : request[r].node = n /\ pc[r] \notin {"idle", "done"}}
      lost   == served \cup {n}
  IN /\ Up(n)
     /\ process' = [process EXCEPT ![n] = "down"]
     /\ late'    = late \cup {r \in served : pc[r] \in {"putting", "deleting"}}
     /\ pc'      = [t \in Thread |-> IF t \in served THEN "done"
                                    ELSE IF t = n THEN "standby" ELSE pc[t]]
     /\ listed'  = [listed EXCEPT ![n] = <<>>]
     /\ found'   = [t \in Thread |-> IF t \in lost THEN NoEntry ELSE found[t]]
     /\ added'   = [t \in Thread |-> IF t \in lost THEN NoEntry ELSE added[t]]
     /\ jobs'    = [jobs EXCEPT ![n] = [x \in Name |-> NoEntry]]
     /\ entries' = [entries EXCEPT ![n] = {}]
     /\ settled' = {p \in settled : p[1] # n}
     /\ UNCHANGED <<leader, stored, request, nextID, terms, tangled>>

Crash(n) ==
  /\ Fault("crash")
  /\ EndProcess(n)

\* Two threads are at the map and one of them writes it.  The Go runtime may
\* notice, and then it ends the process.
FatalRace(n) ==
  /\ \E t, u \in Thread :
       /\ t # u
       /\ NodeOf(t) = n
       /\ NodeOf(u) = n
       /\ pc[t] \in {"recording", "forgetting"}
       /\ pc[u] \in {"finding", "recording", "forgetting"}
  /\ EndProcess(n)
  /\ UNCHANGED faults

-----------------------------------------------------------------------------
Serve(r) ==
  \/ Receive(r)
  \/ PutJob(r)
  \/ DeleteJob(r)
  \/ WriteFails(r)
  \/ LateWrite(r)
  \/ Forget(r)

UseCron(t) ==
  \/ Find(t)
  \/ RemoveEntry(t)
  \/ AddEntry(t)
  \/ Record(t)

Lead(n) ==
  \/ BeginTerm(n)
  \/ ListJobs(n)
  \/ ListFails(n)
  \/ LostLeadership(n)

Next ==
  \/ \E r \in Request : Serve(r)
  \/ \E t \in Thread : UseCron(t)
  \/ \E n \in Node : Lead(n)
  \/ EndTerm
  \/ \E n \in Node : Crash(n)
  \/ \E n \in Node : FatalRace(n)

Spec == Init /\ [][Next]_vars

-----------------------------------------------------------------------------
(* Properties *)

EntriesOf(n, x) == {e \in entries[n] : e.name = x}

TypeOK ==
  /\ process \in [Node -> {"up", "down"}]
  /\ leader  \in Node \cup {NoNode}
  /\ stored  \in [Name -> Definition \cup {NoJob}]
  /\ late    \subseteq Request
  /\ request \in [Request -> [node : Node, op : {"save", "delete"}, name : Name]]
  /\ pc      \in [Thread -> RequestPCs \cup LoaderPCs]
  /\ \A r \in Request : pc[r] \in RequestPCs
  /\ \A n \in Node : pc[n] \in LoaderPCs
  /\ listed  \in [Node -> Seq([name : Name, def : Definition])]
  /\ found   \in [Thread -> Nat \cup {NoEntry}]
  /\ added   \in [Thread -> Nat \cup {NoEntry}]
  /\ jobs    \in [Node -> [Name -> Nat \cup {NoEntry}]]
  /\ entries \in [Node -> SUBSET [id : Nat, name : Name, def : Definition]]
  /\ nextID  \in [Node -> Nat]
  /\ terms   \in 0..MaxTerms
  /\ faults  \in 0..MaxFaults
  /\ tangled \subseteq Node \X Name
  /\ settled \subseteq Node \X Name

\* However saves, deletions and loads of one job interleave, the map never leads
\* to an entry that cron does not have or that belongs to another job, except
\* while a call that has removed the entry is about to replace or forget it.
NameLeadsToEntry ==
  \A n \in Node, x \in Name :
    jobs[n][x] # NoEntry =>
      \/ \E e \in EntriesOf(n, x) : e.id = jobs[n][x]
      \/ \E t \in Thread : /\ NodeOf(t) = n
                           /\ WorksOn(t, x)
                           /\ found[t] = jobs[n][x]

\* Calls for a job that do not overlap leave one entry of the job, the one that
\* the map leads to, or none: the job is triggered once, and can be removed.
OneEntryPerJob ==
  \A n \in Node, x \in Name :
    <<n, x>> \notin tangled /\ ~Busy(n, x) =>
      {e.id : e \in EntriesOf(n, x)} = {jobs[n][x]} \ {NoEntry}

\* No master triggers a definition that etcd has never held: a save whose put
\* fails, or is still under way, schedules nothing.
OnlyStoredJobsRun ==
  \A n \in Node : \A e \in entries[n] :
    e.def # Initial => pc[e.def] \notin {"idle", "putting"} /\ e.def \notin late

\* A node through which a job was saved, deleted or loaded last, by calls that did
\* not overlap with others, triggers exactly what etcd holds under the name,
\* until the job is changed through another node or a write fails.
SettledAgrees ==
  \A n \in Node, x \in Name :
    <<n, x>> \in settled \ tangled /\ ~Busy(n, x) =>
      EntriesOf(n, x) = IF stored[x] = NoJob THEN {}
                        ELSE {[id |-> jobs[n][x], name |-> x, def |-> stored[x]]}

-----------------------------------------------------------------------------
(* What the documentation says and the code does not do *)

\* cron_scheduler.go: RemoveJob removes a job from the scheduler.  When no call is
\* under way, a job that the map has forgotten is not triggered any more.
RemovedMeansGone ==
  \A n \in Node, x \in Name :
    jobs[n][x] = NoEntry /\ ~Busy(n, x) => EntriesOf(n, x) = {}
=============================================================================
