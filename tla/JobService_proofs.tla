-------------------------- MODULE JobService_proofs ---------------------------
(***************************************************************************)
(* Proofs about JobService, for every finite set of names, any nodes and   *)
(* requests, and any bound on faults and terms.                            *)
(*                                                                         *)
(* The inductive invariant JobIInv has three layers.  NamesOK holds for    *)
(* all interleavings of the calls of AddJob and RemoveJob: an id has one   *)
(* name, wherever a map, an entry or a thread has it, so that no call ever *)
(* removes the entry of another job.  DefsWritten is about etcd: only what *)
(* was written is listed or added, and a write that was given up is that   *)
(* of a request that is done.  Sequential says what a call relies on       *)
(* from one step to the next, for a job whose calls have not overlapped at *)
(* a node; OverlapsAreTangled gives it that the call is then the only one. *)
(***************************************************************************)
EXTENDS JobService, FiniteSetTheorems, SequenceTheorems, TLAPS

-----------------------------------------------------------------------------
(* Types *)

\* A job as it is listed and added.
Job == [name : Name, def : Definition]

\* A request always has a job to work on, a loader while its list is not empty.
HasJob(t) == t \in Request \/ listed[t] # <<>>

\* A thread is a request or a loader, and not both.
LEMMA ThreadIsOne ==
  ASSUME NEW t \in Thread
  PROVE  (t \in Node /\ t \notin Request) \/ (t \in Request /\ t \notin Node)
BY JobAssumption DEF Thread

\* The job that a thread works on, and the node that it runs at.
LEMMA JobIsTyped ==
  ASSUME TypeOK, NEW t \in Thread, HasJob(t)
  PROVE  JobOf(t) \in Job /\ NodeOf(t) \in Node
<1>1. CASE t \in Node
  <2>1. listed[t] \in Seq(Job) /\ listed[t] # <<>>
    BY <1>1, ThreadIsOne DEF TypeOK, HasJob, Job
  <2>2. Head(listed[t]) \in Job
    BY <2>1, HeadTailProperties
  <2> QED
    BY <1>1, <2>2 DEF JobOf, NodeOf
<1>2. CASE t \notin Node
  BY <1>2 DEF Thread, JobOf, NodeOf, TypeOK, Job, Definition
<1> QED
  BY <1>1, <1>2

\* An order of names is a sequence of them.
LEMMA OrderIsSeq ==
  ASSUME NEW S \in SUBSET Name, NEW order \in SetToSeqs(S)
  PROVE  order \in Seq(S) /\ \A i \in DOMAIN order : order[i] \in S
<1>1. IsFiniteSet(S)
  BY JobAssumption, FS_Subset
<1>2. Cardinality(S) \in Nat
  BY <1>1, FS_CardinalityType
<1>3. order \in [1..Cardinality(S) -> S]
  BY DEF SetToSeqs
<1> QED
  BY <1>2, <1>3

\* What a loader lists: jobs with the definitions that etcd holds.
LEMMA ListedIsSeq ==
  ASSUME TypeOK,
         NEW order \in SetToSeqs({x \in Name : stored[x] # NoJob}),
         NEW list, list = [i \in DOMAIN order |-> [name |-> order[i], def |-> stored[order[i]]]]
  PROVE  /\ list \in Seq(Job)
         /\ list = <<>> <=> order = <<>>
         /\ \A i \in DOMAIN list : /\ list[i].name \in Name
                                   /\ list[i].def = stored[list[i].name]
                                   /\ list[i].def # NoJob
<1> DEFINE S == {x \in Name : stored[x] # NoJob}
<1>1. order \in Seq(S) /\ \A i \in DOMAIN order : order[i] \in S
  <2>1. S \in SUBSET Name
    OBVIOUS
  <2> HIDE DEF S
  <2> QED
    BY <2>1, OrderIsSeq DEF S
<1>2. \A i \in DOMAIN order : order[i] \in Name /\ stored[order[i]] \in Definition
                              /\ stored[order[i]] # NoJob
  BY <1>1 DEF TypeOK
<1>3. \A i \in DOMAIN order : [name |-> order[i], def |-> stored[order[i]]] \in Job
  BY <1>2 DEF Job
<1>4. DOMAIN order = 1..Len(order) /\ Len(order) \in Nat
  BY <1>1
<1>5. list \in Seq(Job)
  BY <1>3, <1>4
<1>6. Len(list) = Len(order)
  BY <1>4
<1>7. list = <<>> <=> order = <<>>
  BY <1>1, <1>5, <1>6, EmptySeq
<1> QED
  BY <1>2, <1>5, <1>7

\* A write leaves etcd well typed.
LEMMA WriteIsTyped ==
  ASSUME TypeOK, NEW r \in Request, Write(r)
  PROVE  stored' \in [Name -> Definition \cup {NoJob}] /\ settled' \in SUBSET (Node \X Name)
BY DEF TypeOK, Write, Definition

\* A step from one pc to another leaves the pcs well typed,
LEMMA PCIsTyped ==
  ASSUME TypeOK, NEW t \in Thread, NEW from, NEW to,
         t \in Request => to \in RequestPCs, t \in Node => to \in LoaderPCs, Goto(t, from, to)
  PROVE  /\ pc' \in [Thread -> RequestPCs \cup LoaderPCs]
         /\ \A r \in Request : pc'[r] \in RequestPCs
         /\ \A n \in Node : pc'[n] \in LoaderPCs
BY JobAssumption DEF TypeOK, Goto, Thread

\* and a fault the number of faults.
LEMMA FaultIsTyped ==
  ASSUME TypeOK, NEW kind, Fault(kind) \/ UNCHANGED faults
  PROVE  faults' \in 0..MaxFaults
BY JobAssumption DEF Fault, TypeOK

\* The steps of requests, of calls, of loaders and of processes keep the types.
LEMMA ServeTypeKept ==
  ASSUME TypeOK, NEW r \in Request, Receive(r) \/ PutJob(r) \/ DeleteJob(r) \/ WriteFails(r)
                                    \/ LateWrite(r) \/ Forget(r)
  PROVE  TypeOK'
<1>0. r \in Thread /\ r \notin Node /\ request[r].node \in Node /\ request[r].name \in Name
  BY ThreadIsOne DEF Thread, TypeOK
<1>1. CASE Receive(r)
  <2>1. tangled' \in SUBSET (Node \X Name)
    BY <1>0, <1>1 DEF Receive, TypeOK, NodeOf, Thread
  <2>2. /\ pc' \in [Thread -> RequestPCs \cup LoaderPCs]
        /\ \A q \in Request : pc'[q] \in RequestPCs
        /\ \A n \in Node : pc'[n] \in LoaderPCs
    BY <1>0, <1>1, PCIsTyped DEF Receive, RequestPCs
  <2> QED
    BY <1>1, <2>1, <2>2 DEF Receive, TypeOK, etcd, cron, bounds
<1>2. CASE PutJob(r)
  <2>1. /\ pc' \in [Thread -> RequestPCs \cup LoaderPCs]
        /\ \A q \in Request : pc'[q] \in RequestPCs
        /\ \A n \in Node : pc'[n] \in LoaderPCs
    BY <1>0, <1>2, PCIsTyped DEF PutJob, RequestPCs
  <2> QED
    BY <1>2, <2>1, WriteIsTyped DEF PutJob, TypeOK, cron, bounds
<1>3. CASE DeleteJob(r)
  <2>1. /\ pc' \in [Thread -> RequestPCs \cup LoaderPCs]
        /\ \A q \in Request : pc'[q] \in RequestPCs
        /\ \A n \in Node : pc'[n] \in LoaderPCs
    BY <1>0, <1>3, PCIsTyped DEF DeleteJob, RequestPCs
  <2>2. settled' \in SUBSET (Node \X Name) /\ stored' \in [Name -> Definition \cup {NoJob}]
    BY <1>0, <1>3 DEF DeleteJob, TypeOK
  <2> QED
    BY <1>3, <2>1, <2>2 DEF DeleteJob, TypeOK, cron, bounds
<1>4. CASE WriteFails(r)
  <2>1. /\ pc' \in [Thread -> RequestPCs \cup LoaderPCs]
        /\ \A q \in Request : pc'[q] \in RequestPCs
        /\ \A n \in Node : pc'[n] \in LoaderPCs
    BY <1>0, <1>4, PCIsTyped DEF WriteFails, RequestPCs
  <2>2. faults' \in 0..MaxFaults
    BY <1>4, FaultIsTyped DEF WriteFails
  <2>3. settled' \in SUBSET (Node \X Name)
    BY <1>4 DEF WriteFails, TypeOK
  <2> QED
    BY <1>4, <2>1, <2>2, <2>3 DEF WriteFails, TypeOK, cron
<1>5. CASE LateWrite(r)
  <2>1. tangled' \in SUBSET (Node \X Name)
    BY <1>0, <1>5 DEF LateWrite, TypeOK, NodeOf, Thread
  <2> QED
    BY <1>5, <2>1, WriteIsTyped DEF LateWrite, TypeOK, cron, bounds
<1>6. CASE Forget(r)
  <2>1. /\ pc' \in [Thread -> RequestPCs \cup LoaderPCs]
        /\ \A q \in Request : pc'[q] \in RequestPCs
        /\ \A n \in Node : pc'[n] \in LoaderPCs
    BY <1>0, <1>6, PCIsTyped DEF Forget, RequestPCs
  <2>2. jobs' \in [Node -> [Name -> Nat \cup {NoEntry}]] /\ found' \in [Thread -> Nat \cup {NoEntry}]
    BY <1>0, <1>6 DEF Forget, TypeOK
  <2> QED
    BY <1>6, <2>1, <2>2 DEF Forget, TypeOK, etcd, bounds, history
<1> QED
  BY <1>1, <1>2, <1>3, <1>4, <1>5, <1>6

\* Where a thread is tells which of its variables it uses: a loader that is at a
\* call has a job to load, a request does only what its operation does, and the
\* ids found and added are kept from the step that reads or gets them to the end
\* of the call.
Control ==
  /\ \A n \in Node : pc[n] \in {"standby", "listing", "leading"} <=> listed[n] = <<>>
  /\ \A r \in Request : IF request[r].op = "save"
                        THEN pc[r] \notin {"forgetting", "deleting"}
                        ELSE pc[r] \notin {"putting", "adding", "recording"}
  /\ \A t \in Thread :
       /\ pc[t] \in {"removing", "forgetting"} => found[t] # NoEntry
       /\ found[t] # NoEntry => pc[t] \in {"removing", "adding", "recording", "forgetting"}
       /\ pc[t] = "recording" <=> added[t] # NoEntry

\* The pc of a thread in AddJob or RemoveJob.
InCron == {"finding", "removing", "adding", "recording", "forgetting", "deleting"}

\* A thread at a call has a job.
LEMMA CallerHasJob ==
  ASSUME Control, NEW t \in Thread, pc[t] \in InCron
  PROVE  HasJob(t)
BY DEF Control, HasJob, InCron, Thread

\* A call of cron reads and writes ids, names and definitions.
LEMMA UseCronTypeKept ==
  ASSUME TypeOK, Control, NEW t \in Thread, UseCron(t)
  PROVE  TypeOK'
<1>1. pc[t] \in InCron
  BY DEF UseCron, Find, RemoveEntry, AddEntry, Record, Goto, InCron
<1>2. JobOf(t).name \in Name /\ JobOf(t).def \in Definition /\ NodeOf(t) \in Node
  BY <1>1, CallerHasJob, JobIsTyped DEF Job
<1>3. CASE Find(t)
  <2>1. /\ pc' \in [Thread -> RequestPCs \cup LoaderPCs]
        /\ \A q \in Request : pc'[q] \in RequestPCs
        /\ \A n \in Node : pc'[n] \in LoaderPCs
    BY <1>3, PCIsTyped, ThreadIsOne DEF Find, RequestPCs, LoaderPCs, Adds
  <2>2. found' \in [Thread -> Nat \cup {NoEntry}]
    BY <1>2, <1>3 DEF Find, TypeOK
  <2> QED
    BY <1>3, <2>1, <2>2 DEF Find, TypeOK, etcd, cron, bounds, history
<1>4. CASE RemoveEntry(t)
  <2>1. /\ pc' \in [Thread -> RequestPCs \cup LoaderPCs]
        /\ \A q \in Request : pc'[q] \in RequestPCs
        /\ \A n \in Node : pc'[n] \in LoaderPCs
    BY <1>4, PCIsTyped, ThreadIsOne DEF RemoveEntry, RequestPCs, LoaderPCs, Adds
  <2>2. entries' \in [Node -> SUBSET [id : Nat, name : Name, def : Definition]]
    BY <1>2, <1>4 DEF RemoveEntry, TypeOK
  <2> QED
    BY <1>4, <2>1, <2>2 DEF RemoveEntry, TypeOK, etcd, bounds, history
<1>5. CASE AddEntry(t)
  <2>1. /\ pc' \in [Thread -> RequestPCs \cup LoaderPCs]
        /\ \A q \in Request : pc'[q] \in RequestPCs
        /\ \A n \in Node : pc'[n] \in LoaderPCs
    BY <1>5, PCIsTyped, ThreadIsOne DEF AddEntry, RequestPCs, LoaderPCs
  <2>2. nextID' \in [Node -> Nat] /\ nextID'[NodeOf(t)] \in Nat
    BY <1>2, <1>5 DEF AddEntry, TypeOK
  <2>3. added' \in [Thread -> Nat \cup {NoEntry}]
    BY <1>5, <2>2 DEF AddEntry, TypeOK
  <2>4. [id |-> nextID'[NodeOf(t)], name |-> JobOf(t).name, def |-> JobOf(t).def]
          \in [id : Nat, name : Name, def : Definition]
    BY <1>2, <2>2
  <2>5. entries' \in [Node -> SUBSET [id : Nat, name : Name, def : Definition]]
    BY <1>2, <1>5, <2>4 DEF AddEntry, TypeOK
  <2> QED
    BY <1>5, <2>1, <2>2, <2>3, <2>5 DEF AddEntry, TypeOK, etcd, bounds, history
<1>6. CASE Record(t)
  <2>1. /\ pc' \in [Thread -> RequestPCs \cup LoaderPCs]
        /\ \A q \in Request : pc'[q] \in RequestPCs
        /\ \A n \in Node : pc'[n] \in LoaderPCs
    BY <1>6, PCIsTyped, ThreadIsOne DEF Record, RequestPCs, LoaderPCs
  <2>2. found' \in [Thread -> Nat \cup {NoEntry}] /\ added' \in [Thread -> Nat \cup {NoEntry}]
    BY <1>6 DEF Record, TypeOK
  <2>3. jobs' \in [Node -> [Name -> Nat \cup {NoEntry}]]
    BY <1>2, <1>6 DEF Record, TypeOK
  <2>4. settled' \in SUBSET (Node \X Name)
    BY <1>2, <1>6 DEF Record, TypeOK
  <2>5. listed' \in [Node -> Seq(Job)]
    <3>1. CASE t \in Node
      <4>1. listed[t] \in Seq(Job) /\ listed[t] # <<>>
        BY <1>1, <3>1, CallerHasJob, ThreadIsOne DEF HasJob, TypeOK, Job
      <4>2. Tail(listed[t]) \in Seq(Job)
        BY <4>1, HeadTailProperties
      <4> QED
        BY <1>6, <3>1, <4>2 DEF Record, TypeOK, Job
    <3>2. CASE t \notin Node
      BY <1>6, <3>2 DEF Record, TypeOK, Job
    <3> QED
      BY <3>1, <3>2
  <2> QED
    BY <1>6, <2>1, <2>2, <2>3, <2>4, <2>5 DEF Record, TypeOK, etcd, bounds, Job
<1> QED
  BY <1>3, <1>4, <1>5, <1>6 DEF UseCron

\* A loader lists jobs that are well typed.
LEMMA LeadTypeKept ==
  ASSUME TypeOK, NEW n \in Node, Lead(n)
  PROVE  TypeOK'
<1>0. n \in Thread /\ n \notin Request
  BY JobAssumption DEF Thread
<1>1. CASE BeginTerm(n)
  <2>1. /\ pc' \in [Thread -> RequestPCs \cup LoaderPCs]
        /\ \A q \in Request : pc'[q] \in RequestPCs
        /\ \A m \in Node : pc'[m] \in LoaderPCs
    BY <1>0, <1>1, PCIsTyped DEF BeginTerm, LoaderPCs
  <2>2. terms' \in 0..MaxTerms
    BY <1>1, JobAssumption DEF BeginTerm, TypeOK
  <2> QED
    BY <1>1, <2>1, <2>2 DEF BeginTerm, TypeOK, cron, history
<1>2. CASE ListJobs(n)
  <2>1. PICK order \in SetToSeqs({x \in Name : stored[x] # NoJob}) :
           /\ listed' = [listed EXCEPT ![n] =
                [i \in DOMAIN order |-> [name |-> order[i], def |-> stored[order[i]]]]]
           /\ pc' = [pc EXCEPT ![n] = IF order = <<>> THEN "leading" ELSE "finding"]
    BY <1>2 DEF ListJobs
  <2>2. listed' \in [Node -> Seq(Job)]
    BY <2>1, ListedIsSeq DEF TypeOK, Job
  <2>3. /\ pc' \in [Thread -> RequestPCs \cup LoaderPCs]
        /\ \A q \in Request : pc'[q] \in RequestPCs
        /\ \A m \in Node : pc'[m] \in LoaderPCs
    BY <1>0, <2>1 DEF TypeOK, LoaderPCs
  <2>4. tangled' \in SUBSET (Node \X Name)
    BY <1>2 DEF ListJobs, TypeOK
  <2> QED
    BY <1>2, <2>2, <2>3, <2>4 DEF ListJobs, TypeOK, Job, etcd, cron, bounds
<1>3. CASE ListFails(n) \/ LostLeadership(n)
  <2>1. /\ pc' \in [Thread -> RequestPCs \cup LoaderPCs]
        /\ \A q \in Request : pc'[q] \in RequestPCs
        /\ \A m \in Node : pc'[m] \in LoaderPCs
    BY <1>0, <1>3, PCIsTyped DEF ListFails, LostLeadership, LoaderPCs
  <2>2. faults' \in 0..MaxFaults
    BY <1>3, FaultIsTyped DEF ListFails, LostLeadership, bounds
  <2> QED
    BY <1>3, <2>1, <2>2
       DEF ListFails, LostLeadership, TypeOK, etcd, cron, bounds, history
<1> QED
  BY <1>1, <1>2, <1>3 DEF Lead

\* A process that ends leaves an empty cron.
LEMMA EndProcessTypeKept ==
  ASSUME TypeOK, NEW n \in Node, EndProcess(n), faults' \in 0..MaxFaults
  PROVE  TypeOK'
<1>1. /\ pc' \in [Thread -> RequestPCs \cup LoaderPCs]
      /\ \A q \in Request : pc'[q] \in RequestPCs
      /\ \A m \in Node : pc'[m] \in LoaderPCs
  BY JobAssumption DEF EndProcess, TypeOK, Thread, RequestPCs, LoaderPCs
<1>2. listed' \in [Node -> Seq(Job)]
  BY EmptySeq DEF EndProcess, TypeOK, Job
<1>3. found' \in [Thread -> Nat \cup {NoEntry}] /\ added' \in [Thread -> Nat \cup {NoEntry}]
  BY DEF EndProcess, TypeOK
<1>4. late' \in SUBSET Request /\ settled' \in SUBSET (Node \X Name)
  BY DEF EndProcess, TypeOK
<1>5. /\ jobs' \in [Node -> [Name -> Nat \cup {NoEntry}]]
      /\ entries' \in [Node -> SUBSET [id : Nat, name : Name, def : Definition]]
      /\ process' \in [Node -> {"up", "down"}]
  BY DEF EndProcess, TypeOK
<1> QED
  BY <1>1, <1>2, <1>3, <1>4, <1>5 DEF EndProcess, TypeOK, Job

\* Every step keeps the types.
LEMMA TypeKept ==
  ASSUME TypeOK, Control, [Next]_vars
  PROVE  TypeOK'
<1>1. CASE UNCHANGED vars
  BY <1>1 DEF vars, etcd, cron, bounds, history, TypeOK
<1>2. ASSUME NEW r \in Request, Serve(r)
      PROVE  TypeOK'
  BY <1>2, ServeTypeKept DEF Serve
<1>3. CASE EndTerm
  BY <1>3 DEF EndTerm, cron, bounds, history, TypeOK
<1>4. ASSUME NEW n \in Node, Crash(n) \/ FatalRace(n)
      PROVE  TypeOK'
  BY <1>4, FaultIsTyped, EndProcessTypeKept DEF Crash, FatalRace
<1> QED
  BY <1>1, <1>2, <1>3, <1>4, UseCronTypeKept, LeadTypeKept DEF Next

-----------------------------------------------------------------------------
(* Where threads are, and what they keep *)

\* A sequence is empty if its length is 0.
LEMMA EmptyIsLenZero ==
  ASSUME NEW S, NEW s \in Seq(S)
  PROVE  s = <<>> <=> Len(s) = 0
BY EmptySeq

\* What a loader has listed is empty exactly while it is not at a call.
LEMMA ControlKept ==
  ASSUME TypeOK, Control, [Next]_vars
  PROVE  Control'
<1>1. CASE UNCHANGED vars \/ EndTerm
  BY <1>1 DEF vars, etcd, cron, bounds, history, Control, EndTerm
<1>2. ASSUME NEW r \in Request, Receive(r) \/ PutJob(r) \/ DeleteJob(r) \/ WriteFails(r)
      PROVE  Control'
  <2>1. r \in Thread /\ r \notin Node /\ request[r].op \in {"save", "delete"}
    BY ThreadIsOne DEF Thread, TypeOK
  <2> QED
    BY <1>2, <2>1
       DEF Receive, PutJob, DeleteJob, WriteFails, Goto, Control, TypeOK, Thread
<1>3. ASSUME NEW r \in Request, LateWrite(r)
      PROVE  Control'
  BY <1>3 DEF LateWrite, Control
<1>4. ASSUME NEW r \in Request, Forget(r)
      PROVE  Control'
  <2>1. r \in Thread /\ r \notin Node /\ request[r].op \in {"save", "delete"}
    BY ThreadIsOne DEF Thread, TypeOK
  <2> QED
    BY <1>4, <2>1 DEF Forget, Goto, Control, TypeOK, Thread
<1>5. ASSUME NEW t \in Thread, Find(t) \/ RemoveEntry(t) \/ AddEntry(t)
      PROVE  Control'
  <2>1. (t \in Node /\ t \notin Request) \/ (t \in Request /\ t \notin Node)
    BY ThreadIsOne
  <2>2. CASE Find(t)
    BY <2>1, <2>2 DEF Find, Goto, Control, TypeOK, Thread, Adds
  <2>3. CASE RemoveEntry(t)
    BY <2>1, <2>3 DEF RemoveEntry, Goto, Control, TypeOK, Thread, Adds
  <2>4. CASE AddEntry(t)
    <3>1. nextID'[NodeOf(t)] # NoEntry
      BY <2>4, JobAssumption DEF AddEntry, TypeOK, NodeOf, Thread
    <3> QED
      BY <2>1, <2>4, <3>1 DEF AddEntry, Goto, Control, TypeOK, Thread
  <2> QED
    BY <1>5, <2>2, <2>3, <2>4
<1>6. ASSUME NEW t \in Thread, Record(t)
      PROVE  Control'
  <2>1. CASE t \in Request
    BY <1>6, <2>1, ThreadIsOne DEF Record, Goto, Control, TypeOK, Thread
  <2>2. CASE t \notin Request
    <3>1. t \in Node /\ pc[t] = "recording"
      BY <1>6, <2>2, ThreadIsOne DEF Record, Goto
    <3>2. listed[t] \in Seq(Job) /\ listed[t] # <<>>
      BY <3>1 DEF Control, TypeOK, Job
    <3>3. Tail(listed[t]) \in Seq(Job) /\ Len(Tail(listed[t])) = Len(listed[t]) - 1
      BY <3>2, HeadTailProperties
    <3>4. Tail(listed[t]) = <<>> <=> Len(listed[t]) = 1
      <4> DEFINE s == listed[t]
                 l == Tail(listed[t])
      <4>1. l \in Seq(Job) /\ s \in Seq(Job) /\ Len(l) = Len(s) - 1
        BY <3>2, <3>3
      <4> HIDE DEF l, s
      <4>2. l = <<>> <=> Len(l) = 0
        BY <4>1, EmptyIsLenZero
      <4>3. l = <<>> <=> Len(s) = 1
        BY <4>1, <4>2
      <4> QED
        BY <4>3 DEF l, s
    <3>5. listed'[t] = Tail(listed[t]) /\ \A n \in Node \ {t} : listed'[n] = listed[n]
      BY <1>6, <3>1 DEF Record, TypeOK
    <3>6. pc'[t] \in {"standby", "listing", "leading"} <=> listed'[t] = <<>>
      BY <1>6, <2>2, <3>1, <3>4, <3>5 DEF Record, Goto, TypeOK
    <3> QED
      BY <1>6, <2>2, <3>1, <3>5, <3>6 DEF Record, Goto, Control, TypeOK, Thread
  <2> QED
    BY <2>1, <2>2
<1>7. ASSUME NEW n \in Node, BeginTerm(n) \/ ListFails(n) \/ LostLeadership(n)
      PROVE  Control'
  <2>1. n \in Thread /\ n \notin Request
    BY JobAssumption DEF Thread
  <2> QED
    BY <1>7, <2>1
       DEF BeginTerm, ListFails, LostLeadership, Goto, Control, TypeOK, Thread
<1>8. ASSUME NEW n \in Node, ListJobs(n)
      PROVE  Control'
  <2>1. PICK order \in SetToSeqs({x \in Name : stored[x] # NoJob}) :
           /\ listed' = [listed EXCEPT ![n] =
                [i \in DOMAIN order |-> [name |-> order[i], def |-> stored[order[i]]]]]
           /\ pc' = [pc EXCEPT ![n] = IF order = <<>> THEN "leading" ELSE "finding"]
    BY <1>8 DEF ListJobs
  <2>2. listed'[n] = <<>> <=> order = <<>>
    BY <2>1, ListedIsSeq DEF TypeOK
  <2>3. \A m \in Node \ {n} : listed'[m] = listed[m]
    BY <2>1 DEF TypeOK
  <2>4. n \in Thread /\ n \notin Request
    BY JobAssumption DEF Thread
  <2>5. \A u \in Thread \ {n} : pc'[u] = pc[u]
    BY <2>1, <2>4 DEF TypeOK
  <2>6. pc'[n] = IF listed'[n] = <<>> THEN "leading" ELSE "finding"
    BY <2>1, <2>2, <2>4 DEF TypeOK
  <2>7. found' = found /\ added' = added /\ request' = request /\ pc[n] = "listing"
    BY <1>8 DEF ListJobs
  <2>8. found[n] = NoEntry /\ added[n] = NoEntry
    BY <2>4, <2>7 DEF Control
  <2> QED
    BY <2>3, <2>4, <2>5, <2>6, <2>7, <2>8 DEF Control, Thread
<1>9. ASSUME NEW n \in Node, EndProcess(n)
      PROVE  Control'
  <2>1. \A r \in Request : pc'[r] \in {pc[r], "done"} /\ r \notin Node
    BY <1>9, JobAssumption DEF EndProcess, Thread
  <2>2. /\ pc'[n] = "standby" /\ listed'[n] = <<>>
        /\ \A m \in Node \ {n} : pc'[m] = pc[m] /\ listed'[m] = listed[m]
    BY <1>9, JobAssumption DEF EndProcess, Thread, TypeOK
  <2>3. ASSUME NEW t \in Thread
        PROVE  \/ found'[t] = NoEntry /\ added'[t] = NoEntry /\ pc'[t] \in {"standby", "done"}
               \/ found'[t] = found[t] /\ added'[t] = added[t] /\ pc'[t] = pc[t]
    BY <1>9, ThreadIsOne DEF EndProcess
  <2>4. request' = request
    BY <1>9 DEF EndProcess
  <2> QED
    BY <2>1, <2>2, <2>3, <2>4 DEF Control
<1> QED
  BY <1>1, <1>2, <1>3, <1>4, <1>5, <1>6, <1>7, <1>8, <1>9
     DEF Next, Serve, UseCron, Lead, Crash, FatalRace

-----------------------------------------------------------------------------
(* Names and entries *)

\* The name of the job that a thread adds or removes.
NameOf(t) == JobOf(t).name

\* An id at n that an entry of x has, that the map has for x, or that a thread at
\* a call for x has found or been given.
Claimed(n, i, x) ==
  \/ \E e \in EntriesOf(n, x) : e.id = i
  \/ jobs[n][x] = i
  \/ \E t \in Thread : NodeOf(t) = n /\ i \in {found[t], added[t]} /\ NameOf(t) = x

\* All that has an id of a cron has it for one name, and was given it before.
OneNamePerID ==
  \A n \in Node : \A i \in Nat : \A x \in Name :
    Claimed(n, i, x) =>
      /\ i <= nextID[n]
      /\ \A y \in Name : Claimed(n, i, y) => y = x

\* The entry that AddJob has just added is in cron, and until AddJob records it
\* nobody else at its node knows its id.
AddedIsNew ==
  \A t \in Thread : added[t] # NoEntry =>
    /\ \E e \in EntriesOf(NodeOf(t), NameOf(t)) : e.id = added[t]
    /\ \A x \in Name : jobs[NodeOf(t)][x] # added[t]
    /\ \A u \in Thread : NodeOf(u) = NodeOf(t) =>
         found[u] # added[t] /\ (u # t => added[u] # added[t])

\* NameLeadsToEntry in the terms of calls: the map leads to an entry of its name, or
\* a call for the name has found the id and will replace or forget it.
EntryOrCall ==
  \A n \in Node, x \in Name :
    jobs[n][x] # NoEntry =>
      \/ \E e \in EntriesOf(n, x) : e.id = jobs[n][x]
      \/ \E t \in Thread : NodeOf(t) = n /\ found[t] = jobs[n][x] /\ NameOf(t) = x

\* Names, ids and entries fit together, whatever calls overlap.
NamesOK == OneNamePerID /\ AddedIsNew /\ EntryOrCall

\* A thread works on the same job as long as its request or list stays as it is.
LEMMA SameJob ==
  ASSUME NEW t, request' = request, t \in Node => listed'[t] = listed[t]
  PROVE  JobOf(t)' = JobOf(t) /\ NameOf(t)' = NameOf(t) /\ NodeOf(t)' = NodeOf(t)
         /\ Adds(t)' = Adds(t)
BY DEF JobOf, NodeOf, NameOf, Adds

\* No id gets a name by a step after which nothing claims what was not claimed.
LEMMA NoNewClaims ==
  ASSUME OneNamePerID, nextID' = nextID,
         \A n \in Node, i \in Nat, x \in Name : Claimed(n, i, x)' => Claimed(n, i, x)
  PROVE  OneNamePerID'
BY DEF OneNamePerID

\* Find: the thread knows an id that the map had for the name.
LEMMA FindKeepsNames ==
  ASSUME TypeOK, Control, NamesOK, NEW t \in Thread, Find(t)
  PROVE  NamesOK'
<1> DEFINE n == NodeOf(t)
           x == NameOf(t)
<1>1. /\ found' = [found EXCEPT ![t] = jobs[n][x]]
      /\ UNCHANGED <<added, jobs, entries, nextID>>
      /\ \A u : JobOf(u)' = JobOf(u) /\ NameOf(u)' = NameOf(u) /\ NodeOf(u)' = NodeOf(u)
  BY DEF Find, NameOf, cron, JobOf, NodeOf
<1>2. found[t] = NoEntry
  BY DEF Find, Goto, Control
<1>3. found'[t] = jobs[n][x] /\ \A u \in Thread \ {t} : found'[u] = found[u]
  BY <1>1 DEF TypeOK
<1>4. n \in Node /\ x \in Name
  <2>1. pc[t] \in InCron
    BY DEF Find, Goto, InCron
  <2> QED
    BY <2>1, CallerHasJob, JobIsTyped DEF NameOf, Job
<1> HIDE DEF n, x
<1>5. OneNamePerID'
  <2>1. ASSUME NEW m \in Node, NEW i \in Nat, NEW y \in Name, Claimed(m, i, y)'
        PROVE  Claimed(m, i, y)
    BY <1>1, <1>3, <1>4, <2>1 DEF Claimed, EntriesOf, n, x
  <2> QED
    BY <1>1, <2>1, NoNewClaims DEF NamesOK
<1>6. AddedIsNew'
  BY <1>1, <1>3, <1>4 DEF NamesOK, AddedIsNew, EntriesOf, n, x
<1>7. EntryOrCall'
  BY <1>1, <1>2, <1>3 DEF NamesOK, EntryOrCall, EntriesOf
<1> QED
  BY <1>5, <1>6, <1>7 DEF NamesOK

\* RemoveEntry: entries that go had the id that the thread had found, and so its name.
LEMMA RemoveEntryKeepsNames ==
  ASSUME TypeOK, Control, NamesOK, NEW t \in Thread, RemoveEntry(t)
  PROVE  NamesOK'
<1> DEFINE n == NodeOf(t)
           x == NameOf(t)
<1>1. /\ entries' = [entries EXCEPT ![n] = {e \in @ : e.id # found[t]}]
      /\ UNCHANGED <<added, found, jobs, nextID>>
      /\ \A u : JobOf(u)' = JobOf(u) /\ NameOf(u)' = NameOf(u) /\ NodeOf(u)' = NodeOf(u)
  BY DEF RemoveEntry, NameOf, JobOf, NodeOf
<1>2. found[t] \in Nat
  BY DEF RemoveEntry, Goto, Control, TypeOK
<1>4. n \in Node /\ x \in Name
  <2>1. pc[t] \in InCron
    BY DEF RemoveEntry, Goto, InCron
  <2> QED
    BY <2>1, CallerHasJob, JobIsTyped DEF NameOf, Job
<1>5. \A m \in Node : \A e : e \in entries'[m] <=> e \in entries[m] /\ (m = n => e.id # found[t])
  BY <1>1, <1>4 DEF TypeOK
<1> HIDE DEF n, x
<1>6. OneNamePerID'
  <2>1. ASSUME NEW m \in Node, NEW i \in Nat, NEW y \in Name, Claimed(m, i, y)'
        PROVE  Claimed(m, i, y)
    BY <1>1, <1>5, <2>1 DEF Claimed, EntriesOf
  <2> QED
    BY <1>1, <2>1, NoNewClaims DEF NamesOK
<1>7. AddedIsNew'
  <2>1. ASSUME NEW u \in Thread, added[u] # NoEntry
        PROVE  \E e \in EntriesOf(NodeOf(u), NameOf(u))' : e.id = added[u]
    <3>1. PICK e \in EntriesOf(NodeOf(u), NameOf(u)) : e.id = added[u]
      BY <2>1 DEF NamesOK, AddedIsNew
    <3>2. NodeOf(u) = n => found[t] # added[u]
      BY <2>1 DEF NamesOK, AddedIsNew, n
    <3>3. NodeOf(u) \in Node
      BY DEF NodeOf, TypeOK, Thread
    <3> QED
      BY <1>1, <1>5, <3>1, <3>2, <3>3 DEF EntriesOf
  <2> QED
    BY <1>1, <2>1 DEF NamesOK, AddedIsNew
<1>8. EntryOrCall'
  <2>1. ASSUME NEW m \in Node, NEW y \in Name, jobs[m][y] # NoEntry
        PROVE  \/ \E e \in EntriesOf(m, y)' : e.id = jobs[m][y]
               \/ \E u \in Thread : NodeOf(u) = m /\ found[u] = jobs[m][y] /\ NameOf(u) = y
    <3>1. CASE m = n /\ found[t] = jobs[m][y]
      <4>1. Claimed(n, found[t], x) /\ Claimed(n, found[t], y)
        BY <3>1 DEF Claimed, n, x
      <4>2. x = y
        BY <1>2, <1>4, <4>1 DEF NamesOK, OneNamePerID
      <4> QED
        BY <3>1, <4>2 DEF n, x
    <3>2. CASE ~(m = n /\ found[t] = jobs[m][y])
      BY <1>5, <2>1, <3>2 DEF NamesOK, EntryOrCall, EntriesOf
    <3> QED
      BY <3>1, <3>2
  <2> QED
    BY <1>1, <2>1 DEF EntryOrCall
<1> QED
  BY <1>6, <1>7, <1>8 DEF NamesOK

\* AddEntry: the id is new, and nobody claims it for another name.
LEMMA AddEntryKeepsNames ==
  ASSUME TypeOK, Control, NamesOK, NEW t \in Thread, AddEntry(t)
  PROVE  NamesOK'
<1> DEFINE n == NodeOf(t)
           x == NameOf(t)
           i == nextID[n] + 1
           e == [id |-> i, name |-> x, def |-> JobOf(t).def]
<1>1. n \in Node /\ x \in Name /\ i \in Nat
  <2>1. pc[t] \in InCron
    BY DEF AddEntry, Goto, InCron
  <2>2. n \in Node /\ x \in Name
    BY <2>1, CallerHasJob, JobIsTyped DEF NameOf, Job
  <2> HIDE DEF n
  <2> QED
    BY <2>2 DEF TypeOK
<1>2. nextID' = [nextID EXCEPT ![n] = i] /\ nextID'[n] = i
  BY <1>1 DEF AddEntry, TypeOK
<1>3. /\ added' = [added EXCEPT ![t] = i]
      /\ entries' = [entries EXCEPT ![n] = @ \cup {e}]
      /\ UNCHANGED <<found, jobs>>
      /\ \A u : JobOf(u)' = JobOf(u) /\ NameOf(u)' = NameOf(u) /\ NodeOf(u)' = NodeOf(u)
  BY <1>2 DEF AddEntry, NameOf, JobOf, NodeOf
<1>4. added[t] = NoEntry
  BY DEF AddEntry, Goto, Control
<1>5. e.id = i /\ e.name = x
  OBVIOUS
<1> HIDE DEF n, x, e, i
<1>6. \A m \in Node : \A f : f \in entries'[m] <=> f \in entries[m] \/ (m = n /\ f = e)
  BY <1>1, <1>3 DEF TypeOK
<1>7. added'[t] = i /\ \A u \in Thread \ {t} : added'[u] = added[u]
  BY <1>3 DEF TypeOK
<1>8. ASSUME NEW m \in Node, NEW j \in Nat, NEW y \in Name, Claimed(m, j, y)'
      PROVE  Claimed(m, j, y) \/ (m = n /\ j = i /\ y = x)
  BY <1>3, <1>5, <1>6, <1>7, <1>8 DEF Claimed, EntriesOf, n, x
<1>9. \A m \in Node, j \in Nat, y \in Name : Claimed(m, j, y) => j <= nextID[m]
  BY DEF NamesOK, OneNamePerID
<1>10. nextID[n] \in Nat /\ i = nextID[n] + 1 /\ \A m \in Node \ {n} : nextID'[m] = nextID[m]
  BY <1>1, <1>2 DEF TypeOK, i
<1>11. \A y \in Name : ~Claimed(n, i, y)
  BY <1>1, <1>9, <1>10
<1>12. OneNamePerID'
  <2>1. ASSUME NEW m \in Node, NEW j \in Nat, NEW y \in Name, Claimed(m, j, y)'
        PROVE  j <= nextID'[m]
    BY <1>2, <1>8, <1>9, <1>10, <2>1 DEF TypeOK
  <2>2. ASSUME NEW m \in Node, NEW j \in Nat, NEW y \in Name, Claimed(m, j, y)',
               NEW z \in Name, Claimed(m, j, z)'
        PROVE  y = z
    <3>1. Claimed(m, j, y) /\ Claimed(m, j, z) => y = z
      BY DEF NamesOK, OneNamePerID
    <3> QED
      BY <1>1, <1>8, <1>11, <2>2, <3>1
  <2> QED
    BY <2>1, <2>2 DEF OneNamePerID
<1>13. AddedIsNew'
  <2>1. ASSUME NEW u \in Thread, added'[u] # NoEntry
        PROVE  \E f \in EntriesOf(NodeOf(u), NameOf(u))' : f.id = added'[u]
    <3>1. NodeOf(u) \in Node
      BY DEF NodeOf, TypeOK, Thread
    <3>2. CASE u = t
      BY <1>3, <1>5, <1>6, <1>7, <3>1, <3>2 DEF EntriesOf, n, x
    <3>3. CASE u # t
      BY <1>3, <1>6, <1>7, <2>1, <3>1, <3>3 DEF EntriesOf, NamesOK, AddedIsNew
    <3> QED
      BY <3>2, <3>3
  <2>2. ASSUME NEW u \in Thread, added'[u] # NoEntry, NEW y \in Name
        PROVE  jobs[NodeOf(u)][y] # added'[u]
    BY <1>1, <1>7, <1>11, <2>2 DEF NamesOK, AddedIsNew, Claimed, n
  <2>3. ASSUME NEW u \in Thread, added'[u] # NoEntry, NEW v \in Thread, NodeOf(v) = NodeOf(u)
        PROVE  found[v] # added'[u] /\ (v # u => added'[v] # added'[u])
    <3>1. \A w \in Thread : NodeOf(w) = n /\ i \in {found[w], added[w]} => NameOf(w) \in Name
      <4>1. ASSUME NEW w \in Thread, i \in {found[w], added[w]}
            PROVE  NameOf(w) \in Name
        <5>1. pc[w] \in InCron
          BY <1>1, <4>1, JobAssumption DEF Control, InCron
        <5> QED
          BY <5>1, CallerHasJob, JobIsTyped DEF NameOf, Job
      <4> QED
        BY <4>1
    <3>2. \A w \in Thread : NodeOf(w) = n => i \notin {found[w], added[w]}
      BY <1>11, <3>1 DEF Claimed
    <3> QED
      BY <1>7, <2>3, <3>2 DEF NamesOK, AddedIsNew, n
  <2> QED
    BY <1>3, <2>1, <2>2, <2>3 DEF AddedIsNew
<1>14. EntryOrCall'
  BY <1>3, <1>6 DEF NamesOK, EntryOrCall, EntriesOf
<1> QED
  BY <1>12, <1>13, <1>14 DEF NamesOK

\* Record: the id of the entry passes from the thread to the map.
LEMMA RecordKeepsNames ==
  ASSUME TypeOK, Control, NamesOK, NEW t \in Thread, Record(t)
  PROVE  NamesOK'
<1> DEFINE n == NodeOf(t)
           x == NameOf(t)
           i == added[t]
<1>1. n \in Node /\ x \in Name
  <2>1. pc[t] \in InCron
    BY DEF Record, Goto, InCron
  <2> QED
    BY <2>1, CallerHasJob, JobIsTyped DEF NameOf, Job
<1>2. i \in Nat /\ i # NoEntry
  BY JobAssumption DEF Record, Goto, Control, TypeOK
<1>3. /\ UNCHANGED <<entries, nextID>>
      /\ jobs' = [jobs EXCEPT ![n][x] = i]
      /\ found' = [found EXCEPT ![t] = NoEntry]
      /\ added' = [added EXCEPT ![t] = NoEntry]
  BY DEF Record, NameOf
<1>4. \A u \in Thread : NodeOf(u)' = NodeOf(u) /\ (u # t => NameOf(u)' = NameOf(u))
  <2>1. ASSUME NEW u \in Thread \ {t}
        PROVE  NameOf(u)' = NameOf(u)
    <3>1. request' = request /\ (u \in Node => listed'[u] = listed[u])
      BY <2>1 DEF Record, TypeOK
    <3> QED
      BY <3>1, SameJob
  <2> QED
    BY <2>1 DEF Record, NodeOf
<1> HIDE DEF n, x, i
<1>5. \A m \in Node, y \in Name : jobs'[m][y] = IF m = n /\ y = x THEN i ELSE jobs[m][y]
  BY <1>1, <1>3 DEF TypeOK
<1>6. /\ found'[t] = NoEntry /\ added'[t] = NoEntry
      /\ \A u \in Thread \ {t} : found'[u] = found[u] /\ added'[u] = added[u]
  BY <1>3 DEF TypeOK
<1>7. OneNamePerID'
  <2>1. ASSUME NEW m \in Node, NEW j \in Nat, NEW y \in Name, Claimed(m, j, y)'
        PROVE  Claimed(m, j, y)
    <3>1. CASE \E e \in EntriesOf(m, y)' : e.id = j
      BY <1>3, <3>1 DEF Claimed, EntriesOf
    <3>2. CASE jobs'[m][y] = j
      BY <1>5, <3>2 DEF Claimed, n, x, i
    <3>3. CASE \E u \in Thread : NodeOf(u)' = m /\ j \in {found'[u], added'[u]} /\ NameOf(u)' = y
      <4>1. NoEntry # j
        BY JobAssumption
      <4> QED
        BY <1>4, <1>6, <3>3, <4>1 DEF Claimed
    <3> QED
      BY <2>1, <3>1, <3>2, <3>3 DEF Claimed
  <2> QED
    BY <1>3, <2>1, NoNewClaims DEF NamesOK
<1>8. AddedIsNew'
  <2>1. ASSUME NEW u \in Thread, added'[u] # NoEntry
        PROVE  /\ u # t /\ added'[u] = added[u] /\ added[u] # NoEntry
               /\ NodeOf(u) \in Node /\ NodeOf(u)' = NodeOf(u) /\ NameOf(u)' = NameOf(u)
    BY <1>4, <1>6, <2>1 DEF NodeOf, TypeOK, Thread
  <2>2. ASSUME NEW u \in Thread, added'[u] # NoEntry
        PROVE  \E e \in EntriesOf(NodeOf(u), NameOf(u))' : e.id = added'[u]
    BY <1>3, <2>1, <2>2 DEF EntriesOf, NamesOK, AddedIsNew
  <2>3. ASSUME NEW u \in Thread, added'[u] # NoEntry, NEW y \in Name
        PROVE  jobs'[NodeOf(u)'][y] # added'[u]
    BY <1>5, <2>1, <2>3 DEF NamesOK, AddedIsNew, n, i
  <2>4. ASSUME NEW u \in Thread, added'[u] # NoEntry, NEW v \in Thread, NodeOf(v)' = NodeOf(u)'
        PROVE  found'[v] # added'[u] /\ (v # u => added'[v] # added'[u])
    BY <1>4, <1>6, <2>1, <2>4 DEF NamesOK, AddedIsNew
  <2> QED
    BY <2>2, <2>3, <2>4 DEF AddedIsNew
<1>9. EntryOrCall'
  <2>1. ASSUME NEW m \in Node, NEW y \in Name, jobs'[m][y] # NoEntry
        PROVE  \/ \E e \in EntriesOf(m, y)' : e.id = jobs'[m][y]
               \/ \E u \in Thread : NodeOf(u)' = m /\ found'[u] = jobs'[m][y] /\ NameOf(u)' = y
    <3>1. CASE m = n /\ y = x
      <4>1. \E e \in EntriesOf(n, x) : e.id = i
        BY <1>2 DEF NamesOK, AddedIsNew, n, x, i
      <4> QED
        BY <1>3, <1>5, <3>1, <4>1 DEF EntriesOf
    <3>2. CASE ~(m = n /\ y = x)
      <4>1. jobs'[m][y] = jobs[m][y]
        BY <1>5, <3>2
      <4>2. \/ \E e \in EntriesOf(m, y) : e.id = jobs[m][y]
            \/ \E u \in Thread : NodeOf(u) = m /\ found[u] = jobs[m][y] /\ NameOf(u) = y
        BY <2>1, <4>1 DEF NamesOK, EntryOrCall
      <4> QED
        BY <1>3, <1>4, <1>6, <3>2, <4>1, <4>2 DEF EntriesOf, n, x
    <3> QED
      BY <3>1, <3>2
  <2> QED
    BY <2>1 DEF EntryOrCall
<1> QED
  BY <1>7, <1>8, <1>9 DEF NamesOK

\* Forget: the map has no id for the name any more, and neither has the thread.
LEMMA ForgetKeepsNames ==
  ASSUME TypeOK, Control, NamesOK, NEW t \in Request, Forget(t)
  PROVE  NamesOK'
<1> DEFINE n == NodeOf(t)
           x == NameOf(t)
<1>1. t \in Thread /\ n = request[t].node /\ x = request[t].name /\ n \in Node /\ x \in Name
  BY ThreadIsOne DEF Thread, TypeOK, NodeOf, NameOf, JobOf
<1>2. /\ UNCHANGED <<entries, nextID, added>>
      /\ jobs' = [jobs EXCEPT ![n][x] = NoEntry]
      /\ found' = [found EXCEPT ![t] = NoEntry]
      /\ \A u : JobOf(u)' = JobOf(u) /\ NameOf(u)' = NameOf(u) /\ NodeOf(u)' = NodeOf(u)
  BY <1>1 DEF Forget, NameOf, JobOf, NodeOf
<1> HIDE DEF n, x
<1>3. \A m \in Node, y \in Name : jobs'[m][y] = IF m = n /\ y = x THEN NoEntry ELSE jobs[m][y]
  BY <1>1, <1>2 DEF TypeOK
<1>4. found'[t] = NoEntry /\ \A u \in Thread \ {t} : found'[u] = found[u]
  BY <1>1, <1>2 DEF TypeOK
<1>5. OneNamePerID'
  <2>1. ASSUME NEW m \in Node, NEW j \in Nat, NEW y \in Name, Claimed(m, j, y)'
        PROVE  Claimed(m, j, y)
    <3>1. j # NoEntry
      BY JobAssumption
    <3> QED
      BY <1>2, <1>3, <1>4, <2>1, <3>1 DEF Claimed, EntriesOf
  <2> QED
    BY <1>2, <2>1, NoNewClaims DEF NamesOK
<1>6. AddedIsNew'
  <2>1. \A u \in Thread : NodeOf(u) \in Node
    BY DEF NodeOf, TypeOK, Thread
  <2> QED
    BY <1>2, <1>3, <1>4, <2>1 DEF NamesOK, AddedIsNew, EntriesOf
<1>7. EntryOrCall'
  BY <1>2, <1>3, <1>4 DEF NamesOK, EntryOrCall, EntriesOf, n, x
<1> QED
  BY <1>5, <1>6, <1>7 DEF NamesOK

\* ListJobs: a loader that lists jobs has neither found nor been given an id.
LEMMA ListJobsKeepsNames ==
  ASSUME TypeOK, Control, NamesOK, NEW n \in Node, ListJobs(n)
  PROVE  NamesOK'
<1>1. n \in Thread /\ n \notin Request /\ pc[n] = "listing"
  BY JobAssumption DEF Thread, ListJobs
<1>2. found[n] = NoEntry /\ added[n] = NoEntry
  BY <1>1 DEF Control
<1>3. UNCHANGED <<found, added, jobs, entries, nextID, request>>
  BY DEF ListJobs, cron
<1>4. \A u \in Thread : NodeOf(u)' = NodeOf(u) /\ (u # n => NameOf(u)' = NameOf(u))
  <2>1. ASSUME NEW u \in Thread \ {n}
        PROVE  NameOf(u)' = NameOf(u)
    <3>1. u \in Node => listed'[u] = listed[u]
      BY <2>1 DEF ListJobs, TypeOK
    <3> QED
      BY <1>3, <3>1, SameJob
  <2> QED
    BY <1>3, <2>1 DEF NodeOf
<1>5. OneNamePerID'
  <2>1. ASSUME NEW m \in Node, NEW j \in Nat, NEW y \in Name, Claimed(m, j, y)'
        PROVE  Claimed(m, j, y)
    <3>1. j # NoEntry
      BY JobAssumption
    <3> QED
      BY <1>2, <1>3, <1>4, <2>1, <3>1 DEF Claimed, EntriesOf
  <2> QED
    BY <1>3, <2>1, NoNewClaims DEF NamesOK
<1>6. AddedIsNew'
  BY <1>2, <1>3, <1>4 DEF NamesOK, AddedIsNew, EntriesOf
<1>7. EntryOrCall'
  BY <1>2, <1>3, <1>4 DEF NamesOK, EntryOrCall, EntriesOf
<1> QED
  BY <1>5, <1>6, <1>7 DEF NamesOK

\* The threads of a process that ends have lost what they kept, the others not.
LEMMA EndProcessForgets ==
  ASSUME TypeOK, Control, NEW n \in Node, EndProcess(n)
  PROVE  /\ \A t \in Thread : NodeOf(t) = n =>
              /\ found'[t] = NoEntry /\ added'[t] = NoEntry
              /\ pc'[t] \in {"idle", "standby", "done"}
              /\ pc'[t] \in {pc[t], "standby", "done"}
         /\ \A t \in Thread : NodeOf(t) # n =>
              /\ found'[t] = found[t] /\ added'[t] = added[t] /\ pc'[t] = pc[t]
              /\ JobOf(t)' = JobOf(t) /\ NameOf(t)' = NameOf(t) /\ Adds(t)' = Adds(t)
         /\ \A t \in Thread : NodeOf(t)' = NodeOf(t)
<1>1. request' = request /\ \A m \in Node \ {n} : listed'[m] = listed[m]
  BY DEF EndProcess, TypeOK
<1>2. ASSUME NEW t \in Thread, NodeOf(t) = n
      PROVE  /\ found'[t] = NoEntry /\ added'[t] = NoEntry
             /\ pc'[t] \in {"idle", "standby", "done"}
             /\ pc'[t] \in {pc[t], "standby", "done"}
  <2>1. CASE t \in Node
    <3>1. t = n /\ t \notin Request
      BY <1>2, <2>1, ThreadIsOne DEF NodeOf
    <3> QED
      BY <3>1 DEF EndProcess
  <2>2. CASE t \notin Node
    <3>1. t \in Request /\ request[t].node = n
      BY <1>2, <2>2, ThreadIsOne DEF NodeOf
    <3>2. CASE pc[t] \in {"idle", "done"}
      <4>1. found[t] = NoEntry /\ added[t] = NoEntry
        BY <3>2 DEF Control
      <4> QED
        BY <2>2, <3>2, <4>1 DEF EndProcess
    <3>3. CASE pc[t] \notin {"idle", "done"}
      BY <3>1, <3>3 DEF EndProcess
    <3> QED
      BY <3>2, <3>3
  <2> QED
    BY <2>1, <2>2
<1>3. ASSUME NEW t \in Thread, NodeOf(t) # n
      PROVE  /\ found'[t] = found[t] /\ added'[t] = added[t] /\ pc'[t] = pc[t]
             /\ JobOf(t)' = JobOf(t) /\ NameOf(t)' = NameOf(t) /\ Adds(t)' = Adds(t)
  <2>1. t # n /\ ~(t \in Request /\ request[t].node = n)
    BY <1>3, ThreadIsOne DEF NodeOf
  <2>2. found'[t] = found[t] /\ added'[t] = added[t] /\ pc'[t] = pc[t]
    BY <2>1 DEF EndProcess
  <2> QED
    BY <1>1, <2>1, <2>2, SameJob
<1>4. \A t \in Thread : NodeOf(t)' = NodeOf(t)
  BY <1>1 DEF NodeOf
<1> QED
  BY <1>2, <1>3, <1>4

\* EndProcess: nobody at the node knows an id any more.
LEMMA EndProcessKeepsNames ==
  ASSUME TypeOK, Control, NamesOK, NEW n \in Node, EndProcess(n)
  PROVE  NamesOK'
<1>1. /\ nextID' = nextID
      /\ entries'[n] = {} /\ \A x \in Name : jobs'[n][x] = NoEntry
      /\ \A m \in Node \ {n} : entries'[m] = entries[m] /\ jobs'[m] = jobs[m]
  BY DEF EndProcess, TypeOK
<1>2. OneNamePerID'
  <2>1. ASSUME NEW m \in Node, NEW j \in Nat, NEW y \in Name, Claimed(m, j, y)'
        PROVE  Claimed(m, j, y)
    <3>1. j # NoEntry
      BY JobAssumption
    <3>2. m # n
      BY <1>1, <2>1, <3>1, EndProcessForgets DEF Claimed, EntriesOf
    <3> QED
      BY <1>1, <2>1, <3>2, EndProcessForgets DEF Claimed, EntriesOf
  <2> QED
    BY <1>1, <2>1, NoNewClaims DEF NamesOK
<1>3. AddedIsNew'
  <2>1. ASSUME NEW t \in Thread, added'[t] # NoEntry
        PROVE  /\ NodeOf(t) # n /\ NodeOf(t)' = NodeOf(t) /\ NodeOf(t) \in Node
               /\ NameOf(t)' = NameOf(t) /\ added'[t] = added[t]
    BY <2>1, EndProcessForgets DEF NodeOf, TypeOK, Thread
  <2>2. ASSUME NEW t \in Thread, added'[t] # NoEntry
        PROVE  /\ \E e \in EntriesOf(NodeOf(t), NameOf(t))' : e.id = added'[t]
               /\ \A x \in Name : jobs'[NodeOf(t)'][x] # added'[t]
    BY <1>1, <2>1, <2>2 DEF NamesOK, AddedIsNew, EntriesOf
  <2>3. ASSUME NEW t \in Thread, added'[t] # NoEntry, NEW u \in Thread, NodeOf(u)' = NodeOf(t)'
        PROVE  found'[u] # added'[t] /\ (u # t => added'[u] # added'[t])
    BY <2>1, <2>3, EndProcessForgets DEF NamesOK, AddedIsNew
  <2> QED
    BY <2>2, <2>3 DEF AddedIsNew
<1>4. EntryOrCall'
  <2>1. ASSUME NEW m \in Node, NEW y \in Name, jobs'[m][y] # NoEntry
        PROVE  \/ \E e \in EntriesOf(m, y)' : e.id = jobs'[m][y]
               \/ \E u \in Thread : NodeOf(u)' = m /\ found'[u] = jobs'[m][y] /\ NameOf(u)' = y
    BY <1>1, <2>1, EndProcessForgets DEF NamesOK, EntryOrCall, EntriesOf
  <2> QED
    BY <2>1 DEF EntryOrCall
<1> QED
  BY <1>2, <1>3, <1>4 DEF NamesOK

\* The other steps touch neither names nor entries.
Untouched == UNCHANGED <<request, listed, found, added, jobs, entries, nextID>>

\* Every step keeps names and entries together.
LEMMA NamesKept ==
  ASSUME TypeOK, Control, NamesOK, [Next]_vars
  PROVE  NamesOK'
<1>1. CASE Untouched
  BY <1>1 DEF Untouched, NamesOK, OneNamePerID, AddedIsNew, EntryOrCall, Claimed,
              EntriesOf, NameOf, NodeOf, JobOf
<1>2. ASSUME NEW r \in Request, Receive(r) \/ PutJob(r) \/ DeleteJob(r) \/ WriteFails(r)
                                \/ LateWrite(r)
      PROVE  Untouched
  BY <1>2 DEF Receive, PutJob, DeleteJob, WriteFails, LateWrite, cron, Untouched
<1>3. ASSUME NEW n \in Node, BeginTerm(n) \/ ListFails(n) \/ LostLeadership(n)
      PROVE  Untouched
  BY <1>3 DEF BeginTerm, ListFails, LostLeadership, cron, Untouched
<1>4. CASE EndTerm \/ UNCHANGED vars
  BY <1>1, <1>4 DEF EndTerm, vars, cron, Untouched
<1> QED
  BY <1>1, <1>2, <1>3, <1>4, FindKeepsNames, RemoveEntryKeepsNames, AddEntryKeepsNames,
     RecordKeepsNames, ForgetKeepsNames, ListJobsKeepsNames, EndProcessKeepsNames
     DEF Next, Serve, UseCron, Lead, Crash, FatalRace

-----------------------------------------------------------------------------
(* Definitions *)

\* The save of a definition was applied, and is not applied again.
Written(d) ==
  d # Initial => /\ request[d].op = "save"
                 /\ pc[d] \notin {"idle", "putting"}
                 /\ d \notin late

\* Writes that may still come are those of requests that were given up, and all
\* definitions that etcd, a loader or a cron has were written.
DefsWritten ==
  /\ \A r \in late : pc[r] = "done"
  /\ \A x \in Name : stored[x] # NoJob => Written(stored[x])
  /\ \A n \in Node : \A i \in DOMAIN listed[n] : Written(listed[n][i].def)
  /\ \A n \in Node : \A e \in entries[n] : Written(e.def)

\* No step brings a request back to its beginning, or gives up a write but one
\* that is under way.
LEMMA RequestsProceed ==
  ASSUME TypeOK, Control, [Next]_vars, NEW r \in Request
  PROVE  /\ request' = request
         /\ pc[r] \notin {"idle", "putting"} => pc'[r] \notin {"idle", "putting"}
         /\ pc[r] = "done" => pc'[r] = "done"
         /\ r \in late' \ late => pc[r] \in {"putting", "deleting"} /\ pc'[r] = "done"
<1>0. r \in Thread /\ r \notin Node
  BY ThreadIsOne DEF Thread
<1>1. CASE UNCHANGED vars \/ EndTerm
  BY <1>1 DEF vars, etcd, EndTerm
<1>2. ASSUME NEW q \in Request, Serve(q)
      PROVE  /\ request' = request
             /\ pc'[r] = pc[r] \/ (q = r /\ pc[r] # "done" /\ pc'[r] # "idle"
                                   /\ (pc'[r] = "putting" => pc[r] = "idle"))
             /\ r \in late' \ late => pc[r] \in {"putting", "deleting"} /\ pc'[r] = "done"
  BY <1>0, <1>2 DEF Serve, Receive, PutJob, DeleteJob, WriteFails, LateWrite, Forget, Goto,
                    etcd, TypeOK
<1>3. ASSUME NEW t \in Thread, UseCron(t)
      PROVE  /\ request' = request /\ late' = late
             /\ pc'[r] = pc[r] \/ (pc[r] # "done" /\ pc'[r] \notin {"idle", "putting"})
  BY <1>0, <1>3 DEF UseCron, Find, RemoveEntry, AddEntry, Record, Goto, etcd, TypeOK
<1>4. ASSUME NEW n \in Node, Lead(n)
      PROVE  request' = request /\ late' = late /\ pc'[r] = pc[r]
  BY <1>0, <1>4 DEF Lead, BeginTerm, ListJobs, ListFails, LostLeadership, Goto, etcd, TypeOK
<1>5. ASSUME NEW n \in Node, EndProcess(n)
      PROVE  /\ request' = request /\ pc'[r] \in {pc[r], "done"}
             /\ r \in late' \ late => pc[r] \in {"putting", "deleting"} /\ pc'[r] = "done"
  BY <1>0, <1>5 DEF EndProcess
<1>6. CASE \E q \in Request : Serve(q)
  BY <1>2, <1>6
<1>7. CASE \E t \in Thread : UseCron(t)
  BY <1>3, <1>7
<1>8. CASE \E n \in Node : Lead(n)
  BY <1>4, <1>8
<1>9. CASE \E n \in Node : EndProcess(n)
  BY <1>5, <1>9
<1> QED
  BY <1>1, <1>6, <1>7, <1>8, <1>9 DEF Next, Crash, FatalRace

\* What was written stays so.
LEMMA WrittenStays ==
  ASSUME TypeOK, Control, [Next]_vars, NEW d \in Definition, Written(d)
  PROVE  Written(d)'
<1>1. CASE d = Initial
  BY <1>1 DEF Written
<1>2. CASE d # Initial
  <2>1. d \in Request /\ request[d].op = "save"
        /\ pc[d] \notin {"idle", "putting", "deleting"} /\ d \notin late
    BY <1>2 DEF Written, Definition, Control
  <2> QED
    BY <2>1, RequestsProceed DEF Written
<1> QED
  BY <1>1, <1>2

\* A definition gets to etcd, a list or a cron from where it was before, or as it is written.
LEMMA DefsWrittenKept ==
  ASSUME TypeOK, Control, DefsWritten, [Next]_vars
  PROVE  DefsWritten'
<1>0. TypeOK' /\ \A d \in Definition : Written(d) => Written(d)'
  BY TypeKept, WrittenStays
<1>1. \A r \in late' : pc'[r] = "done"
  BY <1>0, RequestsProceed DEF DefsWritten, TypeOK
<1>2. ASSUME NEW x \in Name, NEW d \in Definition, stored'[x] = d
      PROVE  Written(d)'
  <2>1. CASE stored[x] = d
    <3>1. Written(d)
      BY <2>1, JobAssumption DEF DefsWritten
    <3> QED
      BY <1>0, <3>1
  <2>2. ASSUME NEW r \in Request, PutJob(r) \/ LateWrite(r)
        PROVE  Written(d)'
    <3>1. stored'[x] \in {stored[x], NoJob, r} /\ (stored'[x] = r => stored[x] = r \/ request[r].op = "save")
      BY <2>2, JobAssumption DEF PutJob, LateWrite, Write, TypeOK, Definition
    <3>2. CASE d = r /\ request[r].op = "save"
      <4>1. r \in Thread /\ (r \in late => pc[r] = "done")
        BY DEF Thread, DefsWritten
      <4> QED
        BY <2>2, <3>2, <4>1 DEF PutJob, LateWrite, Goto, Written, TypeOK
    <3> QED
      BY <1>2, <2>1, <3>1, <3>2, JobAssumption
  <2>3. ASSUME NEW r \in Request, DeleteJob(r)
        PROVE  stored[x] = d
    BY <1>2, <2>3, JobAssumption DEF DeleteJob, TypeOK
  <2>4. \/ \E r \in Request : PutJob(r) \/ LateWrite(r)
        \/ \E r \in Request : DeleteJob(r)
        \/ stored' = stored
    BY DEF Next, vars, Serve, UseCron, Lead, Receive, WriteFails, Forget, Find, RemoveEntry,
           AddEntry, Record, BeginTerm, ListJobs, ListFails, LostLeadership, EndTerm, Crash,
           FatalRace, EndProcess, etcd
  <2> QED
    BY <1>2, <2>1, <2>2, <2>3, <2>4
<1>3. ASSUME NEW n \in Node, NEW i \in DOMAIN listed'[n], NEW d, d = listed'[n][i].def
      PROVE  Written(d)'
  <2>1. ASSUME NEW j \in DOMAIN listed[n], listed'[n][i] = listed[n][j]
        PROVE  Written(d)'
    <3>1. d \in Definition
      <4>1. listed[n] \in Seq(Job)
        BY DEF TypeOK, Job
      <4>2. listed[n][j] \in Job
        BY <4>1
      <4> QED
        BY <1>3, <2>1, <4>2 DEF Job
    <3>2. Written(d)
      BY <1>3, <2>1 DEF DefsWritten
    <3> QED
      BY <1>0, <3>1, <3>2
  <2>2. ASSUME NEW m \in Node, ListJobs(m)
        PROVE  Written(d)'
    <3>1. PICK order \in SetToSeqs({x \in Name : stored[x] # NoJob}) :
             listed' = [listed EXCEPT ![m] =
                [j \in DOMAIN order |-> [name |-> order[j], def |-> stored[order[j]]]]]
      BY <2>2 DEF ListJobs
    <3>2. CASE m = n
      <4>1. listed'[n] = [j \in DOMAIN order |-> [name |-> order[j], def |-> stored[order[j]]]]
        BY <3>1, <3>2 DEF TypeOK
      <4>2. /\ listed'[n][i].name \in Name /\ d = stored[listed'[n][i].name]
            /\ d # NoJob
        BY <1>3, <4>1, ListedIsSeq
      <4>3. d \in Definition /\ Written(d)
        BY <4>2 DEF DefsWritten, TypeOK
      <4> QED
        BY <1>0, <4>3
    <3>3. CASE m # n
      <4>1. listed'[n] = listed[n]
        BY <3>1, <3>3 DEF TypeOK
      <4> QED
        BY <2>1, <4>1
    <3> QED
      BY <3>2, <3>3
  <2>3. ASSUME NEW t \in Thread, Record(t)
        PROVE  Written(d)'
    <3>1. CASE t = n
      <4>1. listed'[n] = Tail(listed[n]) /\ pc[n] = "recording"
        BY <2>3, <3>1 DEF Record, Goto, TypeOK
      <4>2. listed[n] \in Seq(Job) /\ listed[n] # <<>>
        BY <4>1 DEF TypeOK, Job, Control
      <4>3. i + 1 \in DOMAIN listed[n] /\ listed'[n][i] = listed[n][i + 1]
        BY <4>1, <4>2, HeadTailProperties
      <4> QED
        BY <2>1, <4>3
    <3>2. CASE t # n
      <4>1. listed'[n] = listed[n]
        BY <2>3, <3>2 DEF Record, TypeOK
      <4> QED
        BY <2>1, <4>1
    <3> QED
      BY <3>1, <3>2
  <2>4. ASSUME NEW m \in Node, EndProcess(m)
        PROVE  Written(d)'
    <3>1. listed'[n] = IF m = n THEN <<>> ELSE listed[n]
      BY <2>4 DEF EndProcess, TypeOK
    <3> QED
      BY <2>1, <3>1
  <2>5. \/ \E m \in Node : ListJobs(m) \/ EndProcess(m)
        \/ \E t \in Thread : Record(t)
        \/ listed' = listed
    BY DEF Next, vars, Serve, UseCron, Lead, Receive, PutJob, DeleteJob, WriteFails, LateWrite,
           Forget, Find, RemoveEntry, AddEntry, BeginTerm, ListFails, LostLeadership, EndTerm,
           Crash, FatalRace
  <2> QED
    BY <2>1, <2>2, <2>3, <2>4, <2>5
<1>4. ASSUME NEW n \in Node, NEW e \in entries'[n]
      PROVE  Written(e.def)'
  <2>1. CASE e \in entries[n]
    <3>1. e.def \in Definition /\ Written(e.def)
      BY <2>1 DEF DefsWritten, TypeOK
    <3> QED
      BY <1>0, <3>1
  <2>2. ASSUME NEW t \in Thread, AddEntry(t), e \notin entries[n]
        PROVE  Written(e.def)'
    <3>1. e.def = JobOf(t).def /\ pc[t] = "adding"
      BY <2>2 DEF AddEntry, Goto, TypeOK
    <3>2. e.def \in Definition /\ Written(e.def)
      <4>1. CASE t \in Request
        <5>1. e.def = t /\ request[t].op = "save" /\ t \notin late
          BY <3>1, <4>1, ThreadIsOne DEF JobOf, Control, TypeOK, DefsWritten
        <5> QED
          BY <3>1, <4>1, <5>1 DEF Written, Definition
      <4>2. CASE t \notin Request
        <5>1. t \in Node /\ listed[t] # <<>> /\ listed[t] \in Seq(Job)
          BY <3>1, <4>2, ThreadIsOne DEF Control, TypeOK, Job
        <5>2. 1 \in DOMAIN listed[t] /\ e.def = listed[t][1].def
          BY <3>1, <5>1 DEF JobOf
        <5>3. e.def \in Definition
          BY <3>1, <5>1, JobIsTyped DEF HasJob, Job
        <5> QED
          BY <5>1, <5>2, <5>3 DEF DefsWritten
      <4> QED
        BY <4>1, <4>2
    <3> QED
      BY <1>0, <3>2
  <2>3. ASSUME NEW t \in Thread, RemoveEntry(t)
        PROVE  entries'[n] \subseteq entries[n]
    BY <2>3 DEF RemoveEntry, TypeOK
  <2>4. ASSUME NEW m \in Node, EndProcess(m)
        PROVE  entries'[n] \subseteq entries[n]
    BY <2>4 DEF EndProcess, TypeOK
  <2>5. \/ \E t \in Thread : AddEntry(t) \/ RemoveEntry(t)
        \/ \E m \in Node : EndProcess(m)
        \/ entries' = entries
    BY DEF Next, vars, Serve, UseCron, Lead, Receive, PutJob, DeleteJob, WriteFails, LateWrite,
           Forget, Find, Record, BeginTerm, ListJobs, ListFails, LostLeadership,
           EndTerm, Crash, FatalRace, cron
  <2> QED
    BY <2>1, <2>2, <2>3, <2>4, <2>5
<1>5. \A x \in Name : stored'[x] # NoJob => Written(stored[x])'
  <2>1. \A x \in Name : stored'[x] # NoJob => stored'[x] \in Definition
    BY <1>0 DEF TypeOK
  <2> QED
    BY <1>2, <2>1 DEF Written
<1>6. \A n \in Node : \A i \in DOMAIN listed'[n] : Written(listed[n][i].def)'
  BY <1>3 DEF Written
<1> QED
  BY <1>1, <1>4, <1>5, <1>6 DEF DefsWritten

-----------------------------------------------------------------------------
(* Calls that overlap *)

\* Two threads that work on a job have tangled it for the node of the first, unless
\* the second is the loader of another node.
OverlapsAreTangled ==
  \A t, u \in Thread, x \in Name :
    t # u /\ WorksOn(t, x) /\ WorksOn(u, x) /\ <<NodeOf(t), x>> \notin tangled
      => u \in Node \ {NodeOf(t)}

\* Work begins as a request is received or as a loader has listed the jobs.
LEMMA WorkBegins ==
  ASSUME TypeOK, [Next]_vars
  PROVE  /\ request' = request /\ tangled \subseteq tangled'
         /\ \/ \E r \in Request : Receive(r)
            \/ \E n \in Node : ListJobs(n)
            \/ \A t \in Thread, x \in Name : WorksOn(t, x)' => WorksOn(t, x)
<1>1. CASE UNCHANGED vars \/ EndTerm
  BY <1>1 DEF vars, history, EndTerm, WorksOn
<1>2. ASSUME NEW r \in Request, PutJob(r) \/ DeleteJob(r) \/ WriteFails(r) \/ LateWrite(r)
                                \/ Forget(r)
      PROVE  /\ request' = request /\ tangled \subseteq tangled'
             /\ \A t \in Thread, x \in Name : WorksOn(t, x)' => WorksOn(t, x)
  BY <1>2, ThreadIsOne DEF PutJob, DeleteJob, WriteFails, LateWrite, Forget, Goto, WorksOn,
                           TypeOK, history
<1>3. ASSUME NEW t \in Thread, UseCron(t)
      PROVE  /\ request' = request /\ tangled \subseteq tangled'
             /\ \A u \in Thread, x \in Name : WorksOn(u, x)' => WorksOn(u, x)
  <2>1. request' = request /\ tangled' = tangled
    BY <1>3 DEF UseCron, Find, RemoveEntry, AddEntry, Record, history
  <2>2. /\ pc[t] \in {"finding", "removing", "adding", "recording"}
        /\ \A u \in Thread \ {t} : pc'[u] = pc[u]
    BY <1>3 DEF UseCron, Find, RemoveEntry, AddEntry, Record, Goto, TypeOK
  <2> QED
    BY <2>1, <2>2 DEF WorksOn
<1>4. ASSUME NEW n \in Node, BeginTerm(n) \/ ListFails(n) \/ LostLeadership(n)
      PROVE  /\ request' = request /\ tangled \subseteq tangled'
             /\ \A t \in Thread, x \in Name : WorksOn(t, x)' => WorksOn(t, x)
  BY <1>4 DEF BeginTerm, ListFails, LostLeadership, Goto, WorksOn, TypeOK, history
<1>5. ASSUME NEW n \in Node, EndProcess(n)
      PROVE  /\ request' = request /\ tangled \subseteq tangled'
             /\ \A t \in Thread, x \in Name : WorksOn(t, x)' => WorksOn(t, x)
  <2>1. request' = request /\ tangled' = tangled
    BY <1>5 DEF EndProcess
  <2>2. \A t \in Thread : pc'[t] = pc[t] \/ (t \in Request /\ pc'[t] = "done")
                                      \/ (t \in Node /\ pc'[t] = "standby")
    BY <1>5 DEF EndProcess
  <2> QED
    BY <2>1, <2>2, ThreadIsOne DEF WorksOn
<1>6. ASSUME NEW r \in Request, Receive(r)
      PROVE  request' = request /\ tangled \subseteq tangled'
  BY <1>6 DEF Receive
<1>7. ASSUME NEW n \in Node, ListJobs(n)
      PROVE  request' = request /\ tangled \subseteq tangled'
  BY <1>7 DEF ListJobs
<1> QED
  BY <1>1, <1>2, <1>3, <1>4, <1>5, <1>6, <1>7 DEF Next, Serve, Lead, Crash, FatalRace

\* The step that makes two calls overlap tangles the job for the nodes concerned.
LEMMA OverlapsKept ==
  ASSUME TypeOK, OverlapsAreTangled, [Next]_vars
  PROVE  OverlapsAreTangled'
<1>1. request' = request /\ tangled \subseteq tangled' /\ \A t : NodeOf(t)' = NodeOf(t)
  BY WorkBegins DEF NodeOf
<1>2. CASE \A t \in Thread, x \in Name : WorksOn(t, x)' => WorksOn(t, x)
  BY <1>1, <1>2 DEF OverlapsAreTangled
<1>3. ASSUME NEW r \in Request, Receive(r)
      PROVE  OverlapsAreTangled'
  <2> DEFINE y == request[r].name
             others == {t \in Thread \ {r} : WorksOn(t, y)}
  <2>1. /\ r \in Thread /\ r \notin Node /\ NodeOf(r) = request[r].node
        /\ tangled' = tangled \cup {<<NodeOf(t), y>> : t \in others}
                              \cup {<<m, y>> : m \in IF others \subseteq Node \ {NodeOf(r)}
                                                     THEN {} ELSE {NodeOf(r)}}
    BY <1>3, ThreadIsOne DEF Receive, Thread, NodeOf
  <2>2. \A t \in Thread \ {r} : \A x \in Name : WorksOn(t, x)' <=> WorksOn(t, x)
    BY <1>3 DEF Receive, Goto, TypeOK, WorksOn
  <2>3. \A x \in Name : WorksOn(r, x)' => x = y
    BY <1>1, <2>1 DEF WorksOn
  <2>4. ASSUME NEW t \in Thread, NEW u \in Thread, NEW x \in Name,
               t # u, WorksOn(t, x)', WorksOn(u, x)', <<NodeOf(t), x>> \notin tangled'
        PROVE  u \in Node \ {NodeOf(t)}
    <3>1. CASE t = r
      <4>1. x = y /\ u \in others
        BY <2>2, <2>3, <2>4, <3>1
      <4>2. <<NodeOf(r), y>> \notin tangled'
        BY <2>4, <3>1, <4>1
      <4>3. others \subseteq Node \ {NodeOf(r)}
        BY <2>1, <4>2
      <4> QED
        BY <3>1, <4>1, <4>3
    <3>2. CASE u = r
      <4>1. x = y /\ t \in others
        BY <2>2, <2>3, <2>4, <3>2
      <4>2. <<NodeOf(t), y>> \in tangled'
        BY <2>1, <4>1
      <4> QED
        BY <2>4, <4>1, <4>2
    <3>3. CASE t # r /\ u # r
      BY <1>1, <2>2, <2>4, <3>3 DEF OverlapsAreTangled
    <3> QED
      BY <3>1, <3>2, <3>3
  <2> QED
    BY <1>1, <2>4 DEF OverlapsAreTangled
<1>4. ASSUME NEW n \in Node, ListJobs(n)
      PROVE  OverlapsAreTangled'
  <2>1. n \in Thread /\ n \notin Request /\ \A u \in Thread \ {n} : pc'[u] = pc[u]
    BY <1>4, JobAssumption DEF ListJobs, TypeOK, Thread
  <2>2. \A x \in Name : (\E r \in Request : WorksOn(r, x)) => <<n, x>> \in tangled'
    BY <1>4 DEF ListJobs
  <2>3. \A u \in Thread \ {n} : \A x \in Name : WorksOn(u, x)' <=> WorksOn(u, x)
    BY <1>1, <2>1 DEF WorksOn
  <2>4. ASSUME NEW t \in Thread, NEW u \in Thread, NEW x \in Name,
               t # u, WorksOn(t, x)', WorksOn(u, x)', <<NodeOf(t), x>> \notin tangled'
        PROVE  u \in Node \ {NodeOf(t)}
    <3>1. CASE t = n
      <4>1. u \notin Request
        BY <2>1, <2>2, <2>3, <2>4, <3>1 DEF NodeOf
      <4> QED
        BY <2>4, <3>1, <4>1 DEF Thread, NodeOf
    <3>2. CASE u = n /\ NodeOf(t) = n
      <4>1. t \in Request /\ WorksOn(t, x)
        BY <2>3, <2>4, <3>2 DEF Thread, NodeOf
      <4> QED
        BY <2>2, <2>4, <3>2, <4>1
    <3>3. CASE t # n /\ u # n
      BY <1>1, <2>3, <2>4, <3>3 DEF OverlapsAreTangled
    <3> QED
      BY <3>1, <3>2, <3>3
  <2> QED
    BY <1>1, <2>4 DEF OverlapsAreTangled
<1> QED
  BY <1>2, <1>3, <1>4, WorkBegins

-----------------------------------------------------------------------------
(* Calls that do not overlap *)

\* t is at a step of a call for x at n.
On(t, n, x) == NodeOf(t) = n /\ pc[t] \in InCron /\ NameOf(t) = x

\* The steps between which the map of a node and its entries differ.
Replacing == {"adding", "recording", "forgetting"}

\* The ids of the entries of x in the cron of n.
IDsOf(n, x) == {e.id : e \in EntriesOf(n, x)}

\* The cron of n has of x what etcd has, under the id that the map leads to.
Agrees(n, x) ==
  EntriesOf(n, x) = IF stored[x] = NoJob THEN {}
                    ELSE {[id |-> jobs[n][x], name |-> x, def |-> stored[x]]}

\* What a call for x at n relies on, step by step, if no other has come between.
CallOK(t, n, x) ==
  /\ pc[t] = "removing" => found[t] = jobs[n][x]
  /\ pc[t] \in {"adding", "forgetting", "deleting"} => EntriesOf(n, x) = {}
  /\ pc[t] = "recording" =>
       EntriesOf(n, x) = {[id |-> added[t], name |-> x, def |-> JobOf(t).def]}
  /\ Adds(t) => JobOf(t).def = stored[x]

\* A job for which calls have not overlapped at a node has the entry that the map
\* leads to, or none, unless a call is replacing it.  The node has what etcd has
\* if it should, and has listed nothing else.
InOrder(n, x) ==
  /\ \A t \in Thread : On(t, n, x) => CallOK(t, n, x)
  /\ (\A t \in Thread : On(t, n, x) => pc[t] \notin Replacing)
       => IDsOf(n, x) = {jobs[n][x]} \ {NoEntry}
  /\ <<n, x>> \in settled /\ (\A t \in Thread : On(t, n, x) => pc[t] \notin Replacing \cup {"deleting"})
       => Agrees(n, x)
  /\ \A i \in DOMAIN listed[n] : listed[n][i].name = x => listed[n][i].def = stored[x]

\* So it is with every job whose calls have not overlapped at a node.
Sequential == \A n \in Node, x \in Name : <<n, x>> \notin tangled => InOrder(n, x)

\* Every call works on its job.
LEMMA CallWorks ==
  ASSUME NEW t \in Thread, NEW n, NEW x, On(t, n, x)
  PROVE  WorksOn(t, x)
BY DEF On, WorksOn, InCron, NameOf, JobOf

\* A call is the only one for its job, if calls for the job have not overlapped.
LEMMA OnlyCall ==
  ASSUME OverlapsAreTangled, NEW n \in Node, NEW x \in Name, <<n, x>> \notin tangled,
         NEW t \in Thread, NodeOf(t) = n, WorksOn(t, x),
         NEW u \in Thread, NodeOf(u) = n, WorksOn(u, x)
  PROVE  t = u
<1>1. CASE t # u
  <2>1. u \in Node \ {n}
    BY <1>1 DEF OverlapsAreTangled
  <2>2. NodeOf(u) = u
    BY <2>1 DEF NodeOf
  <2> QED
    BY <2>1, <2>2
<1> QED
  BY <1>1

\* A loader that has jobs to load works on every job.
LEMMA LoaderWorks ==
  ASSUME Control, NEW n \in Node, listed[n] # <<>>, NEW x
  PROVE  n \in Thread /\ NodeOf(n) = n /\ WorksOn(n, x)
BY DEF Control, WorksOn, NodeOf, Thread

\* What leaves a job's entries and calls alone, except that calls may begin, and those
\* end that are not at a replacement, leaves it in order.
LEMMA OrderStays ==
  ASSUME NEW n \in Node, NEW x \in Name, InOrder(n, x),
         EntriesOf(n, x)' = EntriesOf(n, x), jobs'[n][x] = jobs[n][x], stored'[x] = stored[x],
         \A t \in Thread : On(t, n, x)' =>
           \/ /\ On(t, n, x) /\ pc'[t] = pc[t] /\ found'[t] = found[t] /\ added'[t] = added[t]
              /\ JobOf(t)' = JobOf(t) /\ Adds(t)' = Adds(t)
           \/ pc'[t] = "finding" /\ (Adds(t)' => JobOf(t)'.def = stored[x]),
         \A t \in Thread : On(t, n, x) /\ pc[t] \in Replacing => On(t, n, x)' /\ pc'[t] = pc[t],
         <<n, x>> \in settled' =>
           /\ <<n, x>> \in settled
           /\ \A t \in Thread : On(t, n, x) /\ pc[t] = "deleting" => On(t, n, x)' /\ pc'[t] = pc[t],
         \A i \in DOMAIN listed'[n] : listed'[n][i].name = x => listed'[n][i].def = stored[x]
  PROVE  InOrder(n, x)'
<1>1. \A t \in Thread : On(t, n, x)' => CallOK(t, n, x)'
  <2>1. ASSUME NEW t \in Thread, On(t, n, x)', On(t, n, x), pc'[t] = pc[t],
               found'[t] = found[t], added'[t] = added[t], JobOf(t)' = JobOf(t), Adds(t)' = Adds(t)
        PROVE  CallOK(t, n, x)'
    BY <2>1 DEF InOrder, CallOK
  <2>2. ASSUME NEW t \in Thread, On(t, n, x)', pc'[t] = "finding",
               Adds(t)' => JobOf(t)'.def = stored[x]
        PROVE  CallOK(t, n, x)'
    BY <2>2 DEF CallOK
  <2> QED
    BY <2>1, <2>2
<1>2. (\A t \in Thread : On(t, n, x)' => pc'[t] \notin Replacing)
        => IDsOf(n, x)' = {jobs'[n][x]} \ {NoEntry}
  BY DEF InOrder, IDsOf
<1>3. <<n, x>> \in settled'
        /\ (\A t \in Thread : On(t, n, x)' => pc'[t] \notin Replacing \cup {"deleting"})
        => Agrees(n, x)'
  BY DEF InOrder, Agrees
<1> QED
  BY <1>1, <1>2, <1>3 DEF InOrder, Replacing

\* A job with no call at the node: its entries are those that the map leads to.
LEMMA QuietStays ==
  ASSUME NEW n \in Node, NEW x \in Name, InOrder(n, x),
         EntriesOf(n, x)' = EntriesOf(n, x), jobs'[n][x] = jobs[n][x],
         <<n, x>> \notin settled', listed'[n] = <<>>,
         \A t \in Thread : ~On(t, n, x),
         \A t \in Thread : On(t, n, x)' => pc'[t] = "finding" /\ JobOf(t)'.def = stored'[x]
  PROVE  InOrder(n, x)'
<1>1. IDsOf(n, x)' = {jobs'[n][x]} \ {NoEntry}
  BY DEF InOrder, IDsOf
<1>2. \A t \in Thread : On(t, n, x)' => CallOK(t, n, x)'
  BY DEF CallOK
<1> QED
  BY <1>1, <1>2 DEF InOrder

\* A thread that a step leaves alone is at the same call before and after.
LEMMA SameCall ==
  ASSUME NEW t, request' = request, pc'[t] = pc[t], t \in Node => listed'[t] = listed[t]
  PROVE  /\ JobOf(t)' = JobOf(t) /\ NodeOf(t)' = NodeOf(t) /\ Adds(t)' = Adds(t)
         /\ \A n, x : On(t, n, x)' <=> On(t, n, x)
BY SameJob DEF On

\* The state with its names in place and its overlaps known.
Known == TypeOK /\ Control /\ NamesOK /\ OverlapsAreTangled

\* A call's own name and node.
LEMMA CallIsOn ==
  ASSUME TypeOK, Control, NEW t \in Thread, pc[t] \in InCron
  PROVE  /\ NodeOf(t) \in Node /\ NameOf(t) \in Name /\ JobOf(t).def \in Definition
         /\ On(t, NodeOf(t), NameOf(t))
BY CallerHasJob, JobIsTyped DEF On, NameOf, Job

\* A request that has just been received has not called cron yet.
LEMMA ReceiveKeepsOrder ==
  ASSUME Known, Sequential, NEW r \in Request, Receive(r)
  PROVE  Sequential'
<1>1. /\ r \in Thread /\ r \notin Node
      /\ UNCHANGED <<stored, request, listed, found, added, jobs, entries, settled>>
      /\ tangled \subseteq tangled'
  BY ThreadIsOne DEF Receive, etcd, cron, Thread
<1>2. /\ \A t \in Thread \ {r} : pc'[t] = pc[t]
      /\ pc[r] = "idle" /\ pc'[r] = IF request[r].op = "save" THEN "putting" ELSE "finding"
  BY <1>1 DEF Receive, Goto, Known, TypeOK
<1>3. ASSUME NEW n \in Node, NEW x \in Name, <<n, x>> \notin tangled'
      PROVE  InOrder(n, x)'
  <2>1. InOrder(n, x)
    BY <1>1, <1>3 DEF Sequential
  <2>2. EntriesOf(n, x)' = EntriesOf(n, x) /\ jobs'[n][x] = jobs[n][x] /\ stored'[x] = stored[x]
    BY <1>1 DEF EntriesOf
  <2>3. \A t \in Thread \ {r} :
          /\ JobOf(t)' = JobOf(t) /\ Adds(t)' = Adds(t)
          /\ On(t, n, x)' <=> On(t, n, x)
    BY <1>1, <1>2, SameCall
  <2>4. ~On(r, n, x)
    BY <1>2 DEF On, InCron
  <2>5. On(r, n, x)' => pc'[r] = "finding" /\ ~Adds(r)'
    BY <1>1, <1>2 DEF On, InCron, Adds
  <2>6. \A i \in DOMAIN listed'[n] : listed'[n][i].name = x => listed'[n][i].def = stored[x]
    BY <1>1, <2>1 DEF InOrder
  <2> QED
    BY <1>1, <1>2, <2>1, <2>2, <2>3, <2>4, <2>5, <2>6, OrderStays
<1> QED
  BY <1>3 DEF Sequential

\* A write of a request for x to etcd meets no call for x that has not overlapped.
LEMMA WriteKeepsOrder ==
  ASSUME Known, Sequential, NEW r \in Request, Write(r), tangled \subseteq tangled',
         UNCHANGED <<request, listed, found, added, jobs, entries>>,
         \A t \in Thread \ {r} : pc'[t] = pc[t],
         pc[r] \notin InCron, pc'[r] \in InCron => pc'[r] = "finding" /\ request[r].op = "save",
         \A n \in Node, t \in Thread \ {r} :
           NodeOf(t) = n /\ WorksOn(t, request[r].name) => <<n, request[r].name>> \in tangled'
  PROVE  Sequential'
<1> DEFINE y == request[r].name
<1>1. y \in Name /\ r \in Thread /\ r \notin Node
  BY ThreadIsOne DEF Known, TypeOK, Thread
<1>2. ASSUME NEW n \in Node, NEW x \in Name, <<n, x>> \notin tangled'
      PROVE  InOrder(n, x)'
  <2>1. InOrder(n, x)
    BY <1>2 DEF Sequential
  <2>2. EntriesOf(n, x)' = EntriesOf(n, x) /\ jobs'[n][x] = jobs[n][x]
    BY DEF EntriesOf
  <2>3. \A t \in Thread \ {r} :
          /\ JobOf(t)' = JobOf(t) /\ Adds(t)' = Adds(t)
          /\ On(t, n, x)' <=> On(t, n, x)
    BY SameCall
  <2>4. ~On(r, n, x)
    BY DEF On
  <2>5. On(r, n, x)' => pc'[r] = "finding" /\ x = y /\ JobOf(r)'.def = r /\ request[r].op = "save"
    BY <1>1 DEF On, InCron, NameOf, JobOf
  <2>6. CASE x # y
    <3>1. stored'[x] = stored[x] /\ (<<n, x>> \in settled' => <<n, x>> \in settled)
      BY <2>6 DEF Write, Known, TypeOK
    <3>2. \A i \in DOMAIN listed'[n] : listed'[n][i].name = x => listed'[n][i].def = stored[x]
      BY <2>1 DEF InOrder
    <3>3. \A t \in Thread : On(t, n, x)' => On(t, n, x) /\ t # r
      BY <2>3, <2>5, <2>6
    <3> QED
      BY <2>1, <2>2, <2>3, <2>4, <3>1, <3>2, <3>3, OrderStays
  <2>7. CASE x = y
    <3>1. <<n, x>> \notin settled'
      BY <2>7 DEF Write
    <3>2. \A t \in Thread \ {r} : NodeOf(t) = n => ~WorksOn(t, x)
      BY <1>2, <2>7
    <3>3. listed'[n] = <<>>
      BY <1>1, <3>2, LoaderWorks DEF Known
    <3>4. \A t \in Thread : ~On(t, n, x)
      BY <2>4, <3>2, CallWorks DEF On
    <3>5. On(r, n, x)' => JobOf(r)'.def = stored'[x]
      BY <1>1, <2>5, <2>7 DEF Write, Known, TypeOK
    <3> QED
      BY <2>1, <2>2, <2>3, <2>5, <3>1, <3>3, <3>4, <3>5, QuietStays
  <2> QED
    BY <2>6, <2>7
<1> QED
  BY <1>2 DEF Sequential

\* PutJob is under way for its job, and LateWrite tangles it for all that are.
LEMMA PutJobKeepsOrder ==
  ASSUME Known, Sequential, NEW r \in Request, PutJob(r) \/ LateWrite(r), r \in late => pc[r] = "done"
  PROVE  Sequential'
<1>0. r \in Thread /\ r \notin Node
  BY ThreadIsOne DEF Thread
<1>1. CASE PutJob(r)
  <2>1. /\ pc[r] = "putting" /\ pc'[r] = "finding" /\ \A t \in Thread \ {r} : pc'[t] = pc[t]
        /\ Write(r) /\ tangled' = tangled
        /\ UNCHANGED <<request, listed, found, added, jobs, entries>>
    BY <1>0, <1>1 DEF PutJob, Goto, cron, Known, TypeOK
  <2>2. request[r].op = "save" /\ WorksOn(r, request[r].name) /\ request[r].name \in Name
    BY <1>0, <2>1 DEF Known, Control, WorksOn, TypeOK
  <2>3. ASSUME NEW n \in Node, NEW t \in Thread \ {r},
               NodeOf(t) = n, WorksOn(t, request[r].name)
        PROVE  <<n, request[r].name>> \in tangled'
    BY <1>0, <2>1, <2>2, <2>3 DEF Known, OverlapsAreTangled
  <2> QED
    BY <2>1, <2>2, <2>3, WriteKeepsOrder DEF InCron
<1>2. CASE LateWrite(r)
  <2>1. /\ pc' = pc /\ pc[r] = "done" /\ Write(r)
        /\ tangled' = tangled \cup {<<NodeOf(t), request[r].name>> :
                                t \in {t \in Thread : WorksOn(t, request[r].name)}}
        /\ UNCHANGED <<request, listed, found, added, jobs, entries>>
    BY <1>2 DEF LateWrite, cron
  <2>2. \A n \in Node, t \in Thread \ {r} :
           NodeOf(t) = n /\ WorksOn(t, request[r].name) => <<n, request[r].name>> \in tangled'
    BY <2>1
  <2> QED
    BY <2>1, <2>2, WriteKeepsOrder DEF InCron
<1> QED
  BY <1>1, <1>2

\* DeleteJob: no entry and no definition of the job are left.
LEMMA DeleteJobKeepsOrder ==
  ASSUME Known, Sequential, NEW r \in Request, DeleteJob(r)
  PROVE  Sequential'
<1> DEFINE y == request[r].name
           m == request[r].node
<1>1. r \in Thread /\ r \notin Node /\ NodeOf(r) = m /\ NameOf(r) = y /\ y \in Name /\ m \in Node
  BY ThreadIsOne DEF Thread, NodeOf, NameOf, JobOf, Known, TypeOK
<1>2. /\ pc[r] = "deleting" /\ pc'[r] = "done" /\ \A t \in Thread \ {r} : pc'[t] = pc[t]
      /\ UNCHANGED <<request, listed, found, added, jobs, entries, tangled>>
      /\ stored' = [stored EXCEPT ![y] = NoJob]
      /\ settled' = {p \in settled : p[2] # y} \cup {<<m, y>>}
  BY <1>1 DEF DeleteJob, Goto, cron, Known, TypeOK
<1>3. On(r, m, y) /\ WorksOn(r, y)
  BY <1>1, <1>2 DEF On, InCron, WorksOn
<1> HIDE DEF y, m
<1>4. ASSUME NEW n \in Node, NEW x \in Name, <<n, x>> \notin tangled'
      PROVE  InOrder(n, x)'
  <2>1. InOrder(n, x)
    BY <1>2, <1>4 DEF Sequential
  <2>2. EntriesOf(n, x)' = EntriesOf(n, x) /\ jobs'[n][x] = jobs[n][x]
    BY <1>2 DEF EntriesOf
  <2>3. \A t \in Thread \ {r} :
          /\ JobOf(t)' = JobOf(t) /\ Adds(t)' = Adds(t)
          /\ On(t, n, x)' <=> On(t, n, x)
    BY <1>2, SameCall
  <2>4. ~On(r, n, x)'
    BY <1>2 DEF On, InCron
  <2>5. CASE x # y
    <3>1. stored'[x] = stored[x] /\ (<<n, x>> \in settled' => <<n, x>> \in settled)
      BY <1>2, <2>5 DEF Known, TypeOK
    <3>2. \A i \in DOMAIN listed'[n] : listed'[n][i].name = x => listed'[n][i].def = stored[x]
      BY <1>2, <2>1 DEF InOrder
    <3>3. ~On(r, n, x)
      BY <1>1, <2>5 DEF On
    <3> QED
      BY <1>2, <2>1, <2>2, <2>3, <2>4, <3>1, <3>2, <3>3, OrderStays
  <2>6. CASE x = y
    <3>1. \A t \in Thread \ {r} : NodeOf(t) = n => ~WorksOn(t, x)
      BY <1>1, <1>2, <1>3, <1>4, <2>6 DEF Known, OverlapsAreTangled
    <3>2. listed'[n] = <<>>
      BY <1>1, <1>2, <3>1, LoaderWorks DEF Known
    <3>3. \A t \in Thread \ {r} : ~On(t, n, x)
      BY <3>1, CallWorks DEF On
    <3>4. \A t \in Thread : ~On(t, n, x)'
      BY <2>3, <2>4, <3>3
    <3>5. CASE n # m
      <4>1. <<n, x>> \notin settled'
        BY <1>2, <2>6, <3>5
      <4>2. ~On(r, n, x)
        BY <1>1, <3>5 DEF On
      <4> QED
        BY <2>1, <2>2, <3>2, <3>3, <3>4, <4>1, <4>2, QuietStays
    <3>6. CASE n = m
      <4>1. EntriesOf(n, x) = {}
        BY <1>1, <1>2, <1>3, <2>1, <2>6, <3>6 DEF InOrder, CallOK
      <4>2. IDsOf(n, x) = {jobs[n][x]} \ {NoEntry}
        BY <1>2, <2>1, <3>3 DEF InOrder, Replacing
      <4>3. stored'[x] = NoJob
        BY <1>2, <2>6 DEF Known, TypeOK
      <4>4. IDsOf(n, x)' = {jobs'[n][x]} \ {NoEntry}
        BY <2>2, <4>2 DEF IDsOf
      <4>5. Agrees(n, x)'
        BY <2>2, <4>1, <4>3 DEF Agrees
      <4> QED
        BY <3>2, <3>4, <4>4, <4>5 DEF InOrder
    <3> QED
      BY <3>5, <3>6
  <2> QED
    BY <2>5, <2>6
<1> QED
  BY <1>4 DEF Sequential

\* WriteFails: a deletion that failed leaves cron without the job, and settled with it.
LEMMA WriteFailsKeepsOrder ==
  ASSUME Known, Sequential, NEW r \in Request, WriteFails(r)
  PROVE  Sequential'
<1>1. r \in Thread /\ r \notin Node
  BY ThreadIsOne DEF Thread
<1>2. /\ pc[r] \in {"putting", "deleting"} /\ pc'[r] = "done"
      /\ \A t \in Thread \ {r} : pc'[t] = pc[t]
      /\ UNCHANGED <<request, stored, listed, found, added, jobs, entries, tangled>>
      /\ settled' \subseteq settled
      /\ request[r].op # "save" => <<request[r].node, request[r].name>> \notin settled'
  BY <1>1 DEF WriteFails, Goto, cron, Known, TypeOK
<1>3. ASSUME NEW n \in Node, NEW x \in Name, <<n, x>> \notin tangled'
      PROVE  InOrder(n, x)'
  <2>1. InOrder(n, x)
    BY <1>2, <1>3 DEF Sequential
  <2>2. EntriesOf(n, x)' = EntriesOf(n, x) /\ jobs'[n][x] = jobs[n][x] /\ stored'[x] = stored[x]
    BY <1>2 DEF EntriesOf
  <2>3. \A t \in Thread \ {r} :
          /\ JobOf(t)' = JobOf(t) /\ Adds(t)' = Adds(t)
          /\ On(t, n, x)' <=> On(t, n, x)
    BY <1>2, SameCall
  <2>4. ~On(r, n, x)' /\ pc[r] \notin Replacing
    BY <1>2 DEF On, InCron, Replacing
  <2>5. On(r, n, x) => <<n, x>> \notin settled'
    <3>1. On(r, n, x) => request[r].op # "save" /\ n = request[r].node /\ x = request[r].name
      BY <1>1, <1>2 DEF On, InCron, Known, Control, NodeOf, NameOf, JobOf
    <3> QED
      BY <1>2, <3>1
  <2>6. \A i \in DOMAIN listed'[n] : listed'[n][i].name = x => listed'[n][i].def = stored[x]
    BY <1>2, <2>1 DEF InOrder
  <2> QED
    BY <1>2, <2>1, <2>2, <2>3, <2>4, <2>5, <2>6, OrderStays
<1> QED
  BY <1>3 DEF Sequential

\* The steps of AddJob and RemoveJob at other nodes and of other jobs change nothing
\* of a job but that a loader may come to it.
LEMMA CallKeepsOthers ==
  ASSUME Known, NEW t \in Thread, NEW n \in Node, NEW x \in Name, InOrder(n, x),
         UNCHANGED <<request, stored>>,
         \A u \in Thread \ {t} : /\ pc'[u] = pc[u] /\ found'[u] = found[u] /\ added'[u] = added[u]
                                 /\ u \in Node => listed'[u] = listed[u],
         EntriesOf(n, x)' = EntriesOf(n, x), jobs'[n][x] = jobs[n][x],
         <<n, x>> \in settled' => <<n, x>> \in settled,
         ~On(t, n, x),
         On(t, n, x)' => pc'[t] = "finding" /\ (Adds(t)' => JobOf(t)'.def = stored[x]),
         \A i \in DOMAIN listed'[n] : listed'[n][i].name = x => listed'[n][i].def = stored[x]
  PROVE  InOrder(n, x)'
<1>1. \A u \in Thread \ {t} :
        /\ JobOf(u)' = JobOf(u) /\ Adds(u)' = Adds(u)
        /\ On(u, n, x)' <=> On(u, n, x)
  BY SameCall
<1> QED
  BY <1>1, OrderStays

\* Find reads the id of the one entry that is there.
LEMMA FindKeepsOrder ==
  ASSUME Known, Sequential, NEW t \in Thread, Find(t)
  PROVE  Sequential'
<1> DEFINE m == NodeOf(t)
           y == NameOf(t)
<1>1. /\ pc[t] = "finding" /\ pc'[t] \in InCron /\ \A u \in Thread \ {t} : pc'[u] = pc[u]
      /\ UNCHANGED <<request, stored, listed, added, jobs, entries, tangled, settled>>
      /\ found'[t] = jobs[m][y] /\ \A u \in Thread \ {t} : found'[u] = found[u]
      /\ pc'[t] = IF jobs[m][y] # NoEntry THEN "removing"
                  ELSE IF Adds(t) THEN "adding" ELSE "deleting"
  BY DEF Find, Goto, etcd, cron, history, Known, TypeOK, InCron, NameOf
<1>2. m \in Node /\ y \in Name /\ On(t, m, y)
  BY <1>1, CallIsOn DEF Known, InCron
<1>3. \A u \in Thread : JobOf(u)' = JobOf(u) /\ Adds(u)' = Adds(u) /\ NodeOf(u)' = NodeOf(u)
                        /\ NameOf(u)' = NameOf(u)
  BY <1>1, SameJob
<1> HIDE DEF m, y
<1>4. ASSUME NEW n \in Node, NEW x \in Name, <<n, x>> \notin tangled'
      PROVE  InOrder(n, x)'
  <2>1. InOrder(n, x)
    BY <1>1, <1>4 DEF Sequential
  <2>2. EntriesOf(n, x)' = EntriesOf(n, x) /\ jobs'[n][x] = jobs[n][x]
    BY <1>1 DEF EntriesOf
  <2>3. \A i \in DOMAIN listed'[n] : listed'[n][i].name = x => listed'[n][i].def = stored[x]
    BY <1>1, <2>1 DEF InOrder
  <2>4. CASE ~On(t, n, x)
    <3>1. ~On(t, n, x)'
      BY <1>1, <1>3, <2>4 DEF On, InCron
    <3> QED
      BY <1>1, <2>1, <2>2, <2>3, <2>4, <3>1, CallKeepsOthers
  <2>5. CASE On(t, n, x)
    <3>1. n = m /\ x = y
      BY <1>2, <2>5 DEF On
    <3>2. \A u \in Thread : On(u, n, x) => u = t
      BY <1>1, <1>4, <2>5, OnlyCall, CallWorks DEF Known, On
    <3>3. \A u \in Thread : On(u, n, x)' => u = t
      BY <1>1, <1>3, <3>2 DEF On
    <3>4. IDsOf(n, x) = {jobs[n][x]} \ {NoEntry}
      BY <1>1, <2>1, <3>2 DEF InOrder, Replacing
    <3>5. Adds(t) => JobOf(t).def = stored[x]
      BY <2>1, <2>5 DEF InOrder, CallOK
    <3>6. CallOK(t, n, x)'
      <4>1. jobs[n][x] = NoEntry => EntriesOf(n, x) = {}
        BY <3>4 DEF IDsOf
      <4> QED
        BY <1>1, <1>3, <2>2, <3>1, <3>5, <4>1 DEF CallOK
    <3>7. IDsOf(n, x)' = {jobs'[n][x]} \ {NoEntry}
      BY <2>2, <3>4 DEF IDsOf
    <3>8. <<n, x>> \in settled' => Agrees(n, x)'
      <4>1. <<n, x>> \in settled => Agrees(n, x)
        BY <1>1, <2>1, <3>2 DEF InOrder, Replacing
      <4> QED
        BY <1>1, <2>2, <4>1 DEF Agrees
    <3> QED
      BY <1>1, <2>3, <3>3, <3>6, <3>7, <3>8 DEF InOrder
  <2> QED
    BY <2>4, <2>5
<1> QED
  BY <1>4 DEF Sequential

\* RemoveEntry removes the one entry of the job, and none of another.
LEMMA RemoveEntryKeepsOrder ==
  ASSUME Known, Sequential, NEW t \in Thread, RemoveEntry(t)
  PROVE  Sequential'
<1> DEFINE m == NodeOf(t)
           y == NameOf(t)
<1>1. /\ pc[t] = "removing" /\ \A u \in Thread \ {t} : pc'[u] = pc[u]
      /\ UNCHANGED <<request, stored, listed, found, added, jobs, tangled, settled>>
      /\ entries' = [entries EXCEPT ![m] = {e \in @ : e.id # found[t]}]
      /\ pc'[t] = IF Adds(t) THEN "adding" ELSE "forgetting"
  BY DEF RemoveEntry, Goto, etcd, history, Known, TypeOK
<1>2. m \in Node /\ y \in Name /\ On(t, m, y)
  BY <1>1, CallIsOn DEF Known, InCron
<1>3. \A u \in Thread : JobOf(u)' = JobOf(u) /\ Adds(u)' = Adds(u) /\ NodeOf(u)' = NodeOf(u)
                        /\ NameOf(u)' = NameOf(u)
  BY <1>1, SameJob
<1>4. found[t] \in Nat
  BY <1>1 DEF Known, Control, TypeOK
<1>5. Claimed(m, found[t], y)
  BY DEF Claimed
<1> HIDE DEF m, y
<1>6. ASSUME NEW n \in Node, NEW x \in Name, <<n, x>> \notin tangled'
      PROVE  InOrder(n, x)'
  <2>1. InOrder(n, x)
    BY <1>1, <1>6 DEF Sequential
  <2>2. jobs'[n][x] = jobs[n][x]
    BY <1>1
  <2>3. \A i \in DOMAIN listed'[n] : listed'[n][i].name = x => listed'[n][i].def = stored[x]
    BY <1>1, <2>1 DEF InOrder
  <2>4. CASE ~On(t, n, x)
    <3>1. ~On(t, n, x)'
      BY <1>1, <1>3, <2>4 DEF On, InCron
    <3>2. n # m \/ x # y
      BY <1>2, <2>4
    <3>3. n = m => \A e \in EntriesOf(n, x) : e.id # found[t]
      BY <1>2, <1>4, <1>5, <3>2 DEF Claimed, Known, NamesOK, OneNamePerID
    <3>4. EntriesOf(n, x)' = EntriesOf(n, x)
      BY <1>1, <1>2, <3>3 DEF EntriesOf, Known, TypeOK
    <3> QED
      BY <1>1, <2>1, <2>2, <2>3, <2>4, <3>1, <3>4, CallKeepsOthers
  <2>5. CASE On(t, n, x)
    <3>1. n = m /\ x = y
      BY <1>2, <2>5 DEF On
    <3>2. \A u \in Thread : On(u, n, x) => u = t
      BY <1>1, <1>6, <2>5, OnlyCall, CallWorks DEF Known, On
    <3>3. \A u \in Thread : On(u, n, x)' => u = t
      BY <1>1, <1>3, <3>2 DEF On
    <3>4. IDsOf(n, x) = {jobs[n][x]} \ {NoEntry}
      BY <1>1, <2>1, <3>2 DEF InOrder, Replacing
    <3>5. found[t] = jobs[n][x] /\ (Adds(t) => JobOf(t).def = stored[x])
      BY <1>1, <2>1, <2>5 DEF InOrder, CallOK
    <3>6. EntriesOf(n, x)' = {}
      <4>1. \A e \in EntriesOf(n, x) : e.id = found[t]
        BY <3>4, <3>5 DEF IDsOf
      <4> QED
        BY <1>1, <1>2, <3>1, <4>1 DEF EntriesOf, Known, TypeOK
    <3>7. CallOK(t, n, x)'
      BY <1>1, <1>3, <3>5, <3>6 DEF CallOK
    <3>8. On(t, n, x)' /\ pc'[t] \in Replacing
      BY <1>1, <1>3, <2>5 DEF On, InCron, Replacing
    <3> QED
      BY <2>3, <1>1, <3>3, <3>7, <3>8 DEF InOrder
  <2> QED
    BY <2>4, <2>5
<1> QED
  BY <1>6 DEF Sequential

\* AddEntry: the new entry is the only one of its job.
LEMMA AddEntryKeepsOrder ==
  ASSUME Known, Sequential, NEW t \in Thread, AddEntry(t)
  PROVE  Sequential'
<1> DEFINE m == NodeOf(t)
           y == NameOf(t)
           e == [id |-> nextID'[m], name |-> y, def |-> JobOf(t).def]
<1>1. /\ pc[t] = "adding" /\ pc'[t] = "recording" /\ \A u \in Thread \ {t} : pc'[u] = pc[u]
      /\ UNCHANGED <<request, stored, listed, found, jobs, tangled, settled>>
      /\ entries' = [entries EXCEPT ![m] = @ \cup {e}]
      /\ added'[t] = e.id /\ \A u \in Thread \ {t} : added'[u] = added[u]
  BY DEF AddEntry, Goto, etcd, history, Known, TypeOK, NameOf
<1>2. m \in Node /\ y \in Name /\ On(t, m, y)
  BY <1>1, CallIsOn DEF Known, InCron
<1>3. \A u \in Thread : JobOf(u)' = JobOf(u) /\ Adds(u)' = Adds(u) /\ NodeOf(u)' = NodeOf(u)
                        /\ NameOf(u)' = NameOf(u)
  BY <1>1, SameJob
<1>4. e.name = y /\ e = [id |-> added'[t], name |-> y, def |-> JobOf(t).def]
  BY <1>1
<1> HIDE DEF m, y, e
<1>5. ASSUME NEW n \in Node, NEW x \in Name, <<n, x>> \notin tangled'
      PROVE  InOrder(n, x)'
  <2>1. InOrder(n, x)
    BY <1>1, <1>5 DEF Sequential
  <2>2. jobs'[n][x] = jobs[n][x]
    BY <1>1
  <2>3. \A i \in DOMAIN listed'[n] : listed'[n][i].name = x => listed'[n][i].def = stored[x]
    BY <1>1, <2>1 DEF InOrder
  <2>4. CASE ~On(t, n, x)
    <3>1. ~On(t, n, x)'
      BY <1>1, <1>3, <2>4 DEF On, InCron
    <3>2. n # m \/ x # y
      BY <1>2, <2>4
    <3>3. EntriesOf(n, x)' = EntriesOf(n, x)
      BY <1>1, <1>2, <1>4, <3>2 DEF EntriesOf, Known, TypeOK
    <3> QED
      BY <1>1, <2>1, <2>2, <2>3, <2>4, <3>1, <3>3, CallKeepsOthers
  <2>5. CASE On(t, n, x)
    <3>1. n = m /\ x = y
      BY <1>2, <2>5 DEF On
    <3>2. \A u \in Thread : On(u, n, x) => u = t
      BY <1>1, <1>5, <2>5, OnlyCall, CallWorks DEF Known, On
    <3>3. \A u \in Thread : On(u, n, x)' => u = t
      BY <1>1, <1>3, <3>2 DEF On
    <3>4. EntriesOf(n, x) = {} /\ (Adds(t) => JobOf(t).def = stored[x])
      BY <1>1, <2>1, <2>5 DEF InOrder, CallOK
    <3>5. EntriesOf(n, x)' = {e}
      BY <1>1, <1>2, <1>4, <3>1, <3>4 DEF EntriesOf, Known, TypeOK
    <3>6. CallOK(t, n, x)'
      BY <1>1, <1>3, <1>4, <3>1, <3>4, <3>5 DEF CallOK
    <3>7. On(t, n, x)' /\ pc'[t] \in Replacing
      BY <1>1, <1>3, <2>5 DEF On, InCron, Replacing
    <3> QED
      BY <1>1, <2>3, <3>3, <3>6, <3>7 DEF InOrder
  <2> QED
    BY <2>4, <2>5
<1> QED
  BY <1>5 DEF Sequential

\* Record: the map leads to the one entry, which has the definition that etcd holds.
LEMMA RecordKeepsOrder ==
  ASSUME Known, Sequential, NEW t \in Thread, Record(t)
  PROVE  Sequential'
<1> DEFINE m == NodeOf(t)
           y == NameOf(t)
<1>1. /\ pc[t] = "recording" /\ \A u \in Thread \ {t} : pc'[u] = pc[u]
      /\ UNCHANGED <<request, stored, entries, tangled>>
      /\ found'[t] = NoEntry /\ \A u \in Thread \ {t} : found'[u] = found[u]
      /\ added'[t] = NoEntry /\ \A u \in Thread \ {t} : added'[u] = added[u]
      /\ jobs' = [jobs EXCEPT ![m][y] = added[t]]
      /\ settled' = settled \cup {<<m, y>>}
      /\ pc'[t] = IF t \in Request THEN "done"
                  ELSE IF Len(listed[t]) = 1 THEN "leading" ELSE "finding"
      /\ listed' = IF t \in Node THEN [listed EXCEPT ![t] = Tail(@)] ELSE listed
  BY DEF Record, Goto, etcd, Known, TypeOK, NameOf
<1>2. m \in Node /\ y \in Name /\ JobOf(t).def \in Definition /\ On(t, m, y)
  BY <1>1, CallIsOn DEF Known, InCron
<1>3. \A u \in Thread \ {t} : u \in Node => listed'[u] = listed[u]
  BY <1>1 DEF Known, TypeOK
<1>4. ASSUME NEW n \in Node, NEW i \in DOMAIN listed'[n]
      PROVE  \E j \in DOMAIN listed[n] : listed'[n][i] = listed[n][j]
  <2>1. CASE n = t
    <3>1. listed'[n] = Tail(listed[n]) /\ listed[n] \in Seq(Job) /\ listed[n] # <<>>
      BY <1>1, <2>1 DEF Known, Control, TypeOK, Job
    <3>2. i + 1 \in DOMAIN listed[n] /\ listed'[n][i] = listed[n][i + 1]
      BY <3>1, HeadTailProperties
    <3> QED
      BY <3>2
  <2>2. CASE n # t
    <3>1. listed'[n] = listed[n]
      BY <1>1, <2>2 DEF Known, TypeOK
    <3> QED
      BY <3>1
  <2> QED
    BY <2>1, <2>2
<1>5. pc'[t] = "finding" => t \in Node /\ 1 \in DOMAIN listed'[t] /\ JobOf(t)' = listed'[t][1]
  <2>1. ASSUME pc'[t] = "finding"
        PROVE  t \in Node /\ listed'[t] = Tail(listed[t]) /\ Len(listed[t]) # 1
    BY <1>1, <2>1, ThreadIsOne DEF Known, TypeOK
  <2>2. ASSUME t \in Node
        PROVE  listed[t] \in Seq(Job) /\ listed[t] # <<>>
    BY <1>1, <2>2 DEF Known, Control, TypeOK, Job
  <2>3. ASSUME pc'[t] = "finding"
        PROVE  1 \in DOMAIN listed'[t] /\ JobOf(t)' = listed'[t][1]
    <3> DEFINE s == listed[t]
               l == Tail(s)
    <3>1. s \in Seq(Job) /\ s # <<>> /\ Len(s) # 1 /\ listed'[t] = l /\ t \in Node
      BY <2>1, <2>2, <2>3
    <3>2. l \in Seq(Job) /\ Len(l) = Len(s) - 1 /\ Len(s) \in Nat \ {0}
      BY <3>1, HeadTailProperties, EmptySeq
    <3> HIDE DEF s, l
    <3>3. 1 \in DOMAIN l /\ Head(l) = l[1]
      BY <3>1, <3>2
    <3> QED
      BY <3>1, <3>3 DEF JobOf
  <2> QED
    BY <2>1, <2>3
<1> HIDE DEF m, y
<1>6. ASSUME NEW n \in Node, NEW x \in Name, <<n, x>> \notin tangled'
      PROVE  InOrder(n, x)'
  <2>1. InOrder(n, x)
    BY <1>1, <1>6 DEF Sequential
  <2>2. EntriesOf(n, x)' = EntriesOf(n, x)
    BY <1>1 DEF EntriesOf
  <2>3. \A i \in DOMAIN listed'[n] : listed'[n][i].name = x => listed'[n][i].def = stored[x]
    BY <1>4, <2>1 DEF InOrder
  <2>4. On(t, n, x)' => pc'[t] = "finding" /\ JobOf(t)'.def = stored[x]
    <3>1. ASSUME On(t, n, x)'
          PROVE  pc'[t] = "finding"
      BY <1>1, <3>1 DEF On, InCron
    <3>2. ASSUME On(t, n, x)'
          PROVE  /\ t = n /\ 1 \in DOMAIN listed'[n]
                 /\ JobOf(t)' = listed'[n][1] /\ JobOf(t)'.name = x
      BY <1>5, <3>1, <3>2 DEF On, NodeOf, NameOf
    <3> QED
      BY <2>3, <3>1, <3>2
  <2>5. CASE ~On(t, n, x)
    <3>1. n # m \/ x # y
      BY <1>2, <2>5
    <3>2. jobs'[n][x] = jobs[n][x] /\ (<<n, x>> \in settled' => <<n, x>> \in settled)
      BY <1>1, <1>2, <3>1 DEF Known, TypeOK
    <3> QED
      BY <1>1, <1>3, <2>1, <2>2, <2>3, <2>4, <2>5, <3>2, CallKeepsOthers
  <2>6. CASE On(t, n, x)
    <3>1. n = m /\ x = y
      BY <1>2, <2>6 DEF On
    <3>2. \A u \in Thread : On(u, n, x) => u = t
      BY <1>1, <1>6, <2>6, OnlyCall, CallWorks DEF Known, On
    <3>3. \A u \in Thread : On(u, n, x)' => u = t
      BY <1>1, <1>3, <3>2, SameCall
    <3>4. /\ EntriesOf(n, x) = {[id |-> added[t], name |-> x, def |-> JobOf(t).def]}
          /\ JobOf(t).def = stored[x]
      <4>1. Adds(t)
        BY <1>1, ThreadIsOne DEF Known, Control, Adds, TypeOK
      <4> QED
        BY <1>1, <2>1, <2>6, <4>1 DEF InOrder, CallOK
    <3>5. jobs'[n][x] = added[t] /\ added[t] # NoEntry
      BY <1>1, <1>2, <3>1 DEF Known, Control, TypeOK
    <3>6. stored'[x] = JobOf(t).def /\ stored'[x] # NoJob
      BY <1>1, <1>2, <3>4, JobAssumption
    <3>7. IDsOf(n, x)' = {jobs'[n][x]} \ {NoEntry}
      BY <2>2, <3>4, <3>5 DEF IDsOf
    <3>8. Agrees(n, x)'
      BY <2>2, <3>4, <3>5, <3>6 DEF Agrees
    <3>9. On(t, n, x)' => CallOK(t, n, x)'
      BY <1>1, <2>4 DEF CallOK
    <3> QED
      BY <1>1, <2>3, <3>3, <3>7, <3>8, <3>9 DEF InOrder
  <2> QED
    BY <2>5, <2>6
<1> QED
  BY <1>6 DEF Sequential

\* Forget: no entry, and nothing in the map.
LEMMA ForgetKeepsOrder ==
  ASSUME Known, Sequential, NEW r \in Request, Forget(r)
  PROVE  Sequential'
<1> DEFINE m == NodeOf(r)
           y == NameOf(r)
<1>0. r \in Thread /\ r \notin Node /\ m = request[r].node /\ y = request[r].name
  BY ThreadIsOne DEF Thread, NodeOf, NameOf, JobOf
<1>1. /\ pc[r] = "forgetting" /\ pc'[r] = "deleting" /\ \A u \in Thread \ {r} : pc'[u] = pc[u]
      /\ UNCHANGED <<request, stored, listed, added, entries, tangled, settled>>
      /\ \A u \in Thread \ {r} : found'[u] = found[u]
      /\ jobs' = [jobs EXCEPT ![m][y] = NoEntry]
  BY <1>0 DEF Forget, Goto, etcd, history, Known, TypeOK
<1>2. m \in Node /\ y \in Name /\ On(r, m, y)
  BY <1>0, <1>1, CallIsOn DEF Known, InCron
<1>3. \A u \in Thread : JobOf(u)' = JobOf(u) /\ Adds(u)' = Adds(u) /\ NodeOf(u)' = NodeOf(u)
                        /\ NameOf(u)' = NameOf(u)
  BY <1>1, SameJob
<1> HIDE DEF m, y
<1>4. ASSUME NEW n \in Node, NEW x \in Name, <<n, x>> \notin tangled'
      PROVE  InOrder(n, x)'
  <2>1. InOrder(n, x)
    BY <1>1, <1>4 DEF Sequential
  <2>2. EntriesOf(n, x)' = EntriesOf(n, x)
    BY <1>1 DEF EntriesOf
  <2>3. \A i \in DOMAIN listed'[n] : listed'[n][i].name = x => listed'[n][i].def = stored[x]
    BY <1>1, <2>1 DEF InOrder
  <2>4. CASE ~On(r, n, x)
    <3>1. ~On(r, n, x)'
      BY <1>0, <1>1, <1>3, <2>4 DEF On, InCron
    <3>2. jobs'[n][x] = jobs[n][x]
      BY <1>1, <1>2, <2>4 DEF Known, TypeOK
    <3> QED
      BY <1>0, <1>1, <2>1, <2>2, <2>3, <2>4, <3>1, <3>2, CallKeepsOthers
  <2>5. CASE On(r, n, x)
    <3>1. n = m /\ x = y
      BY <1>2, <2>5 DEF On
    <3>2. \A u \in Thread : On(u, n, x) => u = r
      BY <1>0, <1>1, <1>4, <2>5, OnlyCall, CallWorks DEF Known, On
    <3>3. \A u \in Thread : On(u, n, x)' => u = r
      BY <1>1, <1>3, <3>2 DEF On
    <3>4. EntriesOf(n, x) = {} /\ (Adds(r) => JobOf(r).def = stored[x])
      BY <1>0, <1>1, <2>1, <2>5 DEF InOrder, CallOK
    <3>5. jobs'[n][x] = NoEntry
      BY <1>1, <1>2, <3>1 DEF Known, TypeOK
    <3>6. IDsOf(n, x)' = {jobs'[n][x]} \ {NoEntry}
      BY <2>2, <3>4, <3>5 DEF IDsOf
    <3>7. CallOK(r, n, x)'
      BY <1>0, <1>1, <1>3, <2>2, <3>4 DEF CallOK
    <3>8. On(r, n, x)'
      BY <1>0, <1>1, <1>3, <2>5 DEF On, InCron
    <3> QED
      BY <1>0, <1>1, <2>3, <3>3, <3>6, <3>7, <3>8 DEF InOrder
  <2> QED
    BY <2>4, <2>5
<1> QED
  BY <1>4 DEF Sequential

\* ListJobs: what is listed is what etcd holds.
LEMMA ListJobsKeepsOrder ==
  ASSUME Known, Sequential, NEW m \in Node, ListJobs(m)
  PROVE  Sequential'
<1>1. PICK order \in SetToSeqs({x \in Name : stored[x] # NoJob}) :
         /\ listed' = [listed EXCEPT ![m] =
              [i \in DOMAIN order |-> [name |-> order[i], def |-> stored[order[i]]]]]
         /\ pc' = [pc EXCEPT ![m] = IF order = <<>> THEN "leading" ELSE "finding"]
  BY DEF ListJobs
<1>2. m \in Thread /\ m \notin Request /\ pc[m] = "listing" /\ tangled \subseteq tangled'
      /\ UNCHANGED <<request, stored, found, added, jobs, entries, settled>>
  BY JobAssumption DEF ListJobs, Thread, etcd, cron
<1>3. /\ \A u \in Thread \ {m} : pc'[u] = pc[u]
      /\ pc'[m] = IF order = <<>> THEN "leading" ELSE "finding"
      /\ \A n \in Node \ {m} : listed'[n] = listed[n]
      /\ listed'[m] = [i \in DOMAIN order |-> [name |-> order[i], def |-> stored[order[i]]]]
  BY <1>1, <1>2 DEF Known, TypeOK
<1>4. /\ listed'[m] \in Seq(Job) /\ (listed'[m] = <<>> <=> order = <<>>)
      /\ \A i \in DOMAIN listed'[m] : listed'[m][i].def = stored[listed'[m][i].name]
  BY <1>3, ListedIsSeq DEF Known
<1>5. pc'[m] = "finding" => 1 \in DOMAIN listed'[m] /\ JobOf(m)' = listed'[m][1]
  <2> DEFINE l == listed'[m]
  <2>1. l \in Seq(Job)
    BY <1>4
  <2>2. pc'[m] = "finding" => l # <<>>
    BY <1>3, <1>4
  <2> HIDE DEF l
  <2>3. l # <<>> => 1 \in DOMAIN l /\ Head(l) = l[1]
    BY <2>1, EmptySeq
  <2> QED
    BY <2>2, <2>3 DEF l, JobOf
<1>6. ASSUME NEW n \in Node, NEW x \in Name, <<n, x>> \notin tangled'
      PROVE  InOrder(n, x)'
  <2>1. InOrder(n, x)
    BY <1>2, <1>6 DEF Sequential
  <2>2. EntriesOf(n, x)' = EntriesOf(n, x) /\ jobs'[n][x] = jobs[n][x]
    BY <1>2 DEF EntriesOf
  <2>3. \A i \in DOMAIN listed'[n] : listed'[n][i].name = x => listed'[n][i].def = stored[x]
    BY <1>3, <1>4, <2>1 DEF InOrder
  <2>4. ~On(m, n, x)
    BY <1>2 DEF On, InCron
  <2>5. On(m, n, x)' => pc'[m] = "finding" /\ JobOf(m)'.def = stored[x]
    <3>1. ASSUME On(m, n, x)'
          PROVE  /\ pc'[m] = "finding" /\ 1 \in DOMAIN listed'[m]
                 /\ JobOf(m)' = listed'[m][1] /\ JobOf(m)'.name = x
      BY <1>3, <1>5, <3>1 DEF On, InCron, NameOf
    <3> QED
      BY <1>4, <3>1
  <2> QED
    BY <1>2, <1>3, <2>1, <2>2, <2>3, <2>4, <2>5, CallKeepsOthers
<1> QED
  BY <1>6 DEF Sequential

\* EndProcess: no entries and an empty map, and nobody else notices.
LEMMA EndProcessKeepsOrder ==
  ASSUME Known, Sequential, NEW m \in Node, EndProcess(m)
  PROVE  Sequential'
<1>1. /\ entries'[m] = {} /\ (\A x \in Name : jobs'[m][x] = NoEntry) /\ listed'[m] = <<>>
      /\ \A n \in Node \ {m} : entries'[n] = entries[n] /\ jobs'[n] = jobs[n]
                               /\ listed'[n] = listed[n]
      /\ settled' = {p \in settled : p[1] # m}
      /\ UNCHANGED <<request, stored, tangled>>
  BY DEF EndProcess, Known, TypeOK
<1>2. ASSUME NEW x \in Name
      PROVE  InOrder(m, x)'
  <2>1. \A t \in Thread : ~On(t, m, x)'
    BY EndProcessForgets DEF On, InCron, Known
  <2>2. EntriesOf(m, x)' = {} /\ jobs'[m][x] = NoEntry /\ <<m, x>> \notin settled'
    BY <1>1 DEF EntriesOf
  <2> QED
    BY <1>1, <2>1, <2>2 DEF InOrder, IDsOf
<1>3. ASSUME NEW n \in Node \ {m}, NEW x \in Name, <<n, x>> \notin tangled'
      PROVE  InOrder(n, x)'
  <2>1. InOrder(n, x)
    BY <1>1, <1>3 DEF Sequential
  <2>2. \A t \in Thread :
          /\ NodeOf(t) = n => /\ found'[t] = found[t] /\ added'[t] = added[t] /\ pc'[t] = pc[t]
                              /\ JobOf(t)' = JobOf(t) /\ Adds(t)' = Adds(t)
          /\ On(t, n, x)' <=> On(t, n, x)
    BY EndProcessForgets DEF On, Known
  <2>3. /\ EntriesOf(n, x)' = EntriesOf(n, x) /\ jobs'[n][x] = jobs[n][x]
        /\ \A i \in DOMAIN listed'[n] : listed'[n][i].name = x => listed'[n][i].def = stored[x]
    BY <1>1, <2>1 DEF EntriesOf, InOrder
  <2> QED
    BY <1>1, <2>1, <2>2, <2>3, OrderStays DEF On
<1> QED
  BY <1>2, <1>3 DEF Sequential

\* The other steps are not about jobs.
LEMMA OthersKeepOrder ==
  ASSUME Known, Sequential,
         \/ UNCHANGED vars \/ EndTerm
         \/ \E n \in Node : BeginTerm(n) \/ ListFails(n) \/ LostLeadership(n)
  PROVE  Sequential'
<1>1. UNCHANGED <<request, stored, listed, found, added, jobs, entries, tangled, settled>>
  BY DEF vars, EndTerm, BeginTerm, ListFails, LostLeadership, etcd, cron, history
<1>2. \A t \in Thread : pc'[t] = pc[t] \/ (pc[t] \notin InCron /\ pc'[t] \notin InCron)
  BY DEF vars, EndTerm, BeginTerm, ListFails, LostLeadership, Goto, Known, TypeOK, InCron
<1>3. \A t \in Thread : JobOf(t)' = JobOf(t) /\ Adds(t)' = Adds(t) /\ NodeOf(t)' = NodeOf(t)
                        /\ NameOf(t)' = NameOf(t)
  BY <1>1, SameJob
<1>4. ASSUME NEW n \in Node, NEW x \in Name, <<n, x>> \notin tangled'
      PROVE  InOrder(n, x)'
  <2>1. InOrder(n, x) /\ EntriesOf(n, x)' = EntriesOf(n, x)
    BY <1>1, <1>4 DEF Sequential, EntriesOf
  <2>2. \A t \in Thread : (On(t, n, x)' <=> On(t, n, x)) /\ (On(t, n, x) => pc'[t] = pc[t])
    BY <1>2, <1>3 DEF On
  <2> QED
    BY <1>1, <1>3, <2>1, <2>2, OrderStays DEF InOrder
<1> QED
  BY <1>4 DEF Sequential

\* Every step keeps jobs in order whose calls have not overlapped.
LEMMA SequentialKept ==
  ASSUME Known, Sequential, DefsWritten, [Next]_vars
  PROVE  Sequential'
<1>1. ASSUME NEW r \in Request, Serve(r)
      PROVE  Sequential'
  <2>1. r \in late => pc[r] = "done"
    BY DEF DefsWritten
  <2> QED
    BY <1>1, <2>1, ReceiveKeepsOrder, PutJobKeepsOrder, DeleteJobKeepsOrder,
       WriteFailsKeepsOrder, ForgetKeepsOrder DEF Serve
<1>2. ASSUME NEW t \in Thread, UseCron(t)
      PROVE  Sequential'
  BY <1>2, FindKeepsOrder, RemoveEntryKeepsOrder, AddEntryKeepsOrder, RecordKeepsOrder
     DEF UseCron
<1> QED
  BY <1>1, <1>2, ListJobsKeepsOrder, EndProcessKeepsOrder, OthersKeepOrder
     DEF Next, Lead, Crash, FatalRace

-----------------------------------------------------------------------------
(* Theorems *)

\* The inductive invariant.
JobIInv == TypeOK /\ Control /\ NamesOK /\ DefsWritten /\ OverlapsAreTangled /\ Sequential

\* JobIInv holds in every reachable state.
THEOREM JobInductive == Spec => []JobIInv
<1>1. Init => JobIInv
  <2> SUFFICES ASSUME Init
               PROVE  JobIInv
    OBVIOUS
  <2>1. \A n \in Node : listed[n] = <<>> /\ entries[n] = {} /\ \A x \in Name : jobs[n][x] = NoEntry
    BY DEF Init
  <2>2. \A t \in Thread : pc[t] \in {"standby", "idle"} /\ found[t] = NoEntry /\ added[t] = NoEntry
    BY DEF Init
  <2>3. \A r \in Request : pc[r] = "idle" /\ r \in Thread
    BY ThreadIsOne DEF Init, Thread
  <2>4. \A n \in Node : pc[n] = "standby" /\ n \in Thread
    BY ThreadIsOne DEF Init, Thread
  <2>5. TypeOK
    <3>1. listed \in [Node -> Seq([name : Name, def : Definition])]
      BY EmptySeq DEF Init
    <3>2. pc \in [Thread -> RequestPCs \cup LoaderPCs]
      BY DEF Init, RequestPCs, LoaderPCs
    <3>3. terms \in 0..MaxTerms /\ faults \in 0..MaxFaults
      BY JobAssumption DEF Init
    <3> QED
      BY <2>3, <2>4, <3>1, <3>2, <3>3 DEF Init, TypeOK, RequestPCs, LoaderPCs, Definition
  <2>6. Control
    BY <2>1, <2>2, <2>3, <2>4 DEF Control
  <2>7. NamesOK
    <3>1. \A n \in Node, i \in Nat, x \in Name : ~Claimed(n, i, x)
      BY <2>1, <2>2, JobAssumption DEF Claimed, EntriesOf
    <3> QED
      BY <2>1, <2>2, <3>1 DEF NamesOK, OneNamePerID, AddedIsNew, EntryOrCall
  <2>8. DefsWritten
    BY <2>1 DEF Init, DefsWritten, Written
  <2>9. OverlapsAreTangled
    BY <2>3, <2>4 DEF OverlapsAreTangled, WorksOn, Thread
  <2>10. Sequential
    <3>1. \A t \in Thread, n \in Node, x \in Name : ~On(t, n, x)
      BY <2>2 DEF On, InCron
    <3>2. \A n \in Node, x \in Name : EntriesOf(n, x) = {}
      BY <2>1 DEF EntriesOf
    <3>3. settled = {}
      BY DEF Init
    <3> QED
      BY <2>1, <3>1, <3>2, <3>3 DEF Sequential, InOrder, IDsOf
  <2> QED
    BY <2>5, <2>6, <2>7, <2>8, <2>9, <2>10 DEF JobIInv
<1>2. JobIInv /\ [Next]_vars => JobIInv'
  BY TypeKept, ControlKept, NamesKept, DefsWrittenKept, OverlapsKept, SequentialKept
     DEF JobIInv, Known
<1> QED
  BY <1>1, <1>2, PTL DEF Spec

\* The state of the masters, their loaders, requests and crons is well typed (the
\* code of job_service.go and cron_scheduler.go as a whole).
THEOREM JobTypeCorrect == Spec => []TypeOK
<1>1. JobIInv => TypeOK
  BY DEF JobIInv
<1> QED
  BY <1>1, JobInductive, PTL

\* The map of cronScheduler never leads astray: what it has for a name is an entry of
\* that name, unless AddJob or RemoveJob has just removed it and will replace or
\* forget it.
THEOREM JobNameLeadsToEntry == Spec => []NameLeadsToEntry
<1>1. JobIInv => NameLeadsToEntry
  <2> SUFFICES ASSUME JobIInv, NEW n \in Node, NEW x \in Name, jobs[n][x] # NoEntry,
                      NEW t \in Thread, NodeOf(t) = n, found[t] = jobs[n][x], NameOf(t) = x
               PROVE  WorksOn(t, x)
    BY DEF JobIInv, NamesOK, EntryOrCall, NameLeadsToEntry
  <2>1. On(t, n, x)
    BY DEF JobIInv, Control, On, InCron
  <2> QED
    BY <2>1, CallWorks
<1> QED
  BY <1>1, JobInductive, PTL

\* Where calls for a job have not overlapped and none is under way, cron has one entry
\* of the job, the one that the map leads to, or none (AddJob and RemoveJob,
\* cron_scheduler.go).
THEOREM JobOneEntryPerJob == Spec => []OneEntryPerJob
<1>1. JobIInv => OneEntryPerJob
  <2> SUFFICES ASSUME JobIInv, NEW n \in Node, NEW x \in Name,
                      <<n, x>> \notin tangled, ~Busy(n, x)
               PROVE  IDsOf(n, x) = {jobs[n][x]} \ {NoEntry}
    BY DEF OneEntryPerJob, IDsOf
  <2>1. \A t \in Thread : ~On(t, n, x)
    BY CallWorks DEF Busy, On
  <2> QED
    BY <2>1 DEF JobIInv, Sequential, InOrder
<1> QED
  BY <1>1, JobInductive, PTL

\* What RemovedMeansGone says (and the code does not keep, cron_scheduler.go:54), where calls for
\* the job have never overlapped at the node.
RemovedAloneIsGone ==
  \A n \in Node, x \in Name :
    <<n, x>> \notin tangled /\ ~Busy(n, x) /\ jobs[n][x] = NoEntry => EntriesOf(n, x) = {}

\* Only calls that overlap can leave an entry that the map does not lead to: a job that was
\* removed by a call of its own is not triggered any more (RemoveJob).
THEOREM JobRemovedAloneIsGone == Spec => []RemovedAloneIsGone
<1>1. OneEntryPerJob => RemovedAloneIsGone
  <2> SUFFICES ASSUME OneEntryPerJob, NEW n \in Node, NEW x \in Name,
                      <<n, x>> \notin tangled, ~Busy(n, x), jobs[n][x] = NoEntry
               PROVE  EntriesOf(n, x) = {}
    BY DEF RemovedAloneIsGone
  <2>1. {e.id : e \in EntriesOf(n, x)} = {}
    BY DEF OneEntryPerJob
  <2> QED
    BY <2>1
<1> QED
  BY <1>1, JobOneEntryPerJob, PTL

\* Save puts first and adds then, and a loader adds what etcd holds: what any cron
\* triggers was stored.
THEOREM JobOnlyStoredJobsRun == Spec => []OnlyStoredJobsRun
<1>1. JobIInv => OnlyStoredJobsRun
  BY DEF JobIInv, DefsWritten, Written, OnlyStoredJobsRun
<1> QED
  BY <1>1, JobInductive, PTL

\* A node through which a job was saved, deleted or loaded last, by calls that did not
\* overlap with others, triggers what etcd holds (Save and Delete, job_service.go;
\* runSchedular, schedular_service.go).
THEOREM JobSettledAgrees == Spec => []SettledAgrees
<1>1. JobIInv => SettledAgrees
  <2> SUFFICES ASSUME JobIInv, NEW n \in Node, NEW x \in Name,
                      <<n, x>> \in settled \ tangled, ~Busy(n, x)
               PROVE  Agrees(n, x)
    BY DEF SettledAgrees, Agrees
  <2>1. \A t \in Thread : ~On(t, n, x)
    BY CallWorks DEF Busy, On
  <2> QED
    BY <2>1 DEF JobIInv, Sequential, InOrder
<1> QED
  BY <1>1, JobInductive, PTL

\* A call of cron.Remove leaves the entries of all other jobs alone.
RemovesOnlyItsOwn ==
  \A t \in Thread : RemoveEntry(t) =>
    \A n \in Node, x \in Name : x # NameOf(t) => EntriesOf(n, x)' = EntriesOf(n, x)

\* However calls for the same and for other jobs interleave, AddJob and RemoveJob never
\* remove the entry of another job by an id that they read before (cron_scheduler.go).
THEOREM JobRemovesOwnEntries == Spec => [][RemovesOnlyItsOwn]_vars
<1>1. ASSUME JobIInv, NEW t \in Thread, RemoveEntry(t), NEW n \in Node, NEW x \in Name,
             x # NameOf(t)
      PROVE  EntriesOf(n, x)' = EntriesOf(n, x)
  <2>1. /\ pc[t] = "removing"
        /\ entries' = [entries EXCEPT ![NodeOf(t)] = {e \in @ : e.id # found[t]}]
    BY <1>1 DEF RemoveEntry, Goto
  <2>2. found[t] \in Nat /\ NodeOf(t) \in Node /\ NameOf(t) \in Name
    BY <1>1, <2>1, CallIsOn DEF JobIInv, Control, TypeOK, InCron
  <2>3. Claimed(NodeOf(t), found[t], NameOf(t))
    BY <1>1 DEF Claimed
  <2>4. n = NodeOf(t) => \A e \in EntriesOf(n, x) : e.id # found[t]
    BY <1>1, <2>2, <2>3 DEF Claimed, JobIInv, NamesOK, OneNamePerID
  <2> QED
    BY <1>1, <2>1, <2>2, <2>4 DEF EntriesOf, JobIInv, TypeOK
<1>2. JobIInv /\ [Next]_vars => [RemovesOnlyItsOwn]_vars
  BY <1>1 DEF RemovesOnlyItsOwn
<1> QED
  BY <1>2, JobInductive, PTL DEF Spec
=============================================================================
