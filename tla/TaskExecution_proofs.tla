------------------------- MODULE TaskExecution_proofs -------------------------
(***************************************************************************)
(* Proofs about TaskExecution, for every set of retry numbers that a       *)
(* request may ask for.                                                    *)
(*                                                                         *)
(* A request with a retry policy stores nothing.  What the handler accepts *)
(* of the others and Validate does not refuse, both conversions carry to   *)
(* the worker unchanged, and its executor makes one attempt.               *)
(***************************************************************************)
EXTENDS TaskExecution, TLAPS

\* The fields of the other type of executor are empty.
OfOneType(j) ==
  /\ j.executor_type = "http"  => j.command = ""
  /\ j.executor_type = "shell" => j.url = "" /\ j.method = ""

Refused == {"received", "panicked", "status400", "status500"}
Executed == {"success", "failed"}

\* What is known of the job at each stage of its way.
JobSoFar ==
  /\ stage \notin {"not_sent", "not_accepted"}
  /\ stage \in Refused => stored = Null
  /\ stage \notin Refused =>
       /\ ~Dives(req)
       /\ Accepted(req)
       /\ Valid(ToDomainJob(req))
       /\ stored = ToDomainJob(req)
  /\ stage = "sent" => task = DomainToProto(stored)
  /\ stage \in {"attempting"} \cup Executed => job = stored
  /\ stage \notin {"attempting"} \cup Executed => job = Null
  /\ attempts = IF stage \in Executed THEN 1 ELSE 0

TaskIInv == TypeOK /\ JobSoFar

-----------------------------------------------------------------------------
\* time.Duration.String writes what time.ParseDuration reads.
LEMMA DurationRoundTrip ==
  \A d \in Durations : /\ IsDuration(DurationString(d))
                       /\ ParseDuration(DurationString(d)) = d
                       /\ DurationString(d) \in Backoffs
BY DEF Durations, IsDuration, DurationString, ParseDuration, Backoffs

\* Validate leaves a complete job as it is.
LEMMA ValidatedIsSame ==
  ASSUME NEW j \in Jobs, j.executor_type = "http" => j.method # ""
  PROVE  Validated(j) = j
<1>1. \A m : m = j.method => [j EXCEPT !.method = m] = j
  BY DEF Jobs
<1>2. \A p : p = j.policy => [j EXCEPT !.policy = p] = j
  BY DEF Jobs
<1>3. (IF j.policy = "" THEN "Allow" ELSE j.policy) = j.policy
  BY DEF Jobs
<1>4. (IF j.executor_type = "http" /\ j.method = "" THEN "GET" ELSE j.method) = j.method
  OBVIOUS
<1> QED
  BY <1>1, <1>2, <1>3, <1>4, Zenon DEF Validated

\* What the handler accepts becomes a job with the fields of one executor, which
\* Validate leaves as it is.
LEMMA AcceptedBecomesJob ==
  ASSUME NEW r \in SaveRequests, Accepted(r)
  PROVE  /\ ToDomainJob(r) \in Jobs
         /\ OfOneType(ToDomainJob(r))
         /\ Validated(ToDomainJob(r)) = ToDomainJob(r)
<1>1. r.retry # Null => [max_retries |-> r.retry.max_retries,
                         backoff     |-> ParseDuration(r.retry.backoff)] \in RetryPolicies
  BY TaskAssumption DEF SaveRequests, RetryRequests, RetryPolicies, ParseDuration, Durations
<1> DEFINE j == ToDomainJob(r)
<1>2. j \in Jobs
  <2>1. PICK u \in Urls, m \in Methods, c \in Commands, p \in {"Allow", "Forbid"},
             y \in RetryPolicies \cup {Null} :
          j = [executor_type |-> r.executor_type, url |-> u, method |-> m,
               command |-> c, policy |-> p, retry |-> y]
    <3>1. r.url \in Urls /\ "" \in Urls
      BY DEF SaveRequests, Urls
    <3>2. r.method \in Methods /\ "" \in Methods /\ "GET" \in Methods
      BY DEF SaveRequests, Methods
    <3>3. r.command \in Commands /\ "" \in Commands
      BY DEF SaveRequests, Commands
    <3>4. (IF r.policy = "" THEN "Allow" ELSE r.policy) \in {"Allow", "Forbid"}
      BY DEF Accepted
    <3> QED
      BY <1>1, <3>1, <3>2, <3>3, <3>4, Zenon DEF ToDomainJob
  <2>2. r.executor_type \in {"http", "shell"}
    BY DEF Accepted
  <2> QED
    BY <2>1, <2>2 DEF Jobs
<1>3. OfOneType(ToDomainJob(r))
  BY DEF OfOneType, ToDomainJob, Accepted
<1>4. /\ ToDomainJob(r).executor_type = "http" => ToDomainJob(r).method # ""
      /\ ToDomainJob(r).policy # ""
  BY DEF ToDomainJob, Accepted, SaveRequests
<1>5. Validated(ToDomainJob(r)) = ToDomainJob(r)
  BY <1>2, <1>4, ValidatedIsSame
<1> QED
  BY <1>2, <1>3, <1>5

\* The worker decodes what the dispatcher encodes, to the same job.
LEMMA ConversionRoundTrip ==
  ASSUME NEW j \in Jobs, OfOneType(j)
  PROVE  /\ Decodable(DomainToProto(j))
         /\ ProtoToDomain(DomainToProto(j)) = j
<1> DEFINE t == DomainToProto(j)
<1>1. /\ j.executor_type \in {"http", "shell"} /\ j.url \in Urls /\ j.method \in Methods
      /\ j.command \in Commands /\ j.retry \in RetryPolicies \cup {Null}
  BY DEF Jobs
<1>2. /\ j.executor_type = "http"  => t.http_executor = [url |-> j.url, method |-> j.method]
      /\ j.executor_type = "shell" => t.shell_executor = [command |-> j.command]
      /\ t.executor_type = j.executor_type /\ t.policy = j.policy
  BY DEF DomainToProto
<1> HIDE DEF t
<1>3. /\ t.executor_type = "http"  => t.http_executor # Null
      /\ t.executor_type = "shell" => t.shell_executor # Null
  BY <1>1, <1>2, TaskAssumption
<1>4. j.retry = Null => t.retry = Null
  BY DEF DomainToProto, t
<1>5. ASSUME j.retry # Null
      PROVE  /\ t.retry # Null
             /\ IsDuration(t.retry.backoff)
             /\ [max_retries |-> t.retry.max_retries,
                 backoff     |-> ParseDuration(t.retry.backoff)] = j.retry
  <2>1. j.retry \in RetryPolicies
    BY <1>1, <1>5
  <2>2. t.retry = [max_retries |-> j.retry.max_retries,
                   backoff     |-> DurationString(j.retry.backoff)]
    BY <1>5 DEF DomainToProto, t
  <2>3. j.retry.backoff \in Durations /\ j.retry.max_retries \in Int
    BY <2>1 DEF RetryPolicies
  <2>4. t.retry \in [max_retries : Int, backoff : Backoffs]
    BY <2>2, <2>3, DurationRoundTrip
  <2> QED
    BY <2>1, <2>2, <2>3, <2>4, DurationRoundTrip, TaskAssumption DEF RetryPolicies
<1>6. Decodable(t)
  BY <1>1, <1>2, <1>3, <1>4, <1>5 DEF Decodable
<1>7. ProtoToDomain(t) = j
  <2>1. ProtoToDomain(t).retry = j.retry
    BY <1>4, <1>5 DEF ProtoToDomain
  <2>2. /\ ProtoToDomain(t).url = j.url
        /\ ProtoToDomain(t).method = j.method
        /\ ProtoToDomain(t).command = j.command
    <3>1. CASE j.executor_type = "http"
      <4>1. t.http_executor.url = j.url /\ t.http_executor.method = j.method
        BY <1>2, <3>1
      <4> QED
        BY <1>2, <3>1, <4>1 DEF ProtoToDomain, OfOneType
    <3>2. CASE j.executor_type = "shell"
      <4>1. t.shell_executor.command = j.command
        BY <1>2, <3>2
      <4> QED
        BY <1>2, <3>2, <4>1 DEF ProtoToDomain, OfOneType
    <3> QED
      BY <1>1, <3>1, <3>2
  <2>3. ProtoToDomain(t).executor_type = j.executor_type /\ ProtoToDomain(t).policy = j.policy
    BY <1>2 DEF ProtoToDomain
  <2>4. ProtoToDomain(t) = [executor_type |-> ProtoToDomain(t).executor_type,
                            url     |-> ProtoToDomain(t).url,
                            method  |-> ProtoToDomain(t).method,
                            command |-> ProtoToDomain(t).command,
                            policy  |-> ProtoToDomain(t).policy,
                            retry   |-> ProtoToDomain(t).retry]
    BY DEF ProtoToDomain
  <2>5. j = [executor_type |-> j.executor_type, url |-> j.url, method |-> j.method,
             command |-> j.command, policy |-> j.policy, retry |-> j.retry]
    BY DEF Jobs
  <2> QED
    BY <2>1, <2>2, <2>3, <2>4, <2>5
<1> QED
  BY <1>6, <1>7 DEF t

-----------------------------------------------------------------------------
\* A request that the validator does not panic on gives a job without retries.
LEMMA JobWithoutRetries ==
  ASSUME NEW r \in SaveRequests, ~Dives(r), Accepted(r)
  PROVE  /\ ToDomainJob(r).executor_type = r.executor_type
         /\ ~Retries(ToDomainJob(r))
         /\ ~NoAttempt(ToDomainJob(r))
BY DEF Dives, ToDomainJob, Retries, NoAttempt

\* The validator panics, the request is refused, or the job is saved, sent and taken.
LEMMA JobArrives ==
  ASSUME TaskIInv, ValidatorPanics \/ Refuse \/ RefuseJob \/ Save \/ Dispatch \/ ExecuteTask
  PROVE  TaskIInv'
<1> USE DEF TaskIInv
<1>1. req' = req /\ req \in SaveRequests
  BY DEF ValidatorPanics, Refuse, RefuseJob, Save, Dispatch, ExecuteTask, TypeOK
<1>2. CASE ValidatorPanics \/ Refuse \/ RefuseJob
  BY <1>1, <1>2 DEF ValidatorPanics, Refuse, RefuseJob, TypeOK, JobSoFar, Stages,
                    Refused, Executed
<1>3. CASE Save
  <2>1. stage = "received" /\ stage' = "saved"
        /\ ~Dives(req) /\ Accepted(req) /\ Valid(ToDomainJob(req))
        /\ stored' = Validated(ToDomainJob(req)) /\ UNCHANGED <<job, attempts, ending>>
    BY <1>3 DEF Save
  <2>2. stored' = ToDomainJob(req) /\ stored' \in Jobs
    BY <1>1, <2>1, AcceptedBecomesJob
  <2> QED
    BY <1>1, <2>1, <2>2 DEF TypeOK, JobSoFar, Stages, Refused, Executed
<1>4. CASE Dispatch
  <2>1. stage = "saved" /\ task' = DomainToProto(stored)
        /\ UNCHANGED <<stored, job, attempts, ending>>
        /\ stage' = IF stored.executor_type \in {"http", "shell"} THEN "sent" ELSE "not_sent"
    BY <1>4 DEF Dispatch
  <2>2. stored = ToDomainJob(req) /\ Accepted(req) /\ ~Dives(req)
    BY <2>1 DEF JobSoFar, Refused
  <2>3. stage' = "sent"
    BY <1>1, <2>1, <2>2, JobWithoutRetries DEF Accepted
  <2> QED
    BY <1>1, <2>1, <2>3 DEF TypeOK, JobSoFar, Stages, Refused, Executed
<1>5. CASE ExecuteTask
  <2>1. stored = ToDomainJob(req) /\ Accepted(req) /\ ~Dives(req)
        /\ task = DomainToProto(stored) /\ stage = "sent" /\ attempts = 0
    BY <1>5 DEF ExecuteTask, JobSoFar, Refused, Executed
  <2>2. Decodable(task) /\ ProtoToDomain(task) = stored /\ stored \in Jobs
    BY <1>1, <2>1, AcceptedBecomesJob, ConversionRoundTrip
  <2>3. ~NoAttempt(stored)
    BY <1>1, <2>1, JobWithoutRetries
  <2>4. job' = stored /\ stage' = "attempting" /\ UNCHANGED <<stored, task, attempts, ending>>
    BY <1>5, <2>2, <2>3 DEF ExecuteTask
  <2> QED
    BY <1>1, <2>1, <2>2, <2>4 DEF TypeOK, JobSoFar, Stages, Refused, Executed
<1> QED
  BY <1>2, <1>3, <1>4, <1>5

\* The first attempt ends the execution: there is no policy that asks for another.
LEMMA AttemptIsFinal ==
  ASSUME TaskIInv,
         \/ \E e \in HttpEndings : HttpAttempt(e)
         \/ \E e \in {"ok", "exit"} : ShellAttempt(e)
  PROVE  TaskIInv'
<1> USE DEF TaskIInv
<1>1. stage = "attempting" /\ UNCHANGED <<req, stored, task, job>> /\ attempts' = attempts + 1
  BY DEF HttpAttempt, ShellAttempt
<1>2. req \in SaveRequests /\ ~Dives(req) /\ Accepted(req) /\ job = ToDomainJob(req)
      /\ attempts = 0
  BY <1>1 DEF TypeOK, JobSoFar, Refused, Executed
<1>3. ~Retries(job)
  BY <1>2, JobWithoutRetries
<1>4. stage' \in Executed /\ ending' \in HttpEndings \cup {"exit", "none"}
  BY <1>3 DEF HttpAttempt, ShellAttempt, Executed, HttpEndings
<1>5. TypeOK'
  BY <1>1, <1>2, <1>4 DEF TypeOK, Stages, Executed
<1>6. JobSoFar'
  BY <1>1, <1>2, <1>4 DEF JobSoFar, Refused, Executed
<1> QED
  BY <1>5, <1>6

\* TaskIInv holds in every reachable state: what is stored is the job of a request
\* without a retry policy, the worker gets that job, and tries it once.
THEOREM TaskInductive == Spec => []TaskIInv
<1>1. Init => TaskIInv
  BY DEF Init, TaskIInv, TypeOK, JobSoFar, Stages, Refused, Executed
<1>2. TaskIInv /\ [Next]_vars => TaskIInv'
  <2> SUFFICES ASSUME TaskIInv, [Next]_vars
               PROVE  TaskIInv'
    OBVIOUS
  <2>1. CASE UNCHANGED vars
    BY <2>1 DEF vars, TaskIInv, TypeOK, JobSoFar
  <2>2. CASE Next
    BY <2>2, JobArrives, AttemptIsFinal DEF Next
  <2> QED
    BY <2>1, <2>2
<1> QED
  BY <1>1, <1>2, PTL DEF Spec

\* The stages of a task and what they have left behind are well typed (the code
\* from SaveJobRequest, dto.go, to the executors as a whole).
THEOREM TaskTypeCorrect == Spec => []TypeOK
<1>1. TaskIInv => TypeOK
  BY DEF TaskIInv
<1> QED
  BY <1>1, TaskInductive, PTL

\* Every stored job is one that the dispatcher sends, the worker takes and an
\* executor can run (SaveJobRequest, dto.go; Job.Validate, job.go).
THEOREM TaskStoredJobsAreRunnable == Spec => []StoredJobsAreRunnable
<1>1. TaskIInv => StoredJobsAreRunnable
  <2> SUFFICES ASSUME TaskIInv, stored # Null
               PROVE  /\ stored.executor_type = "http"
                           => stored.url # "" /\ stored.method # ""
                      /\ stored.executor_type = "shell" => stored.command # ""
    BY DEF TaskIInv, JobSoFar, StoredJobsAreRunnable
  <2>1. Valid(stored) /\ stored = ToDomainJob(req)
    BY DEF TaskIInv, JobSoFar
  <2>2. stored.executor_type = "http" => stored.method # ""
    BY <2>1 DEF ToDomainJob
  <2> QED
    BY <2>1, <2>2 DEF Valid
<1> QED
  BY <1>1, TaskInductive, PTL
=============================================================================
