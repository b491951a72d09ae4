---------------------------- MODULE TaskExecution -----------------------------
(***************************************************************************)
(* The way of one job definition through the system: the request that      *)
(* saves it (internal/api/http), the job that is stored (internal/usecase, *)
(* internal/domain), the task that a master sends (internal/master), the   *)
(* job that a worker makes of it (internal/worker), and the attempts of    *)
(* its executor (internal/infra/http, internal/infra/shell).               *)
(*                                                                         *)
(* No request with a retry policy gets past the validator, which panics on *)
(* it (ValidatorPanics).  What the code does with a retry policy further   *)
(* on is translated all the same.                                          *)
(*                                                                         *)
(* Strings are reduced to what the code tells apart.  A field that is not  *)
(* set is the empty string; Null stands for a nil pointer.                 *)
(***************************************************************************)
EXTENDS Integers

CONSTANTS
  MaxRetries,   \* the values of max_retries that requests ask for
  Null          \* a nil pointer

Urls      == {"", "url"}
Methods   == {"", "GET", "POST"}
Commands  == {"", "command"}

\* Durations as requests write them, and what time.ParseDuration makes of them: 0
\* if it returns an error.
Backoffs  == {"", "soon", "-1s", "0s", "1s"}
Durations == {-1, 0, 1}
IsDuration(text)    == text \in {"-1s", "0s", "1s"}
ParseDuration(text) == IF text = "-1s" THEN -1 ELSE IF text = "1s" THEN 1 ELSE 0
DurationString(d)   == IF d = -1 THEN "-1s" ELSE IF d = 0 THEN "0s" ELSE "1s"

RetryRequests == [max_retries : MaxRetries, backoff : Backoffs]
RetryPolicies == [max_retries : Int, backoff : Durations]

\* A pointer that is nil is none that points to something.
ASSUME TaskAssumption ==
  /\ MaxRetries \subseteq Int
  /\ Null \notin RetryPolicies
  /\ Null \notin [max_retries : Int, backoff : Backoffs]
  /\ Null \notin [url : Urls, method : Methods]
  /\ Null \notin [command : Commands]

SaveRequests ==
  [executor_type : {"http", "shell", "ftp"}, url : Urls, method : {"", "POST"},
   command : Commands, policy : {"", "Allow", "Forbid", "Never"},
   retry : RetryRequests \cup {Null}]

Jobs ==
  [executor_type : {"http", "shell"}, url : Urls, method : Methods, command : Commands,
   policy : {"Allow", "Forbid"}, retry : RetryPolicies \cup {Null}]

VARIABLES
  stage,      \* how far the job has come
  req,        \* the request
  stored,     \* the job in etcd
  task,       \* the message to the worker
  job,        \* the worker's job
  attempts,   \* the number of attempts of the executor
  ending      \* how the last attempt ended

vars == <<stage, req, stored, task, job, attempts, ending>>

Stages == {"received", "panicked", "status400", "status500", "saved", "not_sent", "sent", "not_accepted",
           "attempting", "success", "failed"}

Init ==
  /\ stage    = "received"
  /\ req      \in SaveRequests
  /\ stored   = Null
  /\ task     = Null
  /\ job      = Null
  /\ attempts = 0
  /\ ending   = "none"

-----------------------------------------------------------------------------
(* The request *)

\* The tag "dive" of the retry policy asks the validator to go through the elements
\* of a slice or a map, and it panics on anything else, a pointer to a struct that
\* is not nil included, whatever the other fields hold.
Dives(r) == r.retry # Null

\* The other tags of SaveJobRequest.  They do not look into the executor.
Accepted(r) ==
  /\ r.executor_type \in {"http", "shell"}
  /\ r.policy \in {"", "Allow", "Forbid"}

\* SaveJobRequest.ToDomainJob: the executor keeps the fields of its type only.
ToDomainJob(r) ==
  LET http == r.executor_type = "http" IN
  [executor_type |-> r.executor_type,
   url     |-> IF http THEN r.url ELSE "",
   method  |-> IF ~http THEN "" ELSE IF r.method = "" THEN "GET" ELSE r.method,
   command |-> IF http THEN "" ELSE r.command,
   policy  |-> IF r.policy = "" THEN "Allow" ELSE r.policy,
   retry   |-> IF r.retry = Null THEN Null
               ELSE [max_retries |-> r.retry.max_retries,
                     backoff     |-> ParseDuration(r.retry.backoff)]]

\* Faulty variant of Valid: commands are not looked at.
ValidUrl(j) == j.executor_type = "http" => j.url # ""

\* Job.Validate: what it refuses, and the defaults that it sets.
Valid(j) ==
  /\ j.executor_type = "http"  => j.url # ""
  /\ j.executor_type = "shell" => j.command # ""

Validated(j) ==
  [j EXCEPT !.method = IF j.executor_type = "http" /\ @ = "" THEN "GET" ELSE @,
            !.policy = IF @ = "" THEN "Allow" ELSE @]

\* Validate panics in the handler.  net/http recovers and closes the connection
\* without an answer; the job is not saved.
ValidatorPanics ==
  /\ stage = "received"
  /\ Dives(req)
  /\ stage' = "panicked"
  /\ UNCHANGED <<req, stored, task, job, attempts, ending>>

\* The handler refuses the request, or JobService.Save does, or the job is stored.
Refuse ==
  /\ stage = "received"
  /\ ~Dives(req) /\ ~Accepted(req)
  /\ stage' = "status400"
  /\ UNCHANGED <<req, stored, task, job, attempts, ending>>

RefuseJob ==
  /\ stage = "received"
  /\ ~Dives(req) /\ Accepted(req)
  /\ ~Valid(ToDomainJob(req))
  /\ stage' = "status500"
  /\ UNCHANGED <<req, stored, task, job, attempts, ending>>

Save ==
  /\ stage = "received"
  /\ ~Dives(req) /\ Accepted(req)
  /\ Valid(ToDomainJob(req))
  /\ stored' = Validated(ToDomainJob(req))
  /\ stage'  = "saved"
  /\ UNCHANGED <<req, task, job, attempts, ending>>

-----------------------------------------------------------------------------
(* The task *)

\* Dispatcher.domainToProto: one message per type of executor, the backoff as text.
DomainToProto(j) ==
  [executor_type  |-> j.executor_type,
   http_executor  |-> IF j.executor_type = "http"
                      THEN [url |-> j.url, method |-> j.method] ELSE Null,
   shell_executor |-> IF j.executor_type = "shell" THEN [command |-> j.command] ELSE Null,
   policy         |-> j.policy,
   retry          |-> IF j.retry = Null THEN Null
                      ELSE [max_retries |-> j.retry.max_retries,
                            backoff     |-> DurationString(j.retry.backoff)]]

\* Server.protoToDomain: what it does not refuse.
Decodable(t) ==
  /\ t.executor_type \in {"http", "shell"}
  /\ t.executor_type = "http"  => t.http_executor # Null
  /\ t.executor_type = "shell" => t.shell_executor # Null
  /\ t.retry # Null => IsDuration(t.retry.backoff)

\* Server.protoToDomain: the job that it makes.
ProtoToDomain(t) ==
  LET http == t.executor_type = "http" IN
  [executor_type |-> t.executor_type,
   url     |-> IF http THEN t.http_executor.url ELSE "",
   method  |-> IF http THEN t.http_executor.method ELSE "",
   command |-> IF http THEN "" ELSE t.shell_executor.command,
   policy  |-> t.policy,
   retry   |-> IF t.retry = Null THEN Null
               ELSE [max_retries |-> t.retry.max_retries,
                     backoff     |-> ParseDuration(t.retry.backoff)]]

Retries(j)    == j.retry # Null /\ j.retry.max_retries # 0

\* The loop of a negative number of retries is not entered.
NoAttempt(j) == j.executor_type = "http" /\ Retries(j) /\ j.retry.max_retries < 0

\* A master triggers the job and sends it.
Dispatch ==
  /\ stage = "saved"
  /\ stage' = IF stored.executor_type \in {"http", "shell"} THEN "sent" ELSE "not_sent"
  /\ task'  = DomainToProto(stored)
  /\ UNCHANGED <<req, stored, job, attempts, ending>>

\* The worker takes the task, or answers with an error that the master ignores.
ExecuteTask ==
  /\ stage = "sent"
  /\ IF Decodable(task)
     THEN /\ job'   = ProtoToDomain(task)
          /\ stage' = IF NoAttempt(job') THEN "failed" ELSE "attempting"
     ELSE stage' = "not_accepted" /\ UNCHANGED job
  /\ UNCHANGED <<req, stored, task, attempts, ending>>

-----------------------------------------------------------------------------
(* The executors *)

\* How doExecute can end: it cannot make the request, the request fails or times
\* out, or there is an answer.
HttpEndings   == {"invalid", "refused", "timeout", "4xx", "5xx", "ok"}
Retriable(e)  == e \in {"timeout", "5xx"}

\* Faulty variant of HttpAttempt: a transient error waits for a retry, whether there
\* is one or not.
HttpAttemptThenWait(e) ==
  /\ stage = "attempting"
  /\ job.executor_type = "http"
  /\ attempts' = attempts + 1
  /\ ending'   = e
  /\ stage'    = IF e = "ok" THEN "success" ELSE IF Retriable(e) THEN "waiting" ELSE "failed"
  /\ UNCHANGED <<req, stored, task, job>>

\* httpTaskExecutor.Execute, one attempt.  Without retries its outcome is final; in
\* the loop a retriable error is not, unless the attempt was the last.
HttpAttempt(e) ==
  /\ stage = "attempting"
  /\ job.executor_type = "http"
  /\ attempts' = attempts + 1
  /\ ending'   = e
  /\ stage'    = IF e = "ok" THEN "success"
                 ELSE IF Retriable(e) /\ Retries(job) /\ attempts < job.retry.max_retries
                 THEN "attempting"
                 ELSE "failed"
  /\ UNCHANGED <<req, stored, task, job>>

\* shellTaskExecutor.Execute: one command, once: the retry policy is not looked at.
ShellAttempt(e) ==
  /\ stage = "attempting"
  /\ job.executor_type = "shell"
  /\ attempts' = attempts + 1
  /\ ending'   = e
  /\ stage'    = IF e = "ok" THEN "success" ELSE "failed"
  /\ UNCHANGED <<req, stored, task, job>>

-----------------------------------------------------------------------------
Next ==
  \/ ValidatorPanics
  \/ Refuse
  \/ RefuseJob
  \/ Save
  \/ Dispatch
  \/ ExecuteTask
  \/ \E e \in HttpEndings : HttpAttempt(e)
  \/ \E e \in {"ok", "exit"} : ShellAttempt(e)

Spec == Init /\ [][Next]_vars

-----------------------------------------------------------------------------
(* Properties *)

TypeOK ==
  /\ stage    \in Stages
  /\ req      \in SaveRequests
  /\ stored   \in Jobs \cup {Null}
  /\ job      \in Jobs \cup {Null}
  /\ attempts \in Nat
  /\ ending   \in HttpEndings \cup {"exit", "none"}

\* What is stored can be run: no request gets past the handler and JobService.Save
\* that a dispatcher, a worker or an executor would find incomplete.
StoredJobsAreRunnable ==
  /\ stage \notin {"not_sent", "not_accepted"}
  /\ stored # Null =>
       /\ stored.executor_type = "http"  => stored.url # "" /\ stored.method # ""
       /\ stored.executor_type = "shell" => stored.command # ""
=============================================================================
