-------------------------- MODULE ExecutionHistory ---------------------------
(***************************************************************************)
(* The history of one job, and how it is read: Save and ListByJobName      *)
(* (internal/infra/etcd/etcd_execution_repository.go) with the page that   *)
(* handleGetJobHistory asks for (internal/api/http/job_handler.go).        *)
(*                                                                         *)
(* Workers save each execution twice, as it starts and as it ends, while a  *)
(* client reads page after page until one is not full.  Etcd sorts by the   *)
(* create revision, so a record is its place in the order of creation.      *)
(***************************************************************************)
EXTENDS Integers, Sequences, FiniteSets

CONSTANTS
  Exec,          \* the executions of the job
  IntMax,        \* the greatest int
  DefaultSize,   \* the page size if none or no proper one is asked for: 20
  MaxSize,       \* the greatest page size: 100
  Numbers        \* the numbers that requests ask for; 0 stands for all below 1

ASSUME SizeAssumption ==
  /\ DefaultSize \in 1..MaxSize
  /\ MaxSize \in 1..IntMax
  /\ IntMax \in Nat
  /\ Numbers \subseteq Nat

\* An int counts all executions of a job, and two pages more.
ASSUME HistoryAssumption ==
  /\ IsFiniteSet(Exec)
  /\ Cardinality(Exec) + 2 * MaxSize <= IntMax + 1

VARIABLES
  history,   \* the executions with a record, in the order of creation
  saves,     \* saves[e]: how often e's record was saved
  size,      \* the page size that the client has asked for, or 0 if it does not read
  page,      \* the page that it reads next
  begun,     \* history: the executions whose record was there when it began
  seen       \* the executions that it has seen

readVars == <<size, page, begun, seen>>
vars == <<history, saves, readVars>>

Stored == {history[i] : i \in DOMAIN history}

Init ==
  /\ history = <<>>
  /\ saves   = [e \in Exec |-> 0]
  /\ size    = 0
  /\ page    = 1
  /\ begun   = {}
  /\ seen    = {}

-----------------------------------------------------------------------------
(* One page *)

\* int arithmetic wraps around.
Wrap(n) == ((n + IntMax + 1) % (2 * (IntMax + 1))) - (IntMax + 1)

\* strconv.Atoi, whose error is ignored: 0 if there is no number, and the greatest
\* int if it is too large.
Atoi(n) == IF n > IntMax THEN IntMax ELSE n

\* What handleGetJobHistory makes of the parameters page and pageSize.
PageOf(n)     == IF Atoi(n) < 1 THEN 1 ELSE Atoi(n)
PageSizeOf(n) == IF Atoi(n) \in 1..MaxSize THEN Atoi(n) ELSE DefaultSize

\* Faulty variant of StartIdx: pages are counted from 0.
StartIdxFromZero(p, s) == Wrap(p * s)

StartIdx(p, s) == Wrap(Wrap(p - 1) * s)

\* ListByJobName: of the records, newest first and counted from 0, those from
\* startIdx to before endIdx.
ListByJobName(p, s) ==
  LET start  == StartIdx(p, s)
      end    == Wrap(start + s)
      newest == [i \in DOMAIN history |-> history[Len(history) + 1 - i]]
      first  == IF start < 0 THEN 1 ELSE start + 1
      last   == IF end > Len(history) THEN Len(history) ELSE end
  IN  SubSeq(newest, first, last)

-----------------------------------------------------------------------------
(* Workers and a client *)

\* Faulty variant of Save: the record is put anew, or sorted by its modification.
SaveAnew(e) ==
  /\ saves[e] < 2
  /\ saves'   = [saves EXCEPT ![e] = @ + 1]
  /\ history' = Append(SelectSeq(history, LAMBDA f : f # e), e)
  /\ UNCHANGED readVars

\* A put of e's record, as it starts to run or as it ends: the first one that
\* is applied creates the key, the other changes its value.
Save(e) ==
  /\ saves[e] < 2
  /\ saves'   = [saves EXCEPT ![e] = @ + 1]
  /\ history' = IF e \in Stored THEN history ELSE Append(history, e)
  /\ UNCHANGED readVars

\* A put is lost.
SaveFails(e) ==
  /\ saves[e] < 2
  /\ saves' = [saves EXCEPT ![e] = @ + 1]
  /\ UNCHANGED <<history, readVars>>

\* A client starts to read the history from its first page.
BeginReading ==
  /\ size = 0
  /\ \E n \in Numbers : size' = PageSizeOf(n)
  /\ page'  = 1
  /\ begun' = Stored
  /\ seen'  = {}
  /\ UNCHANGED <<history, saves>>

Page == ListByJobName(PageOf(page), size)

\* It reads a page that is full, and will read the next one.
ReadPage ==
  /\ size > 0
  /\ Len(Page) = size
  /\ seen' = seen \cup {Page[i] : i \in DOMAIN Page}
  /\ page' = page + 1
  /\ UNCHANGED <<history, saves, size, begun>>

\* It reads a page that is not full: the last one.
ReadLastPage ==
  /\ size > 0
  /\ Len(Page) < size
  /\ seen' = seen \cup {Page[i] : i \in DOMAIN Page}
  /\ size' = 0
  /\ UNCHANGED <<history, saves, page, begun>>

Next ==
  \/ \E e \in Exec : Save(e)
  \/ \E e \in Exec : SaveFails(e)
  \/ BeginReading
  \/ ReadPage
  \/ ReadLastPage

Spec == Init /\ [][Next]_vars

-----------------------------------------------------------------------------
(* Properties *)

\* The reference: the records of the p-th page of size s, newest first, none
\* beyond the oldest.
PageSlice(p, s) ==
  LET N == Len(history)
      n == IF p * s <= N THEN s ELSE IF (p - 1) * s >= N THEN 0 ELSE N - (p - 1) * s
  IN  [i \in 1..n |-> history[N + 1 - ((p - 1) * s + i)]]

Overflows(p, s) == (p - 1) * s + s > IntMax

\* A page holds the records that its number and size say, and a page beyond the
\* oldest record none, for all parameters of a request whose product does not
\* overflow, and for those too large for an int as well.
PagesAreSlices ==
  \A n, k \in Numbers :
    LET p == PageOf(n)
        s == PageSizeOf(k)
    IN  ~Overflows(p, s) \/ n > IntMax => ListByJobName(p, s) = PageSlice(p, s)

\* A client that has read all pages has seen every record that was there when it
\* began, although executions were recorded and finished meanwhile.
NoRecordSkipped == size = 0 => begun \subseteq seen
=============================================================================
