----------------------- MODULE ExecutionHistory_proofs ------------------------
(***************************************************************************)
(* Proofs about ExecutionHistory.                                          *)
(*                                                                         *)
(* The history is short enough for an int to count it, so the page that a  *)
(* client reads next never overflows (NextPage), and what Save appends is  *)
(* behind none of the pages read (Reading).  The greatest page, whose      *)
(* product does overflow, is empty all the same (GreatestPageIsEmpty).     *)
(***************************************************************************)
EXTENDS ExecutionHistory, FiniteSetTheorems, SequenceTheorems, TLAPS

-----------------------------------------------------------------------------
(* The history *)

HistoryTypeOK ==
  /\ history \in Seq(Exec)
  /\ saves   \in [Exec -> Nat]
  /\ size    \in 0..MaxSize
  /\ page    \in Nat \ {0}
  /\ begun   \in SUBSET Exec
  /\ seen    \in SUBSET Exec

\* An execution has one record, however often it is saved.
OneRecord == \A i, j \in DOMAIN history : history[i] = history[j] => i = j

\* There are not more records than executions.
LEMMA HistoryIsShort ==
  ASSUME HistoryTypeOK, OneRecord
  PROVE  /\ Len(history) \in Nat
         /\ Len(history) + 2 * MaxSize <= IntMax + 1
         /\ MaxSize \in Nat /\ IntMax \in Nat
<1>1. Len(history) \in Nat /\ DOMAIN history = 1..Len(history)
      /\ history \in [1..Len(history) -> Exec]
  BY DEF HistoryTypeOK
<1>2. Cardinality(1..Len(history)) = Len(history) /\ IsFiniteSet(1..Len(history))
  BY <1>1, FS_Interval
<1>3. history \in Injection(1..Len(history), Exec)
  BY <1>1 DEF Injection, IsInjective, OneRecord
<1>4. Cardinality(1..Len(history)) <= Cardinality(Exec)
  BY <1>3, HistoryAssumption, FS_Injection DEF ExistsInjection
<1>5. Cardinality(Exec) \in Nat
  BY HistoryAssumption, FS_CardinalityType
<1> QED
  BY <1>1, <1>2, <1>4, <1>5, HistoryAssumption, SizeAssumption

-----------------------------------------------------------------------------
(* One page *)

\* An int that does not overflow is what it should be.
LEMMA WrapIsIdentity ==
  ASSUME NEW n \in Int, -(IntMax + 1) <= n, n <= IntMax
  PROVE  Wrap(n) = n
<1>1. IntMax \in Nat
  BY SizeAssumption
<1>2. (n + IntMax + 1) % (2 * (IntMax + 1)) = n + IntMax + 1
  BY <1>1
<1> QED
  BY <1>1, <1>2 DEF Wrap

\* The records from start on, newest first and counted from 0, up to before end.
Records(start, end) ==
  LET newest == [i \in DOMAIN history |-> history[Len(history) + 1 - i]]
      first  == IF start < 0 THEN 1 ELSE start + 1
      last   == IF end > Len(history) THEN Len(history) ELSE end
  IN  SubSeq(newest, first, last)

\* How many records a page holds.
PageLen(p, s) ==
  IF p * s <= Len(history) THEN s
  ELSE IF (p - 1) * s >= Len(history) THEN 0 ELSE Len(history) - (p - 1) * s

\* The records, newest first.
Newest == [i \in DOMAIN history |-> history[Len(history) + 1 - i]]

\* Every record is among the newest first ones, at its place from the end.
LEMMA NewestValues ==
  ASSUME HistoryTypeOK
  PROVE  /\ Len(history) \in Nat /\ DOMAIN history = 1..Len(history)
         /\ \A i \in 1..Len(history) : /\ Len(history) + 1 - i \in 1..Len(history)
                                       /\ Newest[i] = history[Len(history) + 1 - i]
                                       /\ Newest[i] \in Exec
<1>1. Len(history) \in Nat /\ DOMAIN history = 1..Len(history)
      /\ \A i \in 1..Len(history) : history[i] \in Exec
  BY DEF HistoryTypeOK
<1>2. \A i \in 1..Len(history) : Len(history) + 1 - i \in 1..Len(history)
  BY <1>1
<1>3. \A i \in 1..Len(history) : Newest[i] = history[Len(history) + 1 - i]
  BY <1>1 DEF Newest
<1> QED
  BY <1>1, <1>2, <1>3

\* What a SubSeq of the records holds.
LEMMA NewestSubSeq ==
  ASSUME HistoryTypeOK, NEW q \in Nat, NEW last \in Nat, last <= Len(history),
         NEW n \in Nat, n = IF q < last THEN last - q ELSE 0
  PROVE  SubSeq(Newest, q + 1, last) = [i \in 1..n |-> history[Len(history) + 1 - (q + i)]]
<1> DEFINE N == Len(history)
           slice == [i \in 1..n |-> history[N + 1 - (q + i)]]
<1>1. N \in Nat /\ \A i \in 1..N : Newest[i] = history[N + 1 - i] /\ Newest[i] \in Exec
  BY NewestValues
<1>2. last <= N
  OBVIOUS
<1>3. slice = [i \in 1..n |-> history[N + 1 - (q + i)]]
  OBVIOUS
<1> HIDE DEF N, slice
<1>4. \A i \in q + 1..last : Newest[i] \in Exec
  BY <1>1, <1>2
<1> DEFINE sub == SubSeq(Newest, q + 1, last)
<1>5. /\ sub \in Seq(Exec)
      /\ Len(sub) = IF q + 1 <= last THEN last - (q + 1) + 1 ELSE 0
      /\ \A i \in 1..last - (q + 1) + 1 : sub[i] = Newest[q + 1 + i - 1]
  BY <1>4, SubSeqProperties
<1> HIDE DEF sub
<1>6. sub \in Seq(Exec) /\ Len(sub) = n
  BY <1>5
<1>7. \A i \in 1..n : sub[i] = history[N + 1 - (q + i)]
  <2> SUFFICES ASSUME NEW i \in 1..n PROVE sub[i] = history[N + 1 - (q + i)]
    OBVIOUS
  <2>1. i \in 1..last - (q + 1) + 1 /\ q + 1 + i - 1 = q + i /\ q + i \in 1..N
    BY <1>1, <1>2
  <2> QED
    BY <1>1, <1>5, <2>1
<1>8. sub \in [1..n -> Exec]
  BY <1>6
<1>9. sub = slice
  BY <1>3, <1>7, <1>8
<1> QED
  BY <1>9 DEF sub, slice, N

\* The records of a range are the slice of the history that begins q records before
\* the newest one.
LEMMA RecordsAreSlice ==
  ASSUME HistoryTypeOK, NEW q \in Nat, NEW s \in Nat \ {0}, NEW n \in Nat,
         n = IF q + s <= Len(history) THEN s
             ELSE IF q >= Len(history) THEN 0 ELSE Len(history) - q
  PROVE  Records(q, q + s) = [i \in 1..n |-> history[Len(history) + 1 - (q + i)]]
<1>1. Len(history) \in Nat
  BY NewestValues
<1>2. PICK last \in Nat : last = IF q + s > Len(history) THEN Len(history) ELSE q + s
  BY <1>1
<1>3. ~(q < 0)
  OBVIOUS
<1>4. Records(q, q + s) = SubSeq(Newest, q + 1, last)
  BY <1>2, <1>3 DEF Records, Newest
<1>5. last <= Len(history) /\ n = IF q < last THEN last - q ELSE 0
  BY <1>1, <1>2
<1> QED
  BY <1>4, <1>5, NewestSubSeq

\* A page whose records an int can count is the slice that its number and size say.
LEMMA PageIsSlice ==
  ASSUME HistoryTypeOK, OneRecord, NEW p \in 1..IntMax, NEW s \in 1..MaxSize, ~Overflows(p, s)
  PROVE  /\ ListByJobName(p, s) = PageSlice(p, s)
         /\ PageLen(p, s) \in 0..s
         /\ PageSlice(p, s) \in Seq(Exec) /\ Len(PageSlice(p, s)) = PageLen(p, s)
         /\ \A i \in 1..PageLen(p, s) :
              PageSlice(p, s)[i] = history[Len(history) + 1 - ((p - 1) * s + i)]
<1> DEFINE q == (p - 1) * s
           N == Len(history)
<1>1. N \in Nat /\ IntMax \in Nat /\ MaxSize \in Nat /\ N <= IntMax
  BY HistoryIsShort
<1>2. q \in Nat /\ p * s = q + s /\ s \in Nat \ {0}
  BY <1>1
<1>3. q + s <= IntMax
  BY <1>1, <1>2 DEF Overflows
<1>4. Wrap(p - 1) = p - 1
  BY <1>1, WrapIsIdentity
<1> HIDE DEF q, N
<1>5. Wrap(q) = q /\ Wrap(q + s) = q + s
  BY <1>1, <1>2, <1>3, WrapIsIdentity
<1>6. StartIdx(p, s) = q
  BY <1>4, <1>5 DEF StartIdx, q
<1>7. ListByJobName(p, s) = Records(q, q + s)
  BY <1>5, <1>6 DEF ListByJobName, Records
<1>8. PageLen(p, s) = (IF q + s <= N THEN s ELSE IF q >= N THEN 0 ELSE N - q)
      /\ PageLen(p, s) \in 0..s
  BY <1>1, <1>2 DEF PageLen, N, q
<1>9. PageSlice(p, s) = [i \in 1..PageLen(p, s) |-> history[Len(history) + 1 - (q + i)]]
  BY DEF PageSlice, PageLen, q
<1>10. Records(q, q + s) = [i \in 1..PageLen(p, s) |-> history[Len(history) + 1 - (q + i)]]
  <2>1. PageLen(p, s) \in Nat
    BY <1>2, <1>8
  <2>2. PageLen(p, s) = IF q + s <= Len(history) THEN s
                       ELSE IF q >= Len(history) THEN 0 ELSE Len(history) - q
    BY <1>8 DEF N
  <2> QED
    BY <1>2, <2>1, <2>2, RecordsAreSlice
<1>11. PageSlice(p, s) \in Seq(Exec) /\ Len(PageSlice(p, s)) = PageLen(p, s)
  <2>1. \A i \in 1..PageLen(p, s) : N + 1 - (q + i) \in 1..N
    BY <1>1, <1>2, <1>8
  <2>2. \A i \in 1..PageLen(p, s) : history[N + 1 - (q + i)] \in Exec
    BY <2>1 DEF HistoryTypeOK, N
  <2> QED
    BY <1>8, <1>9, <2>2 DEF N
<1> QED
  BY <1>7, <1>8, <1>9, <1>10, <1>11 DEF q

\* The remainder of a product and a number below the divisor.
LEMMA RemainderOf ==
  ASSUME NEW a, NEW k \in Nat, NEW m \in Nat \ {0}, NEW r \in Nat, r < m, a = k * m + r
  PROVE  a % m = r
OBVIOUS

\* A number too large for an int asks for the greatest page.  Its first record is no int:
\* what the product wraps to is either below 0 by so much that the page ends
\* before the first record, or it is beyond the oldest one.
LEMMA GreatestPageIsEmpty ==
  ASSUME HistoryTypeOK, OneRecord, NEW s \in 1..MaxSize
  PROVE  ListByJobName(IntMax, s) = PageSlice(IntMax, s)
<1> DEFINE N == Len(history)
           M == IntMax + 1
<1>1. N \in Nat /\ M \in Nat /\ s \in Nat \ {0} /\ N + 2 * s <= M /\ IntMax = M - 1
  BY HistoryIsShort
<1> HIDE DEF N, M
<1>2. Wrap(IntMax - 1) = IntMax - 1
  BY <1>1, WrapIsIdentity
<1>3. PICK x \in Int : x = (IntMax - 1) * s /\ x = M * s - 2 * s
  BY <1>1
<1>4. StartIdx(IntMax, s) = ((x + M) % (2 * M)) - M
  <2>1. x + IntMax + 1 = x + M
    BY <1>1
  <2>2. Wrap(x) = ((x + M) % (2 * M)) - M
    BY <2>1 DEF Wrap, M
  <2> QED
    BY <1>2, <1>3, <2>2 DEF StartIdx
<1>5. PageSlice(IntMax, s) = [i \in 1..0 |-> history[N + 1 - ((IntMax - 1) * s + i)]]
  <2>1. (IntMax - 1) * s >= IntMax - 1 /\ IntMax * s >= IntMax
    BY <1>1
  <2>2. ~(IntMax * s <= N) /\ (IntMax - 1) * s >= N
    BY <1>1, <2>1
  <2> QED
    BY <2>2 DEF PageSlice, N
<1>6. PageSlice(IntMax, s) = <<>>
  <2>1. 1..0 = {}
    OBVIOUS
  <2> QED
    BY <1>5, <2>1
<1>7. CASE s % 2 = 0
  <2>1. PICK k \in Nat : s = 2 * k
    BY <1>1, <1>7
  <2>2. x + M = k * (2 * M) + (M - 2 * s) /\ 0 <= M - 2 * s /\ M - 2 * s < 2 * M
    BY <1>1, <1>3, <2>1
  <2>3. (x + M) % (2 * M) = M - 2 * s
    <3>1. PICK m \in Nat \ {0} : m = 2 * M
      BY <1>1
    <3>2. PICK r \in Nat : r = M - 2 * s
      BY <1>1
    <3>3. x + M = k * m + r /\ r < m
      BY <1>1, <2>2, <3>1, <3>2
    <3> QED
      BY <3>1, <3>2, <3>3, RemainderOf
  <2>4. StartIdx(IntMax, s) = -(2 * s)
    BY <1>1, <1>4, <2>3
  <2>5. Wrap(StartIdx(IntMax, s) + s) = -s
    <3>1. StartIdx(IntMax, s) + s = -s /\ -s \in Int /\ -(IntMax + 1) <= -s /\ -s <= IntMax
      BY <1>1, <2>4
    <3> QED
      BY <3>1, WrapIsIdentity
  <2>6. ListByJobName(IntMax, s) = SubSeq(Newest, 1, -s)
    <3>1. StartIdx(IntMax, s) < 0 /\ ~(-s > N)
      BY <1>1, <2>4
    <3> QED
      BY <2>5, <3>1 DEF ListByJobName, Newest, N
  <2>7. SubSeq(Newest, 1, -s) = <<>>
    <3>1. -s \in Int /\ -s < 1
      BY <1>1
    <3> QED
      BY <3>1, SubSeqEmpty
  <2> QED
    BY <1>6, <2>6, <2>7
<1>8. CASE s % 2 # 0
  <2>1. PICK k \in Nat : s = 2 * k + 1
    BY <1>1, <1>8
  <2>2. x + M = k * (2 * M) + (2 * M - 2 * s) /\ 0 <= 2 * M - 2 * s /\ 2 * M - 2 * s < 2 * M
    BY <1>1, <1>3, <2>1
  <2>3. (x + M) % (2 * M) = 2 * M - 2 * s
    <3>1. PICK m \in Nat \ {0} : m = 2 * M
      BY <1>1
    <3>2. PICK r \in Nat : r = 2 * M - 2 * s
      <4>1. 2 * M - 2 * s \in Nat
        BY <1>1
      <4> QED
        BY <4>1
    <3>3. x + M = k * m + r /\ r < m
      BY <1>1, <2>2, <3>1, <3>2
    <3> QED
      BY <3>1, <3>2, <3>3, RemainderOf
  <2>4. StartIdx(IntMax, s) = M - 2 * s
    BY <1>1, <1>4, <2>3
  <2>5. PICK q \in Nat : q = M - 2 * s /\ q >= N /\ q + s <= IntMax
    BY <1>1
  <2>6. Wrap(q + s) = q + s
    BY <1>1, <2>5, WrapIsIdentity
  <2>7. ListByJobName(IntMax, s) = Records(q, q + s)
    BY <2>4, <2>5, <2>6 DEF ListByJobName, Records
  <2>8. Records(q, q + s) = [i \in 1..0 |-> history[Len(history) + 1 - (q + i)]]
    <3>1. ~(q + s <= Len(history)) /\ q >= Len(history)
      BY <1>1, <2>5 DEF N
    <3> QED
      BY <1>1, <3>1, RecordsAreSlice
  <2>9. Records(q, q + s) = <<>>
    <3>1. 1..0 = {}
      OBVIOUS
    <3> QED
      BY <2>8, <3>1
  <2> QED
    BY <1>6, <2>7, <2>9
<1> QED
  BY <1>7, <1>8

\* What a request may ask for.
LEMMA Parameters ==
  ASSUME NEW n \in Numbers
  PROVE  /\ PageOf(n) \in 1..IntMax /\ PageSizeOf(n) \in 1..MaxSize
         /\ n > IntMax => PageOf(n) = IntMax
<1>1. n \in Nat /\ IntMax \in Nat /\ MaxSize \in 1..IntMax /\ DefaultSize \in 1..MaxSize
  BY SizeAssumption
<1>2. Atoi(n) \in 0..IntMax /\ (n > IntMax => Atoi(n) = IntMax)
  BY <1>1 DEF Atoi
<1> QED
  BY <1>1, <1>2 DEF PageOf, PageSizeOf

\* All pages that requests may ask for are the slices of the history that they say.
LEMMA SlicesOfPages ==
  ASSUME HistoryTypeOK, OneRecord
  PROVE  PagesAreSlices
<1> SUFFICES ASSUME NEW n \in Numbers, NEW k \in Numbers,
                    ~Overflows(PageOf(n), PageSizeOf(k)) \/ n > IntMax
             PROVE  ListByJobName(PageOf(n), PageSizeOf(k)) = PageSlice(PageOf(n), PageSizeOf(k))
  BY DEF PagesAreSlices
<1>1. PageOf(n) \in 1..IntMax /\ PageSizeOf(k) \in 1..MaxSize
  BY Parameters
<1>2. CASE ~Overflows(PageOf(n), PageSizeOf(k))
  BY <1>1, <1>2, PageIsSlice
<1>3. CASE n > IntMax
  BY <1>1, <1>3, Parameters, GreatestPageIsEmpty
<1> QED
  BY <1>2, <1>3

-----------------------------------------------------------------------------
(* Reading *)

\* What has been read and what has not: of the records that were there when the client began,
\* those not seen yet are behind the pages read so far, newest first; records
\* created meanwhile push them only further back, and never ahead of the client.
Reading ==
  /\ begun \subseteq Stored
  /\ size = 0 => begun \subseteq seen
  /\ size > 0 =>
       /\ (page - 1) * size <= Len(history)
       /\ \A i \in DOMAIN history :
            history[i] \in begun => \/ history[i] \in seen
                                    \/ Len(history) - i >= (page - 1) * size

HistoryIInv ==
  /\ HistoryTypeOK
  /\ OneRecord
  /\ Reading

InPage == {Page[i] : i \in DOMAIN Page}

\* The page that a client reads next holds all records from the end of the previous page to
\* its own end; if it is not full, it ends at the oldest record.
LEMMA NextPage ==
  ASSUME HistoryIInv, size > 0
  PROVE  /\ InPage \subseteq Exec
         /\ Len(Page) = size => page * size <= Len(history)
         /\ Len(Page) < size => Len(history) < page * size
         /\ \A i \in DOMAIN history :
              /\ Len(history) - i >= (page - 1) * size
              /\ Len(history) - i < page * size
              => history[i] \in InPage
<1> DEFINE N == Len(history)
<1>1. /\ N \in Nat /\ MaxSize \in Nat /\ IntMax \in Nat /\ N + 2 * MaxSize <= IntMax + 1
      /\ DOMAIN history = 1..N
  BY HistoryIsShort, NewestValues DEF HistoryIInv
<1>2. page \in Nat \ {0} /\ size \in 1..MaxSize /\ (page - 1) * size <= N
  BY <1>1 DEF HistoryIInv, HistoryTypeOK, Reading
<1> HIDE DEF N
<1>3. PICK q \in Nat : q = (page - 1) * size /\ page * size = q + size /\ page - 1 <= q
  BY <1>1, <1>2
<1>4. page \in 1..IntMax /\ PageOf(page) = page
  BY <1>1, <1>2, <1>3 DEF PageOf, Atoi
<1>5. ~Overflows(page, size)
  BY <1>1, <1>2, <1>3 DEF Overflows
<1>6. /\ Page = PageSlice(page, size)
      /\ PageLen(page, size) \in 0..size
      /\ Page \in Seq(Exec) /\ Len(Page) = PageLen(page, size)
      /\ \A i \in 1..PageLen(page, size) : Page[i] = history[N + 1 - (q + i)]
  BY <1>2, <1>3, <1>4, <1>5, PageIsSlice DEF Page, HistoryIInv, N
<1>7. DOMAIN Page = 1..Len(Page) /\ \A i \in DOMAIN Page : Page[i] \in Exec
  BY <1>6
<1>8. Len(Page) = IF q + size <= N THEN size ELSE IF q >= N THEN 0 ELSE N - q
  BY <1>3, <1>6 DEF PageLen, N
<1>9. InPage \subseteq Exec
  BY <1>7 DEF InPage
<1>10. Len(Page) = size => page * size <= N
  BY <1>1, <1>2, <1>3, <1>8
<1>11. Len(Page) < size => N < page * size
  BY <1>1, <1>2, <1>3, <1>8
<1>12. ASSUME NEW i \in 1..N, N - i >= q, N - i < q + size
       PROVE  history[i] \in InPage
  <2>1. PICK j \in Nat : j = N - i - q + 1
    BY <1>1, <1>12
  <2>2. j \in 1..Len(Page) /\ N + 1 - (q + j) = i
    BY <1>1, <1>2, <1>8, <1>12, <2>1
  <2>3. Page[j] = history[i]
    BY <1>6, <2>2
  <2> QED
    BY <1>7, <2>2, <2>3 DEF InPage
<1> QED
  BY <1>1, <1>3, <1>9, <1>10, <1>11, <1>12 DEF N

\* Without records nobody reads.
LEMMA HistoryInit == Init => HistoryIInv
<1> SUFFICES ASSUME Init PROVE HistoryIInv
  OBVIOUS
<1>1. history = <<>> /\ Len(history) = 0 /\ history \in Seq(Exec) /\ DOMAIN history = 1..0
  BY EmptySeq DEF Init
<1>2. HistoryTypeOK
  BY <1>1, SizeAssumption DEF Init, HistoryTypeOK
<1>3. OneRecord
  BY <1>1 DEF OneRecord
<1>4. Reading
  BY DEF Init, Reading
<1> QED
  BY <1>2, <1>3, <1>4 DEF HistoryIInv

\* The first put of a record appends it, another one changes no place.
LEMMA SaveKeeps ==
  ASSUME HistoryIInv, NEW e \in Exec, Save(e)
  PROVE  HistoryIInv'
<1>1. saves' \in [Exec -> Nat]
  BY DEF Save, HistoryIInv, HistoryTypeOK
<1>2. UNCHANGED <<size, page, begun, seen>>
  BY DEF Save, readVars
<1>3. CASE e \in Stored
  <2>1. history' = history
    BY <1>3 DEF Save
  <2>2. HistoryTypeOK'
    BY <1>1, <1>2, <2>1 DEF HistoryIInv, HistoryTypeOK
  <2>3. OneRecord' /\ Reading'
    BY <1>2, <2>1 DEF HistoryIInv, OneRecord, Reading, Stored
  <2> QED
    BY <2>2, <2>3 DEF HistoryIInv
<1>4. CASE e \notin Stored
  <2> DEFINE N == Len(history)
  <2>1. history \in Seq(Exec) /\ N \in Nat /\ DOMAIN history = 1..N
    BY NewestValues DEF HistoryIInv, HistoryTypeOK
  <2>2. history' = Append(history, e)
    BY <1>4 DEF Save
  <2>3. /\ history' \in Seq(Exec) /\ Len(history') = N + 1
        /\ \A i \in 1..N : history'[i] = history[i]
        /\ history'[N + 1] = e
    BY <2>1, <2>2, AppendProperties
  <2>4. DOMAIN history' = 1..N + 1
    BY <2>3
  <2>5. \A i \in 1..N : history[i] \in Stored /\ history[i] # e
    BY <1>4, <2>1 DEF Stored
  <2> HIDE DEF N
  <2>6. \A i \in 1..N + 1 : i \in 1..N \/ i = N + 1
    BY <2>1
  <2>7. HistoryTypeOK'
    BY <1>1, <1>2, <2>3 DEF HistoryIInv, HistoryTypeOK
  <2>8. OneRecord'
    BY <2>1, <2>3, <2>4, <2>5, <2>6 DEF HistoryIInv, OneRecord
  <2>9. Stored \subseteq Stored'
    BY <2>1, <2>3, <2>4 DEF Stored
  <2>10. ASSUME size > 0
         PROVE  /\ (page - 1) * size <= N + 1
                /\ \A i \in 1..N + 1 :
                     history'[i] \in begun => \/ history'[i] \in seen
                                              \/ N + 1 - i >= (page - 1) * size
    <3>1. PICK q \in Int : q = (page - 1) * size
      BY DEF HistoryIInv, HistoryTypeOK
    <3>2. q <= N /\ \A i \in 1..N : history[i] \in begun => history[i] \in seen \/ N - i >= q
      BY <2>1, <2>10, <3>1 DEF HistoryIInv, Reading, N
    <3>3. e \notin begun
      BY <1>4 DEF HistoryIInv, Reading
    <3> QED
      BY <2>1, <2>3, <2>6, <3>1, <3>2, <3>3
  <2>11. Reading'
    <3>1. begun' \subseteq Stored' /\ (size' = 0 => begun' \subseteq seen')
      BY <1>2, <2>9 DEF HistoryIInv, Reading
    <3>2. ASSUME size' > 0
          PROVE  /\ (page' - 1) * size' <= Len(history')
                 /\ \A i \in DOMAIN history' :
                      history'[i] \in begun' => \/ history'[i] \in seen'
                                               \/ Len(history') - i >= (page' - 1) * size'
      <4> DEFINE q == (page - 1) * size
      <4>1. size > 0
        BY <1>2, <3>2
      <4>2. q <= N + 1 /\ \A i \in 1..N + 1 :
                            history'[i] \in begun => history'[i] \in seen \/ N + 1 - i >= q
        BY <2>10, <4>1
      <4>3. (page' - 1) * size' = q /\ begun' = begun /\ seen' = seen
        BY <1>2
      <4> q \in Int
        BY DEF HistoryIInv, HistoryTypeOK
      <4> HIDE DEF q
      <4>4. Len(history') = N + 1 /\ DOMAIN history' = 1..N + 1
        BY <2>3, <2>4
      <4>5. (page' - 1) * size' <= Len(history')
        BY <4>2, <4>3, <4>4
      <4>6. ASSUME NEW i \in DOMAIN history', history'[i] \in begun', history'[i] \notin seen'
            PROVE  Len(history') - i >= (page' - 1) * size'
        <5>1. i \in 1..N + 1 /\ history'[i] \in begun /\ history'[i] \notin seen
          BY <4>3, <4>4, <4>6
        <5>2. N + 1 - i >= q
          BY <4>2, <5>1
        <5> QED
          BY <2>1, <4>3, <4>4, <5>1, <5>2
      <4> QED
        BY <4>5, <4>6
    <3> QED
      BY <3>1, <3>2 DEF Reading
  <2> QED
    BY <2>7, <2>8, <2>11 DEF HistoryIInv
<1> QED
  BY <1>3, <1>4

\* A client that begins has read nothing, and all is behind its first page.
LEMMA BeginReadingKeeps ==
  ASSUME HistoryIInv, BeginReading
  PROVE  HistoryIInv'
<1>1. PICK n \in Numbers : size' = PageSizeOf(n)
  BY DEF BeginReading
<1>2. size' \in 1..MaxSize /\ MaxSize \in Nat /\ size' \in Nat \ {0} /\ size' \in 0..MaxSize
  BY <1>1, Parameters, SizeAssumption
<1>3. page' = 1 /\ begun' = Stored /\ seen' = {} /\ history' = history /\ saves' = saves
  BY DEF BeginReading
<1>4. Len(history) \in Nat /\ DOMAIN history = 1..Len(history) /\ \A i \in DOMAIN history : history[i] \in Exec
  BY NewestValues DEF HistoryIInv, HistoryTypeOK
<1>5. HistoryTypeOK'
  BY <1>2, <1>3, <1>4 DEF HistoryIInv, HistoryTypeOK, Stored
<1>6. OneRecord'
  BY <1>3 DEF HistoryIInv, OneRecord
<1>7. (page' - 1) * size' = 0
  <2>1. \A m \in Nat : (1 - 1) * m = 0
    OBVIOUS
  <2>2. (1 - 1) * size' = 0
    BY <1>2, <2>1
  <2> QED
    BY <1>3, <2>2
<1>8. Stored' = Stored
  BY <1>3 DEF Stored
<1>9. Reading'
  BY <1>2, <1>3, <1>4, <1>7, <1>8 DEF Reading
<1> QED
  BY <1>5, <1>6, <1>9 DEF HistoryIInv

\* A full page, and the client goes on.
LEMMA ReadPageKeeps ==
  ASSUME HistoryIInv, ReadPage
  PROVE  HistoryIInv'
<1>1. /\ size > 0 /\ Len(Page) = size
      /\ seen' = seen \cup InPage
      /\ page' = page + 1
      /\ UNCHANGED <<history, saves, size, begun>>
  BY DEF ReadPage, InPage
<1>2. /\ InPage \subseteq Exec
      /\ page * size <= Len(history)
      /\ \A i \in DOMAIN history :
           Len(history) - i >= (page - 1) * size /\ Len(history) - i < page * size => history[i] \in InPage
  BY <1>1, NextPage
<1>3. HistoryTypeOK'
  BY <1>1, <1>2 DEF HistoryIInv, HistoryTypeOK
<1>4. OneRecord' /\ Stored' = Stored
  BY <1>1 DEF HistoryIInv, OneRecord, Stored
<1>5. page' - 1 = page
  BY <1>1 DEF HistoryIInv, HistoryTypeOK
<1>6. ASSUME NEW i \in DOMAIN history, history[i] \in begun, history[i] \notin seen'
      PROVE  Len(history) - i >= page * size
  <2>1. Len(history) - i >= (page - 1) * size
    BY <1>1, <1>6 DEF HistoryIInv, Reading
  <2>2. ~(Len(history) - i < page * size)
    BY <1>1, <1>2, <1>6, <2>1
  <2>3. Len(history) - i \in Int /\ page * size \in Int
    BY NewestValues DEF HistoryIInv, HistoryTypeOK
  <2> QED
    BY <2>2, <2>3
<1>7. Reading'
  BY <1>1, <1>2, <1>4, <1>5, <1>6 DEF HistoryIInv, Reading
<1> QED
  BY <1>3, <1>4, <1>7 DEF HistoryIInv

\* The last page, after which nothing that was there is left to see.
LEMMA ReadLastPageKeeps ==
  ASSUME HistoryIInv, ReadLastPage
  PROVE  HistoryIInv'
<1>1. /\ size > 0 /\ Len(Page) < size
      /\ seen' = seen \cup InPage
      /\ size' = 0
      /\ UNCHANGED <<history, saves, page, begun>>
  BY DEF ReadLastPage, InPage
<1>2. /\ InPage \subseteq Exec
      /\ Len(history) < page * size
      /\ \A i \in DOMAIN history :
           Len(history) - i >= (page - 1) * size /\ Len(history) - i < page * size => history[i] \in InPage
  BY <1>1, NextPage
<1>3. HistoryTypeOK'
  BY <1>1, <1>2, SizeAssumption DEF HistoryIInv, HistoryTypeOK
<1>4. OneRecord' /\ Stored' = Stored
  BY <1>1 DEF HistoryIInv, OneRecord, Stored
<1>5. ASSUME NEW e \in begun
      PROVE  e \in seen'
  <2>1. PICK i \in DOMAIN history : history[i] = e
    BY DEF HistoryIInv, Reading, Stored
  <2>2. e \in seen \/ Len(history) - i >= (page - 1) * size
    BY <1>1, <2>1 DEF HistoryIInv, Reading
  <2>3. Len(history) - i < page * size
    <3>1. Len(history) \in Nat /\ i \in 1..Len(history) /\ page * size \in Int
      BY NewestValues DEF HistoryIInv, HistoryTypeOK
    <3> QED
      BY <1>2, <3>1
  <2> QED
    BY <1>1, <1>2, <2>1, <2>2, <2>3
<1>6. Reading'
  <2>1. begun' \subseteq Stored'
    BY <1>1, <1>4 DEF HistoryIInv, Reading
  <2>2. begun' \subseteq seen'
    BY <1>1, <1>5
  <2>3. ~(size' > 0)
    BY <1>1
  <2> QED
    BY <2>1, <2>2, <2>3 DEF Reading
<1> QED
  BY <1>3, <1>4, <1>6 DEF HistoryIInv

\* Every step keeps the invariant.
LEMMA HistoryStep == HistoryIInv /\ [Next]_vars => HistoryIInv'
<1> SUFFICES ASSUME HistoryIInv, [Next]_vars PROVE HistoryIInv'
  OBVIOUS
<1>1. ASSUME NEW e \in Exec, SaveFails(e) PROVE HistoryIInv'
  <2>1. saves' \in [Exec -> Nat] /\ UNCHANGED <<history, size, page, begun, seen>>
    BY <1>1 DEF SaveFails, readVars, HistoryIInv, HistoryTypeOK
  <2> QED
    BY <2>1 DEF HistoryIInv, HistoryTypeOK, OneRecord, Reading, Stored
<1>2. CASE UNCHANGED vars
  BY <1>2 DEF vars, readVars, HistoryIInv, HistoryTypeOK, OneRecord, Reading, Stored
<1> QED
  BY <1>1, <1>2, SaveKeeps, BeginReadingKeeps, ReadPageKeeps, ReadLastPageKeeps DEF Next

-----------------------------------------------------------------------------
(* Theorems *)

\* In all reachable states an execution has one record, and what the client has
\* not seen yet is behind the pages it has read.
THEOREM HistoryInductive == Spec => []HistoryIInv
BY HistoryInit, HistoryStep, PTL DEF Spec

\* ListByJobName returns the records that the page's number and size say, and none for
\* a number too large for an int.
THEOREM HistoryPagesAreSlices == Spec => []PagesAreSlices
<1>1. HistoryIInv => PagesAreSlices
  BY SlicesOfPages DEF HistoryIInv
<1> QED
  BY <1>1, HistoryInductive, PTL

\* A client that reads page after page misses no record that was there when it began.
THEOREM HistoryNoRecordSkipped == Spec => []NoRecordSkipped
<1>1. HistoryIInv => NoRecordSkipped
  BY DEF HistoryIInv, Reading, NoRecordSkipped
<1> QED
  BY <1>1, HistoryInductive, PTL
=============================================================================
