---------------------------- MODULE BatchProofs ------------------------------
(***************************************************************************)
(* A batch is made of the same store calls as single requests, for every   *)
(* file, every number of handlers and every failure: what is proved of the *)
(* store holds beside running uploads.                                     *)
(***************************************************************************)
EXTENDS Batch, StoreProofs

RecordsOf(u) == {u.records[i] : i \in 1 .. Len(u.records)}

\* Every record that a file can hold.
Records == UNION {RecordsOf(u) : u \in Uploads}

JobType ==
    [busy : BOOLEAN, records : Seq(Records), left : Seq(Records), sum : Summary,
     mine : SUBSET Transaction]

\* What a handler is at work on comes from a file, and so does the row of the
\* store call it has made; an idle one has made none.
JobSound(p) ==
    /\ pc[p] = "idle" => arg[p] = NoCall
    /\ job[p].busy /\ arg[p].op = "RecordTransaction" =>
          \E rec \in Records : Recordable(rec) /\ arg[p] = RowCall(rec)

BatchInv ==
    /\ job \in [Procs -> JobType]
    /\ \A p \in Procs : JobSound(p)

\* The store calls of a record are among those the store knows.
LEMMA RecordCalls ==
  ASSUME NEW rec \in Records
  PROVE  /\ RejectionCall(rec) \in Calls
         /\ Recordable(rec) =>
               /\ RowCall(rec) \in Calls
               /\ \A o \in Outcomes : AuditCall(rec, rec.points, o) \in Calls
<1>1. PICK u \in Uploads : rec \in RecordsOf(u)
  BY DEF Records
<1>2. BatchCalls(u) \subseteq Calls
  BY BatchAssumption
<1>3. RejectionCall(rec) \in BatchCalls(u)
  BY <1>1 DEF BatchCalls, RecordsOf
<1>4. ASSUME Recordable(rec)
      PROVE  /\ RowCall(rec) \in BatchCalls(u)
             /\ \A o \in Outcomes : AuditCall(rec, rec.points, o) \in BatchCalls(u)
  BY <1>1, <1>4 DEF BatchCalls, RecordsOf
<1>5. QED
  BY <1>2, <1>3, <1>4

\* A summary stays a summary when a row is counted.
LEMMA CountedType ==
  ASSUME NEW sum \in Summary, NEW o \in Outcomes
  PROVE  /\ Counted(sum, o) \in Summary
         /\ [sum EXCEPT !.processed = Inc(@)] \in Summary
<1>1. \A n \in Nat : Inc(n) \in Nat
  BY BatchAssumption DEF Inc
<1>2. [sum EXCEPT !.processed = Inc(@)] \in Summary
  BY <1>1 DEF Summary
<1>3. CASE o = "accepted"
  BY <1>1, <1>2, <1>3 DEF Summary, Counted, Bucket
<1>4. CASE o = "rejected"
  BY <1>1, <1>2, <1>4 DEF Summary, Counted, Bucket
<1>5. CASE o = "duplicate"
  BY <1>1, <1>2, <1>5 DEF Summary, Counted, Bucket
<1>6. QED
  BY <1>3, <1>4, <1>5 DEF Outcomes

LEMMA NoJobType ==
  ASSUME NEW b \in BOOLEAN, NEW s \in Seq(Records)
  PROVE  Job(b, s) \in JobType /\ Job(b, s).busy = b
BY DEF Job, JobType, Summary, EmptySummary

LEMMA Nothing == NoJob \in JobType /\ NoJob.busy = FALSE
<1>1. <<>> \in Seq(Records)
  OBVIOUS
<1>2. FALSE \in BOOLEAN
  OBVIOUS
<1>3. QED
  BY <1>1, <1>2, NoJobType DEF NoJob

\* The rows that a statement commits for an upload are transactions.
LEMMA NewTransactions ==
  ASSUME db \in Seq(Row), db' \in Seq(Row)
  PROVE  {db'[i] : i \in {j \in Len(db) + 1 .. Len(db') : IsTxn(db'[j])}}
            \subseteq Transaction
<1> SUFFICES ASSUME NEW j \in Len(db) + 1 .. Len(db'), IsTxn(db'[j])
             PROVE  db'[j] \in Transaction
  OBVIOUS
<1>1. db'[j] \in Row
  OBVIOUS
<1>2. QED
  BY <1>1 DEF Row, IsTxn, Transaction, Account, AuditEntry

\* The record under the reader, and what is left behind it.
LEMMA LeftType ==
  ASSUME BatchInv, NEW p \in Procs, job[p].left # <<>>
  PROVE  /\ job[p] \in JobType /\ job[p].sum \in Summary
         /\ Head(job[p].left) \in Records
         /\ Rest(p) \in Seq(Records)
<1>1. job[p] \in JobType
  BY DEF BatchInv
<1>2. job[p].left \in Seq(Records) /\ job[p].sum \in Summary
  BY <1>1 DEF JobType
<1>3. Head(job[p].left) \in Records /\ Tail(job[p].left) \in Seq(Records)
  BY <1>2
<1>4. QED
  BY <1>1, <1>2, <1>3 DEF Rest

\* A handler that makes a call and replaces its job by a sound one keeps the
\* invariant, and makes a step of the store.
LEMMA CallKeeps ==
  ASSUME IInv, BatchInv, NEW p \in Procs, NEW c \in Calls, Call(p, c),
         NEW j \in JobType, job' = [job EXCEPT ![p] = j],
         j.busy /\ c.op = "RecordTransaction" =>
            \E rec \in Records : Recordable(rec) /\ c = RowCall(rec)
  PROVE  Next /\ BatchInv'
<1>1. Next
  BY DEF Next
<1>2. /\ pc \in [Procs -> Steps] /\ arg \in [Procs -> Calls \cup {NoCall}]
      /\ pc' = [pc EXCEPT ![p] = "call"] /\ arg' = [arg EXCEPT ![p] = c]
  BY DEF IInv, TypeOK, Call, Goto
<1>3. job' \in [Procs -> JobType]
  BY DEF BatchInv
<1>4. ASSUME NEW q \in Procs
      PROVE  JobSound(q)'
  <2>1. CASE q = p
    BY <1>2, <2>1 DEF JobSound, BatchInv
  <2>2. CASE q # p
    BY <1>2, <2>2 DEF JobSound, BatchInv
  <2>3. QED
    BY <2>1, <2>2
<1>5. QED
  BY <1>1, <1>3, <1>4 DEF BatchInv

\* So does one that takes its result and is idle.
LEMMA ReturnKeeps ==
  ASSUME IInv, BatchInv, NEW p \in Procs, Return(p),
         NEW j \in JobType, job' = [job EXCEPT ![p] = j]
  PROVE  Next /\ BatchInv'
<1>1. Next
  BY DEF Next
<1>2. /\ pc \in [Procs -> Steps] /\ arg \in [Procs -> Calls \cup {NoCall}]
      /\ pc' = [pc EXCEPT ![p] = "idle"] /\ arg' = [arg EXCEPT ![p] = NoCall]
  BY DEF IInv, TypeOK, Return, Goto
<1>3. job' \in [Procs -> JobType]
  BY DEF BatchInv
<1>4. ASSUME NEW q \in Procs
      PROVE  JobSound(q)'
  <2>1. CASE q = p
    BY <1>2, <2>1 DEF JobSound, NoCall
  <2>2. CASE q # p
    BY <1>2, <2>2 DEF JobSound, BatchInv
  <2>3. QED
    BY <2>1, <2>2
<1>5. QED
  BY <1>1, <1>3, <1>4 DEF BatchInv

\* Every step of a batch is a step of the store or leaves it alone.
LEMMA BatchStep ==
  ASSUME IInv, BatchInv, BatchNext
  PROVE  [Next \/ PowerLoss]_vars /\ BatchInv'
<1>0. /\ job \in [Procs -> JobType] /\ \A p \in Procs : JobSound(p)
      /\ db \in Seq(Row)
  BY DEF BatchInv, IInv, TypeOK
<1>1. ASSUME NEW p \in Procs, NEW u \in Uploads, IngestBatch(p, u)
      PROVE  [Next \/ PowerLoss]_vars /\ BatchInv'
  <2>1. u.records \in Seq(Records)
    <3>1. u.records \in Seq(CsvRecord)
      BY BatchAssumption DEF Upload
    <3>2. \A i \in 1 .. Len(u.records) : u.records[i] \in Records
      BY DEF Records, RecordsOf
    <3>3. QED
      BY <3>1, <3>2
  <2>2. /\ UNCHANGED vars /\ job' = [job EXCEPT ![p] = Job(TRUE, u.records)]
        /\ pc[p] = "idle"
    BY <1>1 DEF IngestBatch, Free
  <2>3. job' \in [Procs -> JobType]
    BY <1>0, <2>1, <2>2, NoJobType
  <2>4. ASSUME NEW q \in Procs
        PROVE  JobSound(q)'
    <3>1. arg' = arg /\ pc' = pc
      BY <2>2 DEF vars
    <3>2. CASE q = p
      <4>1. arg[p] = NoCall
        BY <1>0, <2>2 DEF JobSound
      <4>2. arg'[q] = NoCall /\ arg'[q].op # "RecordTransaction"
        BY <3>1, <3>2, <4>1 DEF NoCall
      <4>3. QED
        BY <4>2 DEF JobSound
    <3>3. CASE q # p
      <4>1. job'[q] = job[q]
        BY <1>0, <2>2, <3>3
      <4>2. QED
        BY <1>0, <3>1, <4>1 DEF JobSound
    <3>4. QED
      BY <3>2, <3>3
  <2>5. QED
    BY <2>2, <2>3, <2>4 DEF BatchInv
<1>2. ASSUME NEW p \in Procs, RejectRow(p)
      PROVE  [Next \/ PowerLoss]_vars /\ BatchInv'
  <2> DEFINE rec == Head(job[p].left)
             sum == [job[p].sum EXCEPT !.processed = Inc(@)]
             j == [job[p] EXCEPT !.left = Rest(p), !.sum = Counted(sum, "rejected")]
  <2>1. /\ job[p].left # <<>> /\ Call(p, RejectionCall(rec))
        /\ job' = [job EXCEPT ![p] = j]
    BY <1>0, <1>2 DEF RejectRow
  <2>2. rec \in Records /\ Rest(p) \in Seq(Records) /\ job[p] \in JobType
        /\ job[p].sum \in Summary
    BY <2>1, LeftType
  <2>3. Counted(sum, "rejected") \in Summary
    BY <2>2, CountedType DEF Outcomes
  <2>4. j \in JobType
    BY <2>2, <2>3 DEF JobType
  <2>5. RejectionCall(rec) \in Calls /\ RejectionCall(rec).op = "AppendAudit"
    BY <2>2, RecordCalls DEF RejectionCall, AuditCall
  <2> HIDE DEF rec, sum, j
  <2>6. QED
    BY <2>1, <2>4, <2>5, CallKeeps
<1>3. ASSUME NEW p \in Procs, RecordRow(p)
      PROVE  [Next \/ PowerLoss]_vars /\ BatchInv'
  <2> DEFINE rec == Head(job[p].left)
             sum == [job[p].sum EXCEPT !.processed = Inc(@)]
             j == [job[p] EXCEPT !.left = Rest(p), !.sum = sum]
  <2>1. job[p].left # <<>> /\ Call(p, RowCall(rec)) /\ Recordable(rec)
    BY <1>3 DEF RecordRow
  <2>2. rec \in Records /\ Rest(p) \in Seq(Records) /\ job[p] \in JobType
        /\ job[p].sum \in Summary
    BY <2>1, LeftType
  <2>3. job' = [job EXCEPT ![p] = j]
    BY <1>0, <1>3, <2>2 DEF RecordRow, JobType
  <2>4. sum \in Summary
    BY <2>2, CountedType DEF Outcomes
  <2>5. j \in JobType
    BY <2>2, <2>4 DEF JobType
  <2>6. RowCall(rec) \in Calls
    BY <2>1, <2>2, RecordCalls
  <2> HIDE DEF rec, sum, j
  <2>7. QED
    BY <2>1, <2>2, <2>3, <2>5, <2>6, CallKeeps
<1>4. ASSUME NEW p \in Procs, AuditRow(p)
      PROVE  [Next \/ PowerLoss]_vars /\ BatchInv'
  <2> DEFINE o == classifyOutcome(ret[p])
             c == AuditCall(arg[p].row, arg[p].row.points, o)
             j == [job[p] EXCEPT !.sum = Counted(@, o)]
  <2>1. /\ job[p].busy /\ arg[p].op = "RecordTransaction" /\ Call(p, c)
        /\ job[p] \in JobType /\ job' = [job EXCEPT ![p] = j]
    BY <1>0, <1>4 DEF AuditRow
  <2>2. o \in Outcomes
    BY DEF classifyOutcome, Outcomes
  <2>3. PICK rec \in Records : Recordable(rec) /\ arg[p] = RowCall(rec)
    BY <1>0, <2>1 DEF JobSound
  <2>4. c = AuditCall(rec, rec.points, o)
    BY <2>3 DEF RowCall, Recording, AuditCall
  <2>5. c \in Calls /\ c.op = "AppendAudit"
    BY <2>2, <2>3, <2>4, RecordCalls DEF AuditCall
  <2>6. j \in JobType
    <3>1. job[p].sum \in Summary
      BY <2>1 DEF JobType
    <3>2. Counted(job[p].sum, o) \in Summary
      BY <2>2, <3>1, CountedType
    <3>3. QED
      BY <2>1, <3>2 DEF JobType
  <2> HIDE DEF o, c, j
  <2>7. QED
    BY <2>1, <2>5, <2>6, CallKeeps
<1>5. ASSUME NEW p \in Procs, EndBatch(p)
      PROVE  [Next \/ PowerLoss]_vars /\ BatchInv'
  <2>1. NoJob \in JobType /\ ~NoJob.busy
    BY Nothing
  <2>2. job' = [job EXCEPT ![p] = NoJob] /\ (Return(p) \/ UNCHANGED vars)
    BY <1>5 DEF EndBatch
  <2>3. CASE Return(p)
    BY <2>1, <2>2, <2>3, ReturnKeeps
  <2>4. CASE UNCHANGED vars
    BY <1>0, <2>1, <2>2, <2>4 DEF BatchInv, JobSound, vars
  <2>5. QED
    BY <2>2, <2>3, <2>4
<1>6. ASSUME NEW p \in Procs, Progress(p)
      PROVE  [Next \/ PowerLoss]_vars /\ BatchInv'
  <2> DEFINE new == {db'[i] : i \in {k \in Len(db) + 1 .. Len(db') : IsTxn(db'[k])}}
  <2>1. /\ Work(p)
        /\ job' = IF job[p].busy THEN [job EXCEPT ![p].mine = @ \cup new] ELSE job
    BY <1>6 DEF Progress
  <2>2. Next
    BY <2>1 DEF Next
  <2>3. arg' = arg /\ \A q \in Procs : pc'[q] = "idle" => pc[q] = "idle"
    BY <2>1, WorkKeeps
  <2>4. new \subseteq Transaction
    <3>1. IInv'
      BY <2>2, NextKeeps
    <3>2. db' \in Seq(Row)
      BY <3>1 DEF IInv, TypeOK
    <3>3. QED
      BY <1>0, <3>2, NewTransactions
  <2> HIDE DEF new
  <2>5. /\ job' \in [Procs -> JobType]
        /\ \A q \in Procs : job'[q].busy = job[q].busy
    BY <1>0, <2>1, <2>4 DEF JobType
  <2>6. QED
    BY <1>0, <2>2, <2>3, <2>5 DEF BatchInv, JobSound
<1>7. ASSUME NEW p \in Procs, Trouble(p)
      PROVE  [Next \/ PowerLoss]_vars /\ BatchInv'
  <2>1. job' = job /\ Next
    BY <1>7 DEF Trouble, Next
  <2>2. arg' = arg /\ \A q \in Procs : pc'[q] = "idle" => pc[q] = "idle"
    BY <1>7, WorkKeeps DEF Trouble
  <2>3. QED
    BY <1>0, <2>1, <2>2 DEF BatchInv, JobSound
<1>8. ASSUME NEW p \in Procs, Other(p)
      PROVE  [Next \/ PowerLoss]_vars /\ BatchInv'
  <2>1. job[p] \in JobType /\ job' = [job EXCEPT ![p] = job[p]] /\ ~job[p].busy
    BY <1>0, <1>8 DEF Other
  <2>2. ASSUME NEW c \in Traffic, Call(p, c)
        PROVE  Next /\ BatchInv'
    BY <2>1, <2>2, CallKeeps, BatchAssumption
  <2>3. CASE Return(p)
    BY <2>1, <2>3, ReturnKeeps
  <2>4. QED
    BY <1>8, <2>2, <2>3 DEF Other
<1>9. CASE BatchCrash
  <2>1. (Next \/ PowerLoss) /\ Restart /\ job' = [p \in Procs |-> NoJob]
    BY <1>9 DEF BatchCrash, Next, Crash, PowerLoss
  <2>2. NoJob \in JobType /\ ~NoJob.busy
    BY Nothing
  <2>3. QED
    BY <2>1, <2>2 DEF BatchInv, JobSound, Restart
<1>10. QED
  BY <1>1, <1>2, <1>3, <1>4, <1>5, <1>6, <1>7, <1>8, <1>9 DEF BatchNext

\* The batch invariant, beside the one of the store.
LEMMA BatchInvariance == BatchSpec => [](IInv /\ BatchInv)
<1>1. BatchInit => IInv /\ BatchInv
  <2> SUFFICES ASSUME BatchInit PROVE IInv /\ BatchInv
    OBVIOUS
  <2>1. Init /\ job = [p \in Procs |-> NoJob]
    BY DEF BatchInit
  <2>2. IInv
    BY <2>1, InitSound
  <2>3. job \in [Procs -> JobType] /\ \A p \in Procs : ~job[p].busy
    BY <2>1, Nothing
  <2>4. \A p \in Procs : arg[p] = NoCall
    BY <2>1 DEF Init
  <2>5. QED
    BY <2>2, <2>3, <2>4 DEF BatchInv, JobSound
<1>2. IInv /\ BatchInv /\ [BatchNext]_batchVars => (IInv /\ BatchInv)'
  <2> SUFFICES ASSUME IInv, BatchInv, [BatchNext]_batchVars
               PROVE  IInv' /\ BatchInv'
    OBVIOUS
  <2>1. CASE BatchNext
    BY <2>1, BatchStep, NextKeeps
  <2>2. CASE UNCHANGED batchVars
    <3>1. UNCHANGED vars /\ job' = job
      BY <2>2 DEF batchVars
    <3>2. IInv'
      BY <3>1, NextKeeps
    <3>3. BatchInv'
      BY <3>1 DEF BatchInv, JobSound, vars
    <3>4. QED
      BY <3>2, <3>3
  <2>3. QED
    BY <2>1, <2>2
<1>3. QED
  BY <1>1, <1>2, PTL DEF BatchSpec

\* Whatever the files hold, uploads do nothing to the store that single
\* requests could not do ("driven through the SAME earn/spend services",
\* batch.go:31-34): the batch implements the store.
THEOREM BatchRefinement == BatchSpec => BatchUsesStore
<1>1. BatchInit => Init
  BY DEF BatchInit
<1>2. IInv /\ BatchInv /\ [BatchNext]_batchVars => [Next \/ PowerLoss]_vars
  <2>1. ASSUME IInv, BatchInv, BatchNext PROVE [Next \/ PowerLoss]_vars
    BY <2>1, BatchStep
  <2>2. UNCHANGED batchVars => [Next \/ PowerLoss]_vars
    BY DEF batchVars
  <2>3. QED
    BY <2>1, <2>2
<1>3. QED
  BY <1>1, <1>2, BatchInvariance, PTL DEF BatchSpec, BatchUsesStore, PowerSpec

\* However uploads race with each other, with single requests, with crashes
\* and with a second attempt of the same file, a ref counts once and no
\* account is overdrawn (batch.go:105, sqlite.go:198-218).
THEOREM BatchIsSafe == BatchSpec => [](RefCountedOnce /\ NoOverdraft)
BY BatchRefinement, Idempotence, Solvency, PTL DEF BatchUsesStore

=============================================================================
