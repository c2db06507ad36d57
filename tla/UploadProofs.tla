---------------------------- MODULE UploadProofs -----------------------------
(***************************************************************************)
(* What an upload reports, in its summary and in the audit log, for every  *)
(* file, any number of uploads at once, every failure and every power      *)
(* loss.                                                                   *)
(*                                                                         *)
(* The argument for the audit log: a handler whose insert created a        *)
(* transaction holds a claim to audit it as accepted, from the commit to   *)
(* the audit insert or its failure.  A claim is backed by the transaction, *)
(* two handlers never hold a claim to the same ref, and no ref that is     *)
(* claimed has been audited as accepted yet (AuditInv).                    *)
(*                                                                         *)
(* For the summary: the rows that were read are a prefix of the file, each *)
(* is counted once or is being resolved (CountInv), and while none was     *)
(* rejected each is settled in the ledger or being resolved (FileInv).  A  *)
(* duplicate is settled because somebody asked for the row that the ledger *)
(* has under its ref (Requested), and if that ref has one meaning, it is   *)
(* the row of the file.                                                    *)
(***************************************************************************)
EXTENDS BatchProofs, PromiseProofs

Same(r, s) ==
    r.ref = s.ref /\ r.account = s.account /\ r.kind = s.kind /\ r.points = s.points

\* A store call to audit is still to be executed.
Auditing(p, outcome) ==
    pc[p] # "done" /\ arg[p].op = "AppendAudit" /\ arg[p].row.outcome = outcome

Claims(p) == job[p].busy /\ (Fresh(p) \/ Auditing(p, "accepted"))

Accepted(r, ref) == IsAudit(r) /\ r.ref = ref /\ r.outcome = "accepted"

Backed(p) ==
    /\ \E j \in 1 .. Len(db) : IsTxn(db[j]) /\ Same(db[j], arg[p].row)
    /\ \A k \in 1 .. Len(db) : ~Accepted(db[k], arg[p].row.ref)

OnlyUploadsAudit == \A p \in Procs : arg[p].op = "AppendAudit" => job[p].busy

AuditInv ==
    /\ OnlyUploadsAudit
    /\ \A p \in Procs : Claims(p) => Backed(p)
    /\ \A p, q \in Procs :
          Claims(p) /\ Claims(q) /\ arg[p].row.ref = arg[q].row.ref => p = q
    /\ \A p \in Procs : Auditing(p, "duplicate") => RefExists(db, arg[p].row.ref)
    /\ AuditFollowsMoney

-----------------------------------------------------------------------------
(***************************************************************************)
(* The steps of a handler.                                                 *)
(***************************************************************************)
HandlerStep(p) ==
    \/ \E u \in Uploads : IngestBatch(p, u)
    \/ RejectRow(p) \/ RecordRow(p) \/ AuditRow(p) \/ EndBatch(p)
    \/ Progress(p) \/ Trouble(p) \/ Other(p)

\* The other handlers and their uploads are not touched.
LEMMA HandlerApart ==
  ASSUME IInv, BatchInv, NEW p \in Procs, HandlerStep(p)
  PROVE  Apart(p) /\ \A q \in Procs \ {p} : job'[q] = job[q]
<1>0. job \in [Procs -> JobType]
  BY DEF BatchInv
<1>1. ASSUME UNCHANGED vars PROVE Apart(p)
  BY <1>1 DEF vars, Apart
<1>2. CASE \E u \in Uploads : IngestBatch(p, u)
  BY <1>0, <1>1, <1>2 DEF IngestBatch
<1>3. CASE RejectRow(p) \/ RecordRow(p) \/ AuditRow(p)
  BY <1>0, <1>3, CallShape DEF RejectRow, RecordRow, AuditRow
<1>4. CASE EndBatch(p)
  BY <1>0, <1>1, <1>4, ReturnShape DEF EndBatch
<1>5. CASE Progress(p)
  <2>1. Apart(p)
    BY <1>5, StepApart DEF Progress, Step
  <2>2. QED
    BY <1>0, <1>5, <2>1 DEF Progress
<1>6. CASE Trouble(p)
  BY <1>6, StepApart DEF Trouble, Step
<1>7. CASE Other(p)
  BY <1>7, CallShape, ReturnShape DEF Other
<1>8. QED
  BY <1>2, <1>3, <1>4, <1>5, <1>6, <1>7 DEF HandlerStep

\* Neither does it change which file is being read.
LEMMA StatementShape ==
  ASSUME IInv, BatchInv, NEW p \in Procs, Progress(p) \/ Trouble(p)
  PROVE  /\ Work(p) \/ Disconnect(p) \/ Cancelled(p) \/ Fault(p)
         /\ arg' = arg /\ InFlight(p) /\ pc'[p] # "idle"
         /\ job'[p] = [job[p] EXCEPT !.mine = job'[p].mine]
         /\ job'[p].busy = job[p].busy
<1>0. job \in [Procs -> JobType] /\ job[p] \in JobType
  BY DEF BatchInv
<1>1. Work(p) \/ Disconnect(p) \/ Cancelled(p) \/ Fault(p)
  BY DEF Progress, Trouble
<1>2. arg' = arg /\ InFlight(p) /\ pc'[p] # "idle"
  BY <1>1, WorkKeeps, WorkInFlight DEF InFlight
<1>3. CASE job' = job
  BY <1>0, <1>1, <1>2, <1>3 DEF JobType
<1>4. CASE job' # job
  <2>1. PICK m : job' = [job EXCEPT ![p].mine = m]
    BY <1>4 DEF Progress, Trouble
  <2>2. job'[p] = [job[p] EXCEPT !.mine = m]
    BY <1>0, <2>1
  <2>3. QED
    BY <1>0, <1>1, <1>2, <2>2 DEF JobType
<1>5. QED
  BY <1>3, <1>4

-----------------------------------------------------------------------------
(***************************************************************************)
(* The audit log.                                                          *)
(***************************************************************************)

\* Where a claim comes from: it was there, or this very step commits.
LEMMA ClaimsFrom ==
  ASSUME IInv, BatchInv, OnlyUploadsAudit, NEW p \in Procs, HandlerStep(p),
         NEW q \in Procs, Claims(q)'
  PROVE  \/ Claims(q) /\ Same(arg'[q].row, arg[q].row)
         \/ q = p /\ Paid(p) /\ arg' = arg
<1>1. CASE q # p
  BY <1>1, HandlerApart DEF Apart, Claims, Fresh, Auditing, Same
<1>2. CASE q = p
  <2>0. job \in [Procs -> JobType] /\ (pc[p] = "idle" => arg[p].op = "none")
    BY DEF BatchInv, JobSound, NoCall
  <2>c. job'[p].busy /\ (Fresh(p)' \/ Auditing(p, "accepted")')
    BY <1>2 DEF Claims
  <2>1. CASE \E u \in Uploads : IngestBatch(p, u)
    <3>1. pc[p] = "idle" /\ pc' = pc /\ arg' = arg
      BY <2>1 DEF IngestBatch, Free, vars
    <3>2. QED
      BY <2>0, <2>c, <3>1 DEF BatchInv, JobSound, Fresh, Auditing, NoCall
  <2>2. CASE RejectRow(p) \/ RecordRow(p)
    <3>1. PICK rec : Call(p, RejectionCall(rec)) \/ Call(p, RowCall(rec))
      BY <2>2 DEF RejectRow, RecordRow
    <3>2. pc'[p] = "call" /\ (arg'[p] = RejectionCall(rec) \/ arg'[p] = RowCall(rec))
      BY <3>1, CallShape
    <3>3. QED
      BY <2>c, <3>2 DEF Fresh, Auditing, RejectionCall, AuditCall, RowCall, Recording
  <2>3. CASE AuditRow(p)
    <3> DEFINE o == classifyOutcome(ret[p])
               c == AuditCall(arg[p].row, arg[p].row.points, o)
    <3>1. job[p].busy /\ pc[p] = "done" /\ arg[p].op = "RecordTransaction" /\ Call(p, c)
      BY <2>3 DEF AuditRow
    <3>2. pc'[p] = "call" /\ arg'[p] = c
      BY <3>1, CallShape
    <3>3. arg'[p].op = "AppendAudit" /\ arg'[p].row.outcome = o /\ Same(arg'[p].row, arg[p].row)
      BY <3>2 DEF AuditCall, Same
    <3>4. o = "accepted"
      BY <2>c, <3>2, <3>3 DEF Fresh, Auditing
    <3>5. ret[p].err = "none" /\ ret[p].created
      BY <3>4 DEF classifyOutcome
    <3>6. QED
      BY <1>2, <3>1, <3>3, <3>5 DEF Claims, Fresh
  <2>4. CASE EndBatch(p)
    BY <2>0, <2>4, <2>c, Nothing DEF EndBatch
  <2>5. CASE Progress(p) \/ Trouble(p)
    <3>1. /\ Work(p) \/ Disconnect(p) \/ Cancelled(p) \/ Fault(p)
          /\ arg' = arg /\ pc[p] # "done" /\ job[p].busy
      BY <2>5, <2>c, StatementShape DEF InFlight
    <3>2. CASE Fresh(p)'
      BY <1>2, <3>1, <3>2, FreshlyCommitted
    <3>3. CASE Auditing(p, "accepted")'
      BY <1>2, <3>1, <3>3 DEF Auditing, Claims, Same
    <3>4. QED
      BY <2>c, <3>2, <3>3
  <2>6. CASE Other(p)
    BY <2>6, <2>c DEF Other
  <2>7. QED
    BY <2>1, <2>2, <2>3, <2>4, <2>5, <2>6 DEF HandlerStep
<1>3. QED
  BY <1>1, <1>2

LEMMA AuditsByUploads ==
  ASSUME IInv, BatchInv, OnlyUploadsAudit, NEW p \in Procs, HandlerStep(p)
  PROVE  OnlyUploadsAudit'
<1> SUFFICES ASSUME NEW q \in Procs, arg'[q].op = "AppendAudit" PROVE job'[q].busy
  BY DEF OnlyUploadsAudit
<1>0. job \in [Procs -> JobType] /\ job[p] \in JobType
  BY DEF BatchInv
<1>1. CASE q # p
  BY <1>1, HandlerApart DEF Apart, OnlyUploadsAudit
<1>2. CASE q = p
  <2>1. CASE \E u \in Uploads : IngestBatch(p, u)
    BY <1>0, <1>2, <2>1 DEF IngestBatch, Job
  <2>2. CASE RejectRow(p) \/ RecordRow(p) \/ AuditRow(p)
    <3>1. job[p].busy /\ job'[p].busy = job[p].busy
      BY <1>0, <2>2 DEF RejectRow, RecordRow, AuditRow, AtLoop, JobType
    <3>2. QED
      BY <1>2, <3>1
  <2>3. CASE EndBatch(p)
    <3>1. arg'[p] = NoCall
      <4>1. CASE Return(p)
        BY <4>1, ReturnShape
      <4>2. CASE UNCHANGED vars /\ pc[p] # "done"
        BY <2>3, <4>2 DEF EndBatch, Answers, AtLoop, InFlight, BatchInv, JobSound, vars
      <4>3. QED
        BY <2>3, <4>1, <4>2 DEF EndBatch
    <3>2. QED
      BY <1>2, <3>1 DEF NoCall
  <2>4. CASE Progress(p) \/ Trouble(p)
    BY <1>2, <2>4, StatementShape DEF OnlyUploadsAudit
  <2>5. CASE Other(p)
    <3>1. arg'[p] = NoCall \/ arg'[p] \in Traffic
      BY <2>5, ReturnShape, CallShape DEF Other
    <3>2. QED
      BY <1>2, <3>1, BatchAssumption DEF NoCall
  <2>6. QED
    BY <2>1, <2>2, <2>3, <2>4, <2>5 DEF HandlerStep
<1>3. QED
  BY <1>1, <1>2

\* Where an audited duplicate comes from: the store said that the ref exists.
LEMMA DuplicatesFrom ==
  ASSUME IInv, BatchInv, Promised, NEW p \in Procs, HandlerStep(p),
         NEW q \in Procs, Auditing(q, "duplicate")'
  PROVE  \/ Auditing(q, "duplicate") /\ arg'[q].row.ref = arg[q].row.ref
         \/ db' = db /\ RefExists(db, arg'[q].row.ref)
<1>1. CASE q # p
  BY <1>1, HandlerApart DEF Apart, Auditing
<1>2. CASE q = p
  <2>c. pc'[p] # "done" /\ arg'[p].op = "AppendAudit" /\ arg'[p].row.outcome = "duplicate"
    BY <1>2 DEF Auditing
  <2>1. CASE \E u \in Uploads : IngestBatch(p, u)
    <3>1. pc[p] = "idle" /\ arg' = arg
      BY <2>1 DEF IngestBatch, Free, vars
    <3>2. QED
      BY <2>c, <3>1 DEF BatchInv, JobSound, NoCall
  <2>2. CASE RejectRow(p) \/ RecordRow(p)
    <3>1. PICK rec : Call(p, RejectionCall(rec)) \/ Call(p, RowCall(rec))
      BY <2>2 DEF RejectRow, RecordRow
    <3>2. arg'[p] = RejectionCall(rec) \/ arg'[p] = RowCall(rec)
      BY <3>1, CallShape
    <3>3. QED
      BY <2>c, <3>2 DEF RejectionCall, AuditCall, RowCall, Recording
  <2>3. CASE AuditRow(p)
    <3> DEFINE o == classifyOutcome(ret[p])
               c == AuditCall(arg[p].row, arg[p].row.points, o)
    <3>1. pc[p] = "done" /\ arg[p].op = "RecordTransaction" /\ Call(p, c)
      BY <2>3 DEF AuditRow
    <3>2. arg'[p] = c /\ db' = db
      BY <3>1, CallShape
    <3>3. arg'[p].row.outcome = o /\ arg'[p].row.ref = arg[p].row.ref
      BY <3>2 DEF AuditCall
    <3>4. o = "duplicate"
      BY <2>c, <3>3
    <3>5. ret[p].err = "none"
      BY <3>4 DEF classifyOutcome
    <3>6. RefExists(db, arg[p].row.ref)
      BY <3>1, <3>5 DEF Promised, Promise, Answered
    <3>7. QED
      BY <1>2, <3>2, <3>3, <3>6
  <2>4. CASE EndBatch(p)
    <3>1. arg'[p] = NoCall \/ (arg' = arg /\ pc[p] = "idle")
      BY <2>4, ReturnShape DEF EndBatch, Answers, AtLoop, InFlight, vars
    <3>2. QED
      BY <2>c, <3>1 DEF BatchInv, JobSound, NoCall
  <2>5. CASE Progress(p) \/ Trouble(p)
    BY <1>2, <2>5, <2>c, StatementShape DEF Auditing, InFlight
  <2>6. CASE Other(p)
    <3>1. arg'[p] = NoCall \/ arg'[p] \in Traffic
      BY <2>6, ReturnShape, CallShape DEF Other
    <3>2. QED
      BY <2>c, <3>1, BatchAssumption DEF NoCall
  <2>7. QED
    BY <2>1, <2>2, <2>3, <2>4, <2>5, <2>6 DEF HandlerStep
<1>3. QED
  BY <1>1, <1>2

\* The log grows in a statement of the store only.
LEMMA HandlerGrowth ==
  ASSUME IInv, BatchInv, NEW p \in Procs, HandlerStep(p)
  PROVE  db' = db \/ (Progress(p) /\ (Paid(p) \/ Opened(p) \/ Audited(p)))
<1>1. CASE \E u \in Uploads : IngestBatch(p, u)
  BY <1>1 DEF IngestBatch, vars
<1>2. CASE RejectRow(p) \/ RecordRow(p) \/ AuditRow(p)
  BY <1>2, CallShape DEF RejectRow, RecordRow, AuditRow
<1>3. CASE EndBatch(p)
  BY <1>3, ReturnShape DEF EndBatch, vars
<1>4. CASE Progress(p)
  BY <1>4, Growth DEF Progress, Step
<1>5. CASE Trouble(p)
  BY <1>5 DEF Trouble, Disconnect, Cancelled, Fault
<1>6. CASE Other(p)
  BY <1>6, CallShape, ReturnShape DEF Other
<1>7. QED
  BY <1>1, <1>2, <1>3, <1>4, <1>5, <1>6 DEF HandlerStep

\* A ref that was audited as accepted is in the ledger.
LEMMA AcceptedExists ==
  ASSUME db \in Seq(Row), AuditFollowsMoney, NEW k \in 1 .. Len(db), NEW ref,
         Accepted(db[k], ref)
  PROVE  RefExists(db, ref)
<1>1. PICK j \in 1 .. k - 1 : IsTxn(db[j]) /\ db[j].ref = db[k].ref
  BY DEF AuditFollowsMoney, Accepted
<1>2. j \in 1 .. Len(db)
  OBVIOUS
<1>3. QED
  BY <1>1, <1>2 DEF RefExists, Accepted

\* What AuditFollowsMoney says of one entry of a log d.
Earlier(d, i) == \E j \in 1 .. i - 1 : IsTxn(d[j]) /\ Same(d[j], d[i])
Once(d, i) == \A k \in 1 .. Len(d) : Accepted(d[k], d[i].ref) => k = i
Replay(d, i) == \E j \in 1 .. i - 1 : IsTxn(d[j]) /\ d[j].ref = d[i].ref
EntrySound(d, i) ==
    IsAudit(d[i]) => /\ d[i].outcome = "accepted" => Earlier(d, i) /\ Once(d, i)
                     /\ d[i].outcome = "duplicate" => Replay(d, i)

LEMMA EntryByEntry ==
  /\ AuditFollowsMoney <=> \A i \in 1 .. Len(db) : EntrySound(db, i)
  /\ AuditFollowsMoney' <=> \A i \in 1 .. Len(db') : EntrySound(db', i)
BY DEF AuditFollowsMoney, EntrySound, Earlier, Once, Replay, Accepted, Same

\* A row that is not an audit entry leaves the audit log as sound as it was.
LEMMA MoneyAppend ==
  ASSUME db \in Seq(Row), AuditFollowsMoney, NEW r \in Row, db' = Append(db, r),
         IsAudit(r) =>
            /\ r.outcome = "accepted" =>
                  /\ \E j \in 1 .. Len(db) : IsTxn(db[j]) /\ Same(db[j], r)
                  /\ \A k \in 1 .. Len(db) : ~Accepted(db[k], r.ref)
            /\ r.outcome = "duplicate" => RefExists(db, r.ref)
  PROVE  AuditFollowsMoney'
<1>1. /\ Len(db) \in Nat /\ Len(db') = Len(db) + 1
      /\ \A i \in 1 .. Len(db) : db'[i] = db[i]
      /\ db'[Len(db) + 1] = r
  OBVIOUS
<1> SUFFICES ASSUME NEW i \in 1 .. Len(db'), IsAudit(db'[i])
             PROVE  /\ db'[i].outcome = "accepted" => Earlier(db', i) /\ Once(db', i)
                    /\ db'[i].outcome = "duplicate" => Replay(db', i)
  BY EntryByEntry DEF EntrySound
<1>2. CASE i = Len(db) + 1
  <2>1. i - 1 = Len(db) /\ db'[i] = r
    BY <1>1, <1>2
  <2>2. ASSUME r.outcome = "accepted"
        PROVE  Earlier(db', i) /\ Once(db', i)
    BY <1>1, <1>2, <2>1, <2>2 DEF Earlier, Once
  <2>3. ASSUME r.outcome = "duplicate"
        PROVE  Replay(db', i)
    BY <1>1, <2>1, <2>3 DEF RefExists, Replay
  <2>4. QED
    BY <2>1, <2>2, <2>3
<1>3. CASE i \in 1 .. Len(db)
  <2>1. db'[i] = db[i] /\ \A j \in 1 .. i - 1 : db'[j] = db[j]
    BY <1>1, <1>3
  <2>2. EntrySound(db, i) /\ IsAudit(db[i])
    BY <1>3, <2>1, EntryByEntry
  <2>3. ASSUME db[i].outcome = "accepted" PROVE ~Accepted(r, db[i].ref)
    BY <1>3, <2>2, <2>3 DEF Accepted
  <2>4. db[i].outcome = "accepted" => Earlier(db', i)
    BY <2>1, <2>2 DEF EntrySound, Earlier
  <2>5. db[i].outcome = "accepted" => Once(db', i)
    BY <1>1, <2>1, <2>2, <2>3 DEF EntrySound, Once
  <2>6. db[i].outcome = "duplicate" => Replay(db', i)
    BY <2>1, <2>2 DEF EntrySound, Replay
  <2>7. QED
    BY <2>1, <2>4, <2>5, <2>6
<1>4. QED
  BY <1>1, <1>2, <1>3

\* A claim survives a row that is not an acceptance of its ref.
LEMMA BackedAppend ==
  ASSUME db \in Seq(Row), NEW q \in Procs, Backed(q), Same(arg'[q].row, arg[q].row),
         NEW r \in Row, db' = Append(db, r), ~Accepted(r, arg[q].row.ref)
  PROVE  Backed(q)'
<1>1. /\ Len(db) \in Nat /\ Len(db') = Len(db) + 1
      /\ \A i \in 1 .. Len(db) : db'[i] = db[i]
      /\ db'[Len(db) + 1] = r
  OBVIOUS
<1>2. PICK j \in 1 .. Len(db) : IsTxn(db[j]) /\ Same(db[j], arg[q].row)
  BY DEF Backed
<1>3. j \in 1 .. Len(db') /\ IsTxn(db'[j]) /\ Same(db'[j], arg'[q].row)
  BY <1>1, <1>2 DEF Same
<1>4. ASSUME NEW k \in 1 .. Len(db') PROVE ~Accepted(db'[k], arg'[q].row.ref)
  BY <1>1 DEF Backed, Same
<1>5. QED
  BY <1>3, <1>4 DEF Backed

LEMMA AuditStep ==
  ASSUME IInv, BatchInv, Promised, AuditInv, NEW p \in Procs, HandlerStep(p)
  PROVE  AuditInv'
<1>0. db \in Seq(Row) /\ Len(db) \in Nat
  BY DEF IInv, TypeOK
<1>1. OnlyUploadsAudit'
  BY AuditsByUploads DEF AuditInv
<1>2. ASSUME NEW q \in Procs, Claims(q)'
      PROVE  \/ Claims(q) /\ Same(arg'[q].row, arg[q].row)
             \/ q = p /\ Paid(p) /\ arg' = arg
  BY <1>2, ClaimsFrom DEF AuditInv
<1>3. ASSUME NEW q \in Procs, Auditing(q, "duplicate")'
      PROVE  RefExists(db', arg'[q].row.ref)
  <2>1. CASE db' = db
    BY <1>3, <2>1, DuplicatesFrom DEF AuditInv
  <2>2. CASE db' # db
    <3>1. RefExists(db, arg'[q].row.ref)
      BY <1>3, <2>2, DuplicatesFrom DEF AuditInv
    <3>2. PICK r \in Row : db' = Append(db, r)
      BY <2>2, HandlerGrowth DEF Paid, Opened, Audited, Row
    <3>3. /\ Len(db') = Len(db) + 1
          /\ \A i \in 1 .. Len(db) : db'[i] = db[i]
      BY <1>0, <3>2
    <3>4. QED
      BY <1>0, <3>1, <3>3 DEF RefExists
  <2>3. QED
    BY <2>1, <2>2
<1>4. CASE db' = db
  <2>1. ~Paid(p)
    BY <1>0, <1>4 DEF Paid
  <2>2. ASSUME NEW q \in Procs, Claims(q)' PROVE Backed(q)'
    BY <1>2, <1>4, <2>1, <2>2 DEF AuditInv, Backed, Same
  <2>3. ASSUME NEW q \in Procs, NEW s \in Procs, Claims(q)', Claims(s)',
               arg'[q].row.ref = arg'[s].row.ref
        PROVE  q = s
    BY <1>2, <2>1, <2>3 DEF AuditInv, Same
  <2>4. AuditFollowsMoney'
    BY <1>4 DEF AuditInv, AuditFollowsMoney
  <2>5. QED
    BY <1>1, <1>3, <2>2, <2>3, <2>4 DEF AuditInv
<1>5. CASE Paid(p)
  <2> DEFINE t == arg[p].row
  <2>1. /\ db' = Append(db, t) /\ t \in Row /\ IsTxn(t) /\ ~IsAudit(t)
        /\ ~RefExists(db, t.ref) /\ arg' = arg
    BY <1>5 DEF Paid, Commit, Row, Transaction, IsTxn, IsAudit
  <2>2. ASSUME NEW q \in Procs, Claims(q), Same(arg'[q].row, arg[q].row)
        PROVE  Backed(q)' /\ arg[q].row.ref # t.ref
    <3>1. Backed(q) /\ ~Accepted(t, arg[q].row.ref)
      BY <2>1, <2>2 DEF AuditInv, Accepted
    <3>2. RefExists(db, arg[q].row.ref)
      BY <3>1 DEF Backed, RefExists, Same
    <3>3. QED
      BY <1>0, <2>1, <2>2, <3>1, <3>2, BackedAppend
  <2>3. Backed(p)'
    <3>1. /\ Len(db') = Len(db) + 1 /\ db'[Len(db) + 1] = t
          /\ \A i \in 1 .. Len(db) : db'[i] = db[i]
      BY <1>0, <2>1
    <3>2. \A k \in 1 .. Len(db) : ~Accepted(db[k], t.ref)
      BY <1>0, <2>1, AcceptedExists DEF AuditInv
    <3>3. QED
      BY <1>0, <2>1, <3>1, <3>2 DEF Backed, Same, Accepted
  <2>4. ASSUME NEW q \in Procs, Claims(q)' PROVE Backed(q)'
    BY <1>2, <2>2, <2>3, <2>4
  <2>5. ASSUME NEW q \in Procs, NEW s \in Procs, Claims(q)', Claims(s)',
               arg'[q].row.ref = arg'[s].row.ref
        PROVE  q = s
    BY <1>2, <2>1, <2>2, <2>5 DEF AuditInv
  <2>6. AuditFollowsMoney'
    BY <1>0, <2>1, MoneyAppend DEF AuditInv
  <2>7. QED
    BY <1>1, <1>3, <2>4, <2>5, <2>6 DEF AuditInv
<1>6. CASE ~Paid(p) /\ Opened(p)
  <2> DEFINE r == NewAccount(arg[p])
  <2>1. db' = Append(db, r) /\ r \in Row /\ ~IsAudit(r)
    BY <1>6 DEF Opened, Row, NewAccount, IsAudit
  <2> HIDE DEF r
  <2>2. ASSUME NEW q \in Procs, Claims(q)' PROVE Backed(q)'
    BY <1>0, <1>2, <1>6, <2>1, <2>2, BackedAppend DEF AuditInv, Accepted
  <2>3. ASSUME NEW q \in Procs, NEW s \in Procs, Claims(q)', Claims(s)',
               arg'[q].row.ref = arg'[s].row.ref
        PROVE  q = s
    BY <1>2, <1>6, <2>3 DEF AuditInv, Same
  <2>4. AuditFollowsMoney'
    BY <1>0, <2>1, MoneyAppend DEF AuditInv
  <2>5. QED
    BY <1>1, <1>3, <2>2, <2>3, <2>4 DEF AuditInv
<1>7. CASE ~Paid(p) /\ Audited(p) /\ Progress(p)
  <2> DEFINE r == arg[p].row
  <2>1. /\ db' = Append(db, r) /\ r \in Row /\ IsAudit(r)
        /\ arg[p].op = "AppendAudit" /\ pc[p] = "call" /\ arg' = arg
    BY <1>7 DEF Audited, Row, AuditEntry, IsAudit, AppendAudit, Statement, At
  <2>2. job[p].busy /\ Auditing(p, r.outcome)
    BY <2>1 DEF AuditInv, OnlyUploadsAudit, Auditing
  <2>3. pc'[p] = "done"
    <3>1. db' # db
      BY <1>0, <2>1
    <3>2. QED
      BY <1>7, <3>1 DEF Audited, AppendAudit, Leave, Goto, IInv, TypeOK
  <2>4. ~Claims(p)'
    BY <2>1, <2>3 DEF Claims, Fresh, Auditing
  <2>5. ASSUME NEW q \in Procs, Claims(q)' PROVE Backed(q)'
    <3>1. Claims(q) /\ q # p /\ Same(arg'[q].row, arg[q].row)
      BY <1>2, <1>7, <2>4, <2>5
    <3>2. ~Accepted(r, arg[q].row.ref)
      BY <2>2, <3>1 DEF AuditInv, Accepted, Claims
    <3>3. QED
      BY <1>0, <2>1, <3>1, <3>2, BackedAppend DEF AuditInv
  <2>6. ASSUME NEW q \in Procs, NEW s \in Procs, Claims(q)', Claims(s)',
               arg'[q].row.ref = arg'[s].row.ref
        PROVE  q = s
    BY <1>2, <1>7, <2>6 DEF AuditInv, Same
  <2>7. /\ r.outcome = "accepted" =>
              /\ \E j \in 1 .. Len(db) : IsTxn(db[j]) /\ Same(db[j], r)
              /\ \A k \in 1 .. Len(db) : ~Accepted(db[k], r.ref)
        /\ r.outcome = "duplicate" => RefExists(db, r.ref)
    BY <2>2 DEF AuditInv, Claims, Backed
  <2>8. AuditFollowsMoney'
    BY <1>0, <2>1, <2>7, MoneyAppend DEF AuditInv
  <2>9. QED
    BY <1>1, <1>3, <2>5, <2>6, <2>8 DEF AuditInv
<1>8. QED
  BY <1>4, <1>5, <1>6, <1>7, HandlerGrowth

\* A crash ends every claim, and what a power loss leaves of the audit log is
\* as sound as it was: each entry follows its transaction.
LEMMA AuditCrash ==
  ASSUME IInv, AuditInv, BatchCrash
  PROVE  AuditInv'
<1>0. db \in Seq(Row) /\ Len(db) \in Nat
  BY DEF IInv, TypeOK
<1>1. /\ \A q \in Procs : pc'[q] = "idle" /\ arg'[q] = NoCall /\ ~job'[q].busy
      /\ db' = db \/ \E n \in Len(Migrated) .. Len(db) : db' = SubSeq(db, 1, n)
  BY Nothing DEF BatchCrash, Crash, PowerLoss, Restart
<1>2. PICK n \in 0 .. Len(db) : Len(db') = n /\ \A i \in 1 .. n : db'[i] = db[i]
  <2>1. CASE db' = db
    BY <1>0, <2>1
  <2>2. CASE \E n \in Len(Migrated) .. Len(db) : db' = SubSeq(db, 1, n)
    <3>1. PICK n \in Len(Migrated) .. Len(db) : db' = SubSeq(db, 1, n)
      BY <2>2
    <3>2. Len(Migrated) = 2
      BY DEF Migrated
    <3>3. QED
      BY <1>0, <3>1, <3>2
  <2>3. QED
    BY <1>1, <2>1, <2>2
<1>3. AuditFollowsMoney'
  <2> SUFFICES ASSUME NEW i \in 1 .. n PROVE EntrySound(db', i)
    BY <1>2, EntryByEntry
  <2>1. EntrySound(db, i)
    BY <1>0, EntryByEntry DEF AuditInv
  <2>2. db'[i] = db[i] /\ \A j \in 1 .. i - 1 : db'[j] = db[j]
    BY <1>0, <1>2
  <2>3. (Earlier(db, i) => Earlier(db', i)) /\ (Replay(db, i) => Replay(db', i))
    BY <2>2 DEF Earlier, Replay
  <2>4. Once(db, i) => Once(db', i)
    BY <1>0, <1>2, <2>2 DEF Once
  <2>5. QED
    BY <2>1, <2>2, <2>3, <2>4 DEF EntrySound
<1>4. QED
  BY <1>1, <1>3 DEF AuditInv, OnlyUploadsAudit, Claims, Auditing, NoCall

\* Everything that is known of the store holds beside the uploads.
LEMMA UploadsKeepPromises == BatchSpec => [](IInv /\ BatchInv /\ Promised /\ Requested)
BY BatchInvariance, BatchRefinement, Promises, Accountability, PTL DEF BatchUsesStore

LEMMA AuditInvariance == BatchSpec => []AuditInv
<1>1. BatchInit => AuditInv
  <2> SUFFICES ASSUME BatchInit PROVE AuditInv
    OBVIOUS
  <2>1. /\ db = Migrated /\ pc = [p \in Procs |-> "idle"]
        /\ arg = [p \in Procs |-> NoCall]
    BY DEF BatchInit, Init
  <2>2. Len(db) = 2 /\ \A i \in 1 .. 2 : ~IsAudit(db[i])
    BY <2>1 DEF Migrated, IsAudit
  <2>3. QED
    BY <2>1, <2>2, EntryByEntry
       DEF AuditInv, EntrySound, OnlyUploadsAudit, Claims, Fresh, Auditing, NoCall
<1>2. IInv /\ BatchInv /\ Promised /\ AuditInv /\ [BatchNext]_batchVars => AuditInv'
  <2> SUFFICES ASSUME IInv, BatchInv, Promised, AuditInv, [BatchNext]_batchVars
               PROVE  AuditInv'
    OBVIOUS
  <2>1. CASE BatchCrash
    BY <2>1, AuditCrash
  <2>2. CASE \E p \in Procs : HandlerStep(p)
    BY <2>2, AuditStep
  <2>3. CASE UNCHANGED batchVars
    <3>1. db' = db /\ pc' = pc /\ arg' = arg /\ ret' = ret /\ job' = job
      BY <2>3 DEF batchVars, vars
    <3>2. AuditFollowsMoney'
      BY <3>1, EntryByEntry DEF AuditInv
    <3>3. QED
      BY <3>1, <3>2 DEF AuditInv, OnlyUploadsAudit, Claims, Fresh, Auditing, Backed
  <2>4. QED
    BY <2>1, <2>2, <2>3 DEF BatchNext, HandlerStep
<1>3. QED
  BY <1>1, <1>2, UploadsKeepPromises, PTL DEF BatchSpec

\* "AFTER its transaction resolves (never inside it)" (batch.go:35-36), for
\* any number of uploads of any files at once, beside other requests, with
\* every failure, hang-up, crash and power loss: in the log and in every
\* prefix of it, an audited acceptance follows its transaction and is the
\* only one for its ref, and an audited duplicate follows a transaction of
\* its ref.
THEOREM AuditIsEarned == BatchSpec => []AuditFollowsMoney
<1>1. AuditInv => AuditFollowsMoney
  BY DEF AuditInv
<1>2. QED
  BY <1>1, AuditInvariance, PTL

-----------------------------------------------------------------------------
(***************************************************************************)
(* The file and the summary.                                               *)
(***************************************************************************)
Done(j) == Len(j.records) - Len(j.left)

\* What is left is the end of the file.
Aligned(j) ==
    /\ Len(j.left) <= Len(j.records)
    /\ \A i \in 1 .. Len(j.left) : j.left[i] = j.records[Done(j) + i]

Resolving(c) == c.op = "RecordTransaction"

\* A handler with job j and store call c on a database d: as long as nothing
\* was rejected, every row that is behind it is settled; the last one perhaps
\* not yet.
FileSound(j, c, d) ==
    j.busy =>
      /\ c.op \in {"none", "RecordTransaction", "AppendAudit"}
      /\ Aligned(j)
      /\ Resolving(c) => Done(j) >= 1 /\ c = RowCall(j.records[Done(j)])
      /\ j.sum.rejected = 0 =>
            \A i \in 1 .. Done(j) :
                i < Done(j) \/ ~Resolving(c) => Settled(j.sum, d, j.records[i])

FileInv == \A p \in Procs : FileSound(job[p], arg[p], db)

\* The summary counts each row once: under the verdict it got, which for the
\* row that was just created is still to come.
Tally(sum, read, open) ==
    /\ sum.processed = read
    /\ sum.accepted + sum.rejected + sum.duplicates + open = read

CountSound(j, c, fresh, d) ==
    /\ ~j.busy => j = NoJob
    /\ j.busy =>
         /\ Len(j.records) <= MaxRows
         /\ \A i \in 1 .. Len(j.records) : j.records[i].read # "unreadable"
         /\ Tally(j.sum, Done(j), IF Resolving(c) THEN 1 ELSE 0)
         /\ IsFiniteSet(j.mine)
         /\ j.sum.accepted + (IF fresh THEN 1 ELSE 0) = Cardinality(j.mine)
         /\ \A t \in j.mine : \E i \in 1 .. Len(d) : d[i] = t

CountInv == \A p \in Procs : CountSound(job[p], arg[p], Fresh(p), db)

\* The files that the counters of the model are made for.
Readable ==
    \A u \in Uploads :
        /\ Len(u.records) <= MaxRows
        /\ \A i \in 1 .. Len(u.records) : u.records[i].read # "unreadable"

\* The row that a reader takes, and what is left then.
LEMMA TakeRow ==
  ASSUME NEW j \in JobType, Aligned(j), j.left # <<>>,
         NEW k \in JobType, k.records = j.records, k.left = Tail(j.left)
  PROVE  /\ Aligned(k) /\ Done(k) = Done(j) + 1 /\ Done(j) \in Nat
         /\ Done(k) <= Len(j.records) /\ Len(j.records) \in Nat
         /\ Head(j.left) = j.records[Done(k)]
<1>1. j.records \in Seq(Records) /\ j.left \in Seq(Records)
  BY DEF JobType
<1>2. Len(j.left) \in Nat \ {0} /\ Len(j.records) \in Nat
  BY <1>1
<1>3. /\ Len(k.left) = Len(j.left) - 1 /\ Head(j.left) = j.left[1]
      /\ \A i \in 1 .. Len(k.left) : k.left[i] = j.left[i + 1]
  BY <1>1, <1>2
<1>4. Done(k) = Done(j) + 1 /\ Done(j) \in Nat /\ Done(k) <= Len(j.records)
  <2> DEFINE all == Len(j.records)
             before == Len(j.left)
             after == Len(k.left)
  <2>1. /\ before <= all /\ after = before - 1 /\ all \in Nat /\ before \in Nat \ {0}
        /\ Done(j) = all - before /\ Done(k) = all - after
    BY <1>2, <1>3 DEF Aligned, Done
  <2> HIDE DEF all, before, after
  <2>2. Done(k) = Done(j) + 1 /\ Done(j) \in Nat /\ Done(k) <= all
    BY <2>1
  <2>3. QED
    BY <2>2 DEF all
<1>5. ASSUME NEW i \in 1 .. Len(k.left) PROVE k.left[i] = k.records[Done(k) + i]
  <2>1. k.left[i] = j.records[Done(j) + (i + 1)]
    BY <1>2, <1>3 DEF Aligned
  <2>2. Done(j) + (i + 1) = Done(k) + i
    BY <1>4
  <2>3. QED
    BY <2>1, <2>2
<1>6. Head(j.left) = j.records[Done(k)]
  <2>1. j.left[1] = j.records[Done(j) + 1]
    BY <1>2 DEF Aligned
  <2>2. QED
    BY <1>3, <1>4, <2>1
<1>7. QED
  BY <1>2, <1>3, <1>4, <1>5, <1>6 DEF Aligned

\* Counting a row in its bucket.
LEMMA CountedFields ==
  ASSUME NEW sum \in Summary, NEW o \in Outcomes
  PROVE  LET new == Counted(sum, o)
         IN  /\ new \in Summary /\ new.processed = sum.processed
             /\ new.accepted = IF o = "accepted" THEN Inc(sum.accepted) ELSE sum.accepted
             /\ new.rejected = IF o = "rejected" THEN Inc(sum.rejected) ELSE sum.rejected
             /\ new.duplicates = IF o = "duplicate" THEN Inc(sum.duplicates)
                                                    ELSE sum.duplicates
<1>0. Counted(sum, o) \in Summary
  BY CountedType
<1>1. CASE o = "accepted"
  BY <1>0, <1>1 DEF Summary, Counted, Bucket
<1>2. CASE o = "rejected"
  BY <1>0, <1>2 DEF Summary, Counted, Bucket
<1>3. CASE o = "duplicate"
  BY <1>0, <1>3 DEF Summary, Counted, Bucket
<1>4. QED
  BY <1>1, <1>2, <1>3 DEF Outcomes

LEMMA IncFacts ==
  ASSUME NEW n \in Nat
  PROVE  Inc(n) # 0 /\ Inc(n) \in Nat /\ (n < MaxRows => Inc(n) = n + 1)
BY BatchAssumption DEF Inc

\* The handler's own steps, field by field.
LEMMA RejectShape ==
  ASSUME IInv, BatchInv, NEW p \in Procs, RejectRow(p)
  PROVE  LET j == job[p]
             k == job'[p]
         IN  /\ j \in JobType /\ j.busy /\ k.busy /\ j.left # <<>>
             /\ k.records = j.records /\ k.mine = j.mine /\ k.left = Rest(p)
             /\ k.sum = Counted([j.sum EXCEPT !.processed = Inc(@)], "rejected")
             /\ k \in JobType /\ ~Resolving(arg[p])
             /\ db' = db /\ pc'[p] = "call" /\ arg'[p].op = "AppendAudit"
<1>1. job \in [Procs -> JobType] /\ job[p] \in JobType
  BY DEF BatchInv
<1>2. /\ job[p].busy /\ job[p].left # <<>> /\ ~Resolving(arg[p])
      /\ Call(p, RejectionCall(Head(job[p].left)))
  BY DEF RejectRow, AtLoop, Resolving
<1>3. BatchNext
  BY DEF BatchNext
<1>4. job'[p] \in JobType
  BY <1>3, BatchStep DEF BatchInv
<1>5. job'[p] = [job[p] EXCEPT !.left = Rest(p),
                    !.sum = Counted([job[p].sum EXCEPT !.processed = Inc(@)], "rejected")]
  BY <1>1 DEF RejectRow
<1>6. db' = db /\ pc'[p] = "call" /\ arg'[p].op = "AppendAudit"
  BY <1>2, CallShape DEF RejectionCall, AuditCall
<1>7. QED
  BY <1>1, <1>2, <1>4, <1>5, <1>6 DEF JobType

LEMMA RecordShape ==
  ASSUME IInv, BatchInv, NEW p \in Procs, RecordRow(p)
  PROVE  LET j == job[p]
             k == job'[p]
         IN  /\ j \in JobType /\ j.busy /\ k.busy /\ j.left # <<>>
             /\ k.records = j.records /\ k.mine = j.mine /\ k.left = Tail(j.left)
             /\ k.sum = [j.sum EXCEPT !.processed = Inc(@)]
             /\ k \in JobType /\ ~Resolving(arg[p])
             /\ db' = db /\ pc'[p] = "call"
             /\ Resolving(arg'[p]) /\ arg'[p] = RowCall(Head(j.left))
<1>1. job \in [Procs -> JobType] /\ job[p] \in JobType
  BY DEF BatchInv
<1>2. /\ job[p].busy /\ job[p].left # <<>> /\ ~Resolving(arg[p])
      /\ Call(p, RowCall(Head(job[p].left))) /\ Rest(p) = Tail(job[p].left)
  BY DEF RecordRow, AtLoop, Resolving, Recordable, Rest
<1>3. BatchNext
  BY DEF BatchNext
<1>4. job'[p] \in JobType
  BY <1>3, BatchStep DEF BatchInv
<1>5. job'[p] = [job[p] EXCEPT !.left = Tail(job[p].left),
                    !.sum = [job[p].sum EXCEPT !.processed = Inc(@)]]
  BY <1>1, <1>2 DEF RecordRow, JobType
<1>6. db' = db /\ pc'[p] = "call" /\ arg'[p] = RowCall(Head(job[p].left))
  BY <1>2, CallShape
<1>7. Resolving(arg'[p])
  BY <1>6 DEF Resolving, RowCall, Recording
<1>8. QED
  BY <1>1, <1>2, <1>4, <1>5, <1>6, <1>7 DEF JobType

LEMMA AuditShape ==
  ASSUME IInv, BatchInv, NEW p \in Procs, AuditRow(p)
  PROVE  LET j == job[p]
             k == job'[p]
             o == classifyOutcome(ret[p])
         IN  /\ j \in JobType /\ j.busy /\ k.busy
             /\ k.records = j.records /\ k.mine = j.mine /\ k.left = j.left
             /\ o \in Outcomes /\ k.sum = Counted(j.sum, o)
             /\ k \in JobType /\ pc[p] = "done" /\ Resolving(arg[p])
             /\ db' = db /\ pc'[p] = "call" /\ arg'[p].op = "AppendAudit"
<1>1. job \in [Procs -> JobType] /\ job[p] \in JobType
  BY DEF BatchInv
<1> DEFINE o == classifyOutcome(ret[p])
<1>2. /\ job[p].busy /\ pc[p] = "done" /\ Resolving(arg[p])
      /\ Call(p, AuditCall(arg[p].row, arg[p].row.points, o))
  BY DEF AuditRow, Resolving
<1>3. BatchNext
  BY DEF BatchNext
<1>4. job'[p] \in JobType
  BY <1>3, BatchStep DEF BatchInv
<1>5. job'[p] = [job[p] EXCEPT !.sum = Counted(job[p].sum, o)]
  BY <1>1 DEF AuditRow
<1>6. db' = db /\ pc'[p] = "call" /\ arg'[p].op = "AppendAudit"
  BY <1>2, CallShape DEF AuditCall
<1>7. o \in Outcomes
  BY DEF classifyOutcome, Outcomes
<1> HIDE DEF o
<1>8. QED
  BY <1>1, <1>2, <1>4, <1>5, <1>6, <1>7 DEF JobType, o

\* What is in the log stays in the log, short of a power loss.
LEMMA LogGrows ==
  ASSUME IInv, BatchInv, NEW p \in Procs, HandlerStep(p)
  PROVE  /\ Len(db) <= Len(db') /\ Len(db) \in Nat /\ Len(db') \in Nat
         /\ \A i \in 1 .. Len(db) : db'[i] = db[i]
         /\ \A ref : RefExists(db, ref) => RefExists(db', ref)
<1>0. db \in Seq(Row) /\ Len(db) \in Nat
  BY DEF IInv, TypeOK
<1>1. CASE db' = db
  BY <1>0, <1>1
<1>2. CASE db' # db
  <2>1. PICK r \in Row : db' = Append(db, r)
    BY <1>2, HandlerGrowth DEF Paid, Opened, Audited, Row
  <2>2. Len(db') = Len(db) + 1 /\ \A i \in 1 .. Len(db) : db'[i] = db[i]
    BY <1>0, <2>1
  <2>3. QED
    BY <1>0, <2>2 DEF RefExists
<1>3. QED
  BY <1>1, <1>2

\* The log e has what the log d has.
Covers(d, e) ==
    /\ \A ref : RefExists(d, ref) => RefExists(e, ref)
    /\ \A t : (\E i \in 1 .. Len(d) : d[i] = t) => \E i \in 1 .. Len(e) : e[i] = t

\* A record that is settled stays so in a longer log, whatever is counted.
LEMMA SettledStays ==
  ASSUME NEW d, NEW e, Covers(d, e), NEW rec, NEW sum, NEW new,
         new.duplicates = 0 => sum.duplicates = 0, Settled(sum, d, rec)
  PROVE  Settled(new, e, rec)
BY DEF Settled, Covers

\* As long as the job and its call stay, a longer log is as good.
LEMMA FileGrows ==
  ASSUME NEW j, NEW k, NEW c, NEW d, NEW e, FileSound(j, c, d), Covers(d, e),
         k.busy = j.busy, k.records = j.records, k.left = j.left, k.sum = j.sum
  PROVE  FileSound(k, c, e)
BY SettledStays DEF FileSound, Aligned, Done

\* The answer of the store settles the record, if it is not a refusal.
LEMMA AnswerSettles ==
  ASSUME IInv, Promised, Requested, NEW p \in Procs, pc[p] = "done", Resolving(arg[p]),
         NEW rec, arg[p] = RowCall(rec), classifyOutcome(ret[p]) # "rejected",
         NEW sum, classifyOutcome(ret[p]) = "duplicate" => sum.duplicates # 0
  PROVE  Settled(sum, db, rec)
<1> DEFINE row == RowCall(rec).row
<1>1. ret[p].err = "none" /\ arg[p].row = row
  BY DEF classifyOutcome
<1>2. RefExists(db, row.ref)
  BY <1>1 DEF Promised, Promise, Answered, Resolving
<1>3. CASE ret[p].created
  <2>1. \E k \in 1 .. Len(db) : db[k] = row
    BY <1>1, <1>3, FreshRow DEF Fresh, Resolving
  <2>2. QED
    BY <1>2, <2>1 DEF Settled
<1>4. CASE ~ret[p].created
  <2>1. sum.duplicates # 0
    BY <1>1, <1>4 DEF classifyOutcome
  <2>2. ASSUME OneMeaning(row) PROVE \E k \in 1 .. Len(db) : db[k] = row
    <3>1. PICK k \in 1 .. Len(db) : IsTxn(db[k]) /\ db[k].ref = row.ref
      BY <1>2 DEF RefExists
    <3>2. PICK c \in Calls : c.op = "RecordTransaction" /\ c.row = db[k]
      BY <3>1 DEF Requested, Asked
    <3>3. c.row = row
      BY <2>2, <3>1, <3>2 DEF OneMeaning
    <3>4. QED
      BY <3>2, <3>3
  <2>3. QED
    BY <1>2, <2>1, <2>2 DEF Settled
<1>5. QED
  BY <1>3, <1>4

\* An idle handler is at the start of a file.
LEMMA StartOfFile ==
  ASSUME NEW s \in Seq(Records)
  PROVE  LET j == Job(TRUE, s)
         IN  /\ j \in JobType /\ j.busy /\ j.records = s /\ j.left = s /\ j.mine = {}
             /\ j.sum = EmptySummary /\ Done(j) = 0 /\ Aligned(j)
<1>1. Job(TRUE, s) \in JobType
  BY NoJobType
<1>2. Len(s) \in Nat
  OBVIOUS
<1>3. QED
  BY <1>1, <1>2 DEF Job, Done, Aligned

LEMMA FileStep ==
  ASSUME IInv, BatchInv, Promised, Requested, FileInv, NEW p \in Procs, HandlerStep(p)
  PROVE  FileInv'
<1> SUFFICES ASSUME NEW q \in Procs PROVE FileSound(job'[q], arg'[q], db')
  BY DEF FileInv
<1>0. /\ FileSound(job[q], arg[q], db) /\ job \in [Procs -> JobType]
      /\ Covers(db, db')
  BY LogGrows DEF FileInv, BatchInv, Covers
<1>1. CASE q # p
  <2>1. job'[q] = job[q] /\ arg'[q] = arg[q]
    BY <1>1, HandlerApart DEF Apart
  <2>2. FileSound(job[q], arg[q], db')
    BY <1>0, FileGrows
  <2>3. QED
    BY <2>1, <2>2
<1>2. CASE q = p
  <2> DEFINE j == job[p]
             k == job'[p]
  <2> SUFFICES FileSound(k, arg'[p], db')
    BY <1>2
  <2>j. FileSound(j, arg[p], db) /\ j \in JobType
    BY <1>0, <1>2
  <2>1. ASSUME NEW u \in Uploads, IngestBatch(p, u)
        PROVE  FileSound(k, arg'[p], db')
    <3>1. u.records \in Seq(Records)
      BY BatchAssumption DEF Upload, Records, RecordsOf
    <3>2. k = Job(TRUE, u.records) /\ arg' = arg /\ pc[p] = "idle"
      BY <1>0, <2>1 DEF IngestBatch, Free, vars
    <3>3. arg[p] = NoCall
      BY <3>2 DEF BatchInv, JobSound
    <3>4. Done(k) = 0 /\ Aligned(k)
      BY <3>1, <3>2, StartOfFile
    <3>5. arg'[p].op = "none"
      BY <3>2, <3>3 DEF NoCall
    <3> HIDE DEF k
    <3>6. QED
      BY <3>4, <3>5 DEF FileSound, Resolving
  <2>2. CASE RejectRow(p)
    <3>1. /\ j.busy /\ j.left # <<>> /\ k.records = j.records /\ k.left = Rest(p)
          /\ k.sum = Counted([j.sum EXCEPT !.processed = Inc(@)], "rejected")
          /\ k \in JobType /\ arg'[p].op = "AppendAudit"
      BY <2>2, RejectShape
    <3>2. [j.sum EXCEPT !.processed = Inc(@)] \in Summary /\ "rejected" \in Outcomes
      BY <2>j, CountedType DEF JobType, Outcomes
    <3>3. k.sum.rejected # 0
      <4>1. PICK s \in Summary : k.sum = Counted(s, "rejected")
        BY <3>1, <3>2
      <4>2. s.rejected \in Nat /\ k.sum.rejected = Inc(s.rejected)
        BY <3>2, <4>1, CountedFields DEF Summary
      <4>3. QED
        BY <4>2, IncFacts
    <3>4. Aligned(k)
      <4>1. Aligned(j)
        BY <2>j, <3>1 DEF FileSound
      <4>2. CASE Rest(p) = Tail(j.left)
        BY <2>j, <3>1, <4>1, <4>2, TakeRow
      <4>3. CASE Rest(p) = j.left
        BY <3>1, <4>1, <4>3 DEF Aligned, Done
      <4>4. QED
        BY <4>2, <4>3 DEF Rest
    <3>5. QED
      BY <3>1, <3>3, <3>4 DEF FileSound, Resolving
  <2>3. CASE RecordRow(p)
    <3>1. /\ j.busy /\ j.left # <<>> /\ k.records = j.records /\ k.left = Tail(j.left)
          /\ k.sum = [j.sum EXCEPT !.processed = Inc(@)] /\ k \in JobType
          /\ ~Resolving(arg[p]) /\ db' = db /\ Resolving(arg'[p])
          /\ arg'[p] = RowCall(Head(j.left))
      BY <2>3, RecordShape
    <3>2. /\ Aligned(k) /\ Done(k) = Done(j) + 1 /\ Done(j) \in Nat
          /\ Head(j.left) = j.records[Done(k)]
      BY <2>j, <3>1, TakeRow DEF FileSound
    <3>3. k.sum.rejected = j.sum.rejected /\ k.sum.duplicates = j.sum.duplicates
      BY <2>j, <3>1 DEF JobType, Summary
    <3> HIDE DEF j, k
    <3>4. ASSUME k.sum.rejected = 0, NEW i \in 1 .. Done(k), i < Done(k)
          PROVE  Settled(k.sum, db', k.records[i])
      <4>1. i \in 1 .. Done(j)
        BY <3>2, <3>4
      <4>2. Settled(j.sum, db, j.records[i])
        BY <2>j, <3>1, <3>3, <3>4, <4>1 DEF FileSound
      <4>3. QED
        BY <1>0, <3>1, <3>3, <4>2, SettledStays
    <3>5. QED
      BY <3>1, <3>2, <3>4 DEF FileSound, Resolving
  <2>4. CASE AuditRow(p)
    <3> DEFINE o == classifyOutcome(ret[p])
    <3>1. /\ j.busy /\ k.records = j.records /\ k.left = j.left
          /\ o \in Outcomes /\ k.sum = Counted(j.sum, o)
          /\ pc[p] = "done" /\ Resolving(arg[p])
          /\ db' = db /\ arg'[p].op = "AppendAudit"
      BY <2>4, AuditShape
    <3>2. ASSUME k.sum.rejected = 0
          PROVE  j.sum.rejected = 0 /\ o # "rejected"
      <4>1. j.sum \in Summary /\ j.sum.rejected \in Nat
        BY <2>j DEF JobType, Summary
      <4>2. k.sum.rejected = IF o = "rejected" THEN Inc(j.sum.rejected)
                                               ELSE j.sum.rejected
        BY <3>1, <4>1, CountedFields
      <4>3. QED
        BY <3>2, <4>1, <4>2, IncFacts
    <3>3. /\ k.sum.duplicates = 0 => j.sum.duplicates = 0
          /\ o = "duplicate" => k.sum.duplicates # 0
      <4>1. j.sum \in Summary /\ j.sum.duplicates \in Nat
        BY <2>j DEF JobType, Summary
      <4>2. k.sum.duplicates = IF o = "duplicate" THEN Inc(j.sum.duplicates)
                                                  ELSE j.sum.duplicates
        BY <3>1, <4>1, CountedFields
      <4>3. QED
        BY <4>1, <4>2, IncFacts
    <3>4. Aligned(k) /\ Done(k) = Done(j)
      BY <2>j, <3>1 DEF FileSound, Aligned, Done
    <3>5. Done(j) \in Int
      BY <2>j DEF JobType, Done
    <3>s. ASSUME NEW rec, arg[p] = RowCall(rec), o # "rejected"
          PROVE  Settled(k.sum, db, rec)
      BY <3>1, <3>3, <3>s, AnswerSettles
    <3> HIDE DEF o, j, k
    <3>6. ASSUME k.sum.rejected = 0, NEW i \in 1 .. Done(k)
          PROVE  Settled(k.sum, db', k.records[i])
      <4>1. CASE i < Done(j)
        <5>1. Settled(j.sum, db, j.records[i])
          BY <2>j, <3>1, <3>2, <3>4, <3>6, <4>1 DEF FileSound
        <5>2. QED
          BY <1>0, <3>1, <3>3, <5>1, SettledStays
      <4>2. CASE i = Done(j)
        <5>1. arg[p] = RowCall(j.records[i])
          BY <2>j, <3>1, <4>2 DEF FileSound
        <5>2. QED
          BY <3>1, <3>2, <3>6, <3>s, <5>1
      <4>3. QED
        BY <3>4, <3>5, <4>1, <4>2
    <3>7. QED
      BY <3>1, <3>4, <3>6 DEF FileSound, Resolving
  <2>5. CASE EndBatch(p)
    BY <1>0, <2>5, Nothing DEF EndBatch, FileSound
  <2>6. CASE Progress(p) \/ Trouble(p)
    <3>1. arg' = arg /\ k = [j EXCEPT !.mine = k.mine]
      BY <2>6, StatementShape
    <3>2. k.busy = j.busy /\ k.records = j.records /\ k.left = j.left /\ k.sum = j.sum
      BY <2>j, <3>1 DEF JobType
    <3> HIDE DEF j, k
    <3>3. QED
      BY <1>0, <2>j, <3>1, <3>2, FileGrows
  <2>7. CASE Other(p)
    BY <2>7 DEF Other, FileSound
  <2>8. QED
    BY <2>1, <2>2, <2>3, <2>4, <2>5, <2>6, <2>7 DEF HandlerStep
<1>3. QED
  BY <1>1, <1>2

\* A handler that is not at work on a file has nothing to say about one.
LEMMA CrashEnds ==
  ASSUME BatchCrash
  PROVE  \A p \in Procs : job'[p] = NoJob /\ ~job'[p].busy /\ arg'[p] = NoCall
BY Nothing DEF BatchCrash, Crash, PowerLoss, Restart

LEMMA FileInvariance == BatchSpec => []FileInv
<1>1. BatchInit => FileInv
  BY Nothing DEF BatchInit, FileInv, FileSound
<1>2. IInv /\ BatchInv /\ Promised /\ Requested /\ FileInv /\ [BatchNext]_batchVars
      => FileInv'
  <2> SUFFICES ASSUME IInv, BatchInv, Promised, Requested, FileInv,
                      [BatchNext]_batchVars
               PROVE  FileInv'
    OBVIOUS
  <2>1. CASE BatchCrash
    BY <2>1, CrashEnds DEF FileInv, FileSound
  <2>2. CASE \E p \in Procs : HandlerStep(p)
    BY <2>2, FileStep
  <2>3. CASE UNCHANGED batchVars
    BY <2>3 DEF batchVars, vars, FileInv
  <2>4. QED
    BY <2>1, <2>2, <2>3 DEF BatchNext, HandlerStep
<1>3. QED
  BY <1>1, <1>2, UploadsKeepPromises, PTL DEF BatchSpec

\* INV-9, for every file, however often it is interrupted and sent again and
\* whatever else runs beside it: when an upload is answered with no row
\* rejected, every ref of the file is in the ledger, and so is every row, with
\* its account, kind and points, if nothing was a duplicate or if every
\* request that names its ref means the same row (batch.go:65-84, 140-150).
THEOREM ResendUntilClean == BatchSpec => []CleanMeansApplied
<1>1. IInv /\ BatchInv /\ FileInv => CleanMeansApplied
  <2> SUFFICES ASSUME IInv, BatchInv, FileInv, NEW p \in Procs, Answers(p),
                      job[p].sum.rejected = 0, NEW i \in 1 .. Len(job[p].records)
               PROVE  Settled(job[p].sum, db, job[p].records[i])
    BY DEF CleanMeansApplied
  <2>1. job[p].busy /\ ~Resolving(arg[p]) /\ job[p].left = <<>>
    BY DEF Answers, AtLoop, Resolving
  <2>2. Done(job[p]) = Len(job[p].records)
    BY <2>1 DEF Done, BatchInv, JobType
  <2>3. QED
    BY <2>1, <2>2 DEF FileInv, FileSound
<1>2. QED
  BY <1>1, BatchInvariance, FileInvariance, PTL

LEMMA TallyRead ==
  ASSUME NEW sum \in Summary, NEW n \in Nat, n + 1 <= MaxRows, Tally(sum, n, 0)
  PROVE  LET new == [sum EXCEPT !.processed = Inc(@)]
         IN  /\ Tally(new, n + 1, 1) /\ new \in Summary
             /\ new.accepted = sum.accepted
<1> DEFINE new == [sum EXCEPT !.processed = Inc(@)]
<1>0. MaxRows \in Nat
  BY BatchAssumption
<1>1. /\ sum.processed \in Nat /\ sum.accepted \in Nat /\ sum.rejected \in Nat
      /\ sum.duplicates \in Nat
  BY DEF Summary
<1>2. sum.processed = n /\ sum.accepted + sum.rejected + sum.duplicates + 0 = n
  BY DEF Tally
<1>3. Inc(n) = n + 1
  BY <1>0, IncFacts
<1>4. /\ new.processed = n + 1 /\ new.accepted = sum.accepted
      /\ new.rejected = sum.rejected /\ new.duplicates = sum.duplicates
  BY <1>2, <1>3 DEF Summary
<1>5. new \in Summary
  BY CountedType DEF Outcomes
<1> HIDE DEF new
<1>6. new.accepted + new.rejected + new.duplicates + 1 = n + 1
  BY <1>1, <1>2, <1>4
<1>7. QED
  BY <1>4, <1>5, <1>6 DEF Tally, new

LEMMA TallyVerdict ==
  ASSUME NEW sum \in Summary, NEW n \in Nat, n <= MaxRows, Tally(sum, n, 1),
         NEW o \in Outcomes
  PROVE  /\ Tally(Counted(sum, o), n, 0) /\ Counted(sum, o) \in Summary
         /\ Counted(sum, o).accepted = sum.accepted + (IF o = "accepted" THEN 1 ELSE 0)
<1> DEFINE new == Counted(sum, o)
<1>0. MaxRows \in Nat
  BY BatchAssumption
<1>1. /\ sum.processed \in Nat /\ sum.accepted \in Nat /\ sum.rejected \in Nat
      /\ sum.duplicates \in Nat
  BY DEF Summary
<1>2. sum.processed = n /\ sum.accepted + sum.rejected + sum.duplicates + 1 = n
  BY DEF Tally
<1>3. /\ sum.accepted < MaxRows /\ sum.rejected < MaxRows /\ sum.duplicates < MaxRows
  BY <1>0, <1>1, <1>2
<1>4. /\ Inc(sum.accepted) = sum.accepted + 1 /\ Inc(sum.rejected) = sum.rejected + 1
      /\ Inc(sum.duplicates) = sum.duplicates + 1
  BY <1>1, <1>3, IncFacts
<1>5. /\ new \in Summary /\ new.processed = n
      /\ new.accepted = IF o = "accepted" THEN sum.accepted + 1 ELSE sum.accepted
      /\ new.rejected = IF o = "rejected" THEN sum.rejected + 1 ELSE sum.rejected
      /\ new.duplicates = IF o = "duplicate" THEN sum.duplicates + 1 ELSE sum.duplicates
  BY <1>2, <1>4, CountedFields
<1> HIDE DEF new
<1>6. new.accepted + new.rejected + new.duplicates + 0 = n
  BY <1>1, <1>2, <1>5 DEF Outcomes
<1>7. new.accepted = sum.accepted + (IF o = "accepted" THEN 1 ELSE 0)
  BY <1>1, <1>5
<1>8. QED
  BY <1>5, <1>6, <1>7 DEF Tally, new

LEMMA ReadableHead ==
  ASSUME NEW j \in JobType, Aligned(j), j.left # <<>>,
         \A i \in 1 .. Len(j.records) : j.records[i].read # "unreadable"
  PROVE  Head(j.left).read # "unreadable"
<1>1. j.records \in Seq(Records) /\ j.left \in Seq(Records)
  BY DEF JobType
<1> DEFINE all == Len(j.records)
           some == Len(j.left)
<1>2. all \in Nat /\ some \in Nat \ {0} /\ Head(j.left) = j.left[1]
  BY <1>1
<1>3. some <= all /\ j.left[1] = j.records[all - some + 1]
  <2>1. some <= all /\ Done(j) = all - some
    BY DEF Aligned, Done
  <2>2. 1 \in 1 .. Len(j.left)
    BY <1>2
  <2>3. j.left[1] = j.records[Done(j) + 1]
    BY <2>2 DEF Aligned
  <2>4. QED
    BY <2>1, <2>3
<1> HIDE DEF all, some
<1>4. all - some + 1 \in 1 .. all
  BY <1>2, <1>3
<1>5. QED
  BY <1>2, <1>3, <1>4 DEF all

\* The transactions that a statement adds to the ones of an upload.
LEMMA NewOfStatement ==
  ASSUME IInv, NEW p \in Procs, Work(p)
  PROVE  LET new == {db'[i] : i \in {k \in Len(db) + 1 .. Len(db') : IsTxn(db'[k])}}
         IN  \/ Paid(p) /\ Fresh(p)' /\ new = {arg[p].row}
             \/ ~Fresh(p)' /\ new = {}
<1> DEFINE new == {db'[i] : i \in {k \in Len(db) + 1 .. Len(db') : IsTxn(db'[k])}}
<1>0. db \in Seq(Row) /\ Len(db) \in Nat /\ pc \in [Procs -> Steps] /\ DOMAIN ret = Procs
  BY DEF IInv, TypeOK
<1>a. arg' = arg
  BY WorkKeeps
<1>1. CASE db' = db
  <2>1. ~Paid(p) /\ new = {}
    BY <1>0, <1>1 DEF Paid
  <2>2. QED
    BY <2>1, FreshlyCommitted
<1>2. CASE Paid(p)
  <2>1. db' = Append(db, arg[p].row) /\ IsTxn(arg[p].row)
    BY <1>2 DEF Paid, Transaction, IsTxn
  <2>2. Len(db') = Len(db) + 1 /\ db'[Len(db) + 1] = arg[p].row
    BY <1>0, <2>1
  <2>3. new = {arg[p].row}
    BY <1>0, <2>1, <2>2
  <2>4. ins[p] # <<>> /\ Leave(p, "none", ins[p] # <<>>, ret[p].val)
        /\ arg[p].op = "RecordTransaction"
    BY <1>2 DEF Paid, Commit
  <2>5. pc'[p] = "done" /\ ret'[p].err = "none" /\ ret'[p].created
    BY <1>0, <2>4 DEF Leave, Goto
  <2>6. QED
    BY <1>2, <1>a, <2>3, <2>4, <2>5 DEF Fresh
<1>3. CASE Opened(p) \/ Audited(p)
  <2>1. PICK r : db' = Append(db, r) /\ ~IsTxn(r) /\ r \in Row
    BY <1>3 DEF Opened, Audited, NewAccount, AuditEntry, IsTxn, Row
  <2>2. Len(db') = Len(db) + 1 /\ db'[Len(db) + 1] = r
    BY <1>0, <2>1
  <2>3. new = {}
    BY <1>0, <2>1, <2>2
  <2>4. arg[p].op # "RecordTransaction"
    BY <1>3 DEF Opened, Audited, CreateAccount, AppendAudit, Statement
  <2>5. QED
    BY <1>a, <2>3, <2>4 DEF Fresh
<1>4. QED
  BY <1>1, <1>2, <1>3, Growth DEF Step

\* The transactions of an upload stay in a log that only grows.
LEMMA CountGrows ==
  ASSUME NEW j, NEW c, NEW d, NEW e, NEW fresh \in BOOLEAN, CountSound(j, c, fresh, d),
         \A t : (\E i \in 1 .. Len(d) : d[i] = t) => \E i \in 1 .. Len(e) : e[i] = t
  PROVE  CountSound(j, c, fresh, e)
BY DEF CountSound

LEMMA CountStep ==
  ASSUME Readable, IInv, BatchInv, FileInv, CountInv, NEW p \in Procs, HandlerStep(p)
  PROVE  CountInv'
<1> SUFFICES ASSUME NEW q \in Procs
             PROVE  CountSound(job'[q], arg'[q], Fresh(q)', db')
  BY DEF CountInv
<1>0. /\ CountSound(job[q], arg[q], Fresh(q), db) /\ job \in [Procs -> JobType]
      /\ FileSound(job[q], arg[q], db)
  BY DEF FileInv, BatchInv, CountInv
<1>g. \A t : (\E i \in 1 .. Len(db) : db[i] = t) => \E i \in 1 .. Len(db') : db'[i] = t
  BY LogGrows
<1>1. CASE q # p
  <2>1. job'[q] = job[q] /\ arg'[q] = arg[q] /\ Fresh(q)' = Fresh(q)
    BY <1>1, HandlerApart DEF Apart, Fresh
  <2>2. CountSound(job[q], arg[q], Fresh(q), db')
    BY <1>0, <1>g, CountGrows DEF Fresh
  <2>3. QED
    BY <2>1, <2>2
<1>2. CASE q = p
  <2> DEFINE j == job[p]
             k == job'[p]
  <2> SUFFICES CountSound(k, arg'[p], Fresh(p)', db')
    BY <1>2
  <2>j. /\ CountSound(j, arg[p], Fresh(p), db) /\ j \in JobType
        /\ FileSound(j, arg[p], db)
    BY <1>0, <1>2
  <2>t. j.sum \in Summary /\ j.sum.accepted \in Nat /\ j.sum.processed \in Nat
    BY <2>j DEF JobType, Summary
  <2>l. Len(j.records) \in Nat
    BY <2>j DEF JobType
  <2>m. MaxRows \in Nat
    BY BatchAssumption
  <2>1. ASSUME NEW u \in Uploads, IngestBatch(p, u)
        PROVE  CountSound(k, arg'[p], Fresh(p)', db')
    <3>1. u.records \in Seq(Records)
      BY BatchAssumption DEF Upload, Records, RecordsOf
    <3>2. k = Job(TRUE, u.records) /\ UNCHANGED vars /\ pc[p] = "idle"
      BY <1>0, <2>1 DEF IngestBatch, Free
    <3>3. ~Resolving(arg'[p]) /\ ~Fresh(p)'
      BY <3>2 DEF BatchInv, JobSound, NoCall, vars, Fresh, Resolving
    <3>4. PICK s \in Seq(Records) : s = u.records
      BY <3>1
    <3>5. /\ k.busy /\ k.records = s /\ k.mine = {} /\ Done(k) = 0
          /\ k.sum = EmptySummary
      <4>1. k = Job(TRUE, s)
        BY <3>2, <3>4
      <4> HIDE DEF k
      <4>2. QED
        BY <4>1, StartOfFile
    <3>6. /\ Len(s) <= MaxRows /\ \A i \in 1 .. Len(s) : s[i].read # "unreadable"
      BY <3>4 DEF Readable
    <3>7. IsFiniteSet({}) /\ Cardinality({}) = 0
      BY FS_EmptySet
    <3> HIDE DEF k
    <3>8. Tally(k.sum, 0, 0) /\ k.sum.accepted = 0
      BY <3>5 DEF Tally, EmptySummary
    <3>9. QED
      BY <3>3, <3>5, <3>6, <3>7, <3>8 DEF CountSound
  <2>2. CASE RejectRow(p)
    <3> DEFINE sum == [j.sum EXCEPT !.processed = Inc(@)]
    <3>1. /\ j.busy /\ k.busy /\ j.left # <<>> /\ k.records = j.records
          /\ k.left = Rest(p) /\ k.mine = j.mine /\ k.sum = Counted(sum, "rejected")
          /\ k \in JobType /\ ~Resolving(arg[p]) /\ db' = db
          /\ pc'[p] = "call" /\ arg'[p].op = "AppendAudit"
      BY <2>2, RejectShape
    <3>2. Rest(p) = Tail(j.left)
      BY <2>j, <3>1, ReadableHead DEF CountSound, FileSound, Rest
    <3>3. Done(k) = Done(j) + 1 /\ Done(j) \in Nat /\ Done(k) <= Len(j.records)
      BY <2>j, <3>1, <3>2, TakeRow DEF FileSound
    <3>4. ~Fresh(p)' /\ ~Fresh(p) /\ ~Resolving(arg'[p])
      BY <3>1 DEF Fresh, Resolving
    <3>5. Tally(j.sum, Done(j), 0) /\ Done(k) <= MaxRows
      <4>1. Tally(j.sum, Done(j), 0) /\ Len(j.records) <= MaxRows
        BY <2>j, <3>1 DEF CountSound
      <4>2. QED
        BY <2>l, <2>m, <3>3, <4>1
    <3>6. Tally(sum, Done(k), 1) /\ sum \in Summary /\ sum.accepted = j.sum.accepted
      BY <2>t, <3>3, <3>5, TallyRead
    <3> HIDE DEF sum
    <3>7. Tally(k.sum, Done(k), 0) /\ k.sum.accepted = j.sum.accepted
      <4>1. "rejected" \in Outcomes /\ "rejected" # "accepted" /\ Done(k) \in Nat
        BY <3>3 DEF Outcomes
      <4>2. /\ Tally(k.sum, Done(k), 0) /\ k.sum.accepted = sum.accepted + 0
        BY <3>1, <3>5, <3>6, <4>1, TallyVerdict
      <4>3. QED
        BY <2>t, <3>6, <4>2
    <3> HIDE DEF j, k
    <3>8. QED
      BY <2>j, <3>1, <3>4, <3>7 DEF CountSound
  <2>3. CASE RecordRow(p)
    <3>1. /\ j.busy /\ k.busy /\ j.left # <<>> /\ k.records = j.records
          /\ k.left = Tail(j.left) /\ k.mine = j.mine
          /\ k.sum = [j.sum EXCEPT !.processed = Inc(@)]
          /\ k \in JobType /\ ~Resolving(arg[p]) /\ db' = db
          /\ pc'[p] = "call" /\ Resolving(arg'[p])
      BY <2>3, RecordShape
    <3>2. Done(k) = Done(j) + 1 /\ Done(j) \in Nat /\ Done(k) <= Len(j.records)
      BY <2>j, <3>1, TakeRow DEF FileSound
    <3>3. ~Fresh(p)' /\ ~Fresh(p)
      BY <3>1 DEF Fresh, Resolving
    <3>4. Tally(j.sum, Done(j), 0) /\ Done(k) <= MaxRows
      <4>1. Tally(j.sum, Done(j), 0) /\ Len(j.records) <= MaxRows
        BY <2>j, <3>1 DEF CountSound
      <4>2. QED
        BY <2>l, <2>m, <3>2, <4>1
    <3>5. Tally(k.sum, Done(k), 1) /\ k.sum.accepted = j.sum.accepted
      BY <2>t, <3>1, <3>2, <3>4, TallyRead
    <3> HIDE DEF j, k
    <3>6. QED
      BY <2>j, <3>1, <3>3, <3>5 DEF CountSound
  <2>4. CASE AuditRow(p)
    <3> DEFINE o == classifyOutcome(ret[p])
    <3>1. /\ j.busy /\ k.busy /\ k.records = j.records /\ k.left = j.left
          /\ k.mine = j.mine /\ o \in Outcomes /\ k.sum = Counted(j.sum, o)
          /\ pc[p] = "done" /\ Resolving(arg[p])
          /\ db' = db /\ pc'[p] = "call" /\ arg'[p].op = "AppendAudit"
      BY <2>4, AuditShape
    <3>2. Done(k) = Done(j)
      BY <3>1 DEF Done
    <3>3. Tally(j.sum, Done(j), 1) /\ Len(j.records) <= MaxRows
      BY <2>j, <3>1 DEF CountSound
    <3>4. Done(j) \in Nat /\ Done(j) <= MaxRows
      <4> DEFINE all == Len(j.records)
                 some == Len(j.left)
      <4>0. Done(j) = all - some /\ some \in Nat /\ all \in Nat
        BY <2>j, <2>l DEF Done, JobType
      <4> HIDE DEF all, some
      <4>1. Done(j) <= all
        BY <4>0
      <4>2. j.sum.processed = Done(j)
        BY <3>3 DEF Tally
      <4>3. QED
        BY <2>l, <2>m, <2>t, <3>3, <4>1, <4>2 DEF all
    <3>5. (o = "accepted" <=> Fresh(p)) /\ ~Fresh(p)' /\ ~Resolving(arg'[p])
      <4>1. ret[p].created \in BOOLEAN
        BY DEF IInv, TypeOK
      <4>2. QED
        BY <3>1, <4>1 DEF classifyOutcome, Fresh, Resolving
    <3> HIDE DEF o
    <3>6. /\ Tally(k.sum, Done(k), 0)
          /\ k.sum.accepted = j.sum.accepted + (IF o = "accepted" THEN 1 ELSE 0)
      BY <2>t, <3>1, <3>2, <3>3, <3>4, TallyVerdict
    <3> HIDE DEF j, k
    <3>7. k.sum.accepted = Cardinality(k.mine) /\ k.sum.accepted \in Nat
      <4>1. j.sum.accepted + (IF Fresh(p) THEN 1 ELSE 0) = Cardinality(j.mine)
        BY <2>j, <3>1 DEF CountSound
      <4>2. QED
        BY <2>t, <3>1, <3>5, <3>6, <4>1
    <3>8. QED
      BY <2>j, <3>1, <3>5, <3>6, <3>7 DEF CountSound
  <2>5. CASE EndBatch(p)
    BY <1>0, <2>5, Nothing DEF EndBatch, CountSound
  <2>6. CASE Progress(p)
    <3> DEFINE new == {db'[i] : i \in {l \in Len(db) + 1 .. Len(db') : IsTxn(db'[l])}}
    <3>1. /\ Work(p) /\ arg' = arg /\ ~Fresh(p)
          /\ job' = IF job[p].busy THEN [job EXCEPT ![p].mine = @ \cup new] ELSE job
      BY <2>6, WorkKeeps, WorkInFlight DEF Progress, Fresh, InFlight
    <3>2. CASE ~j.busy
      BY <2>j, <3>1, <3>2 DEF CountSound
    <3>3. CASE j.busy
      <4>n. \/ Paid(p) /\ Fresh(p)' /\ new = {arg[p].row}
            \/ ~Fresh(p)' /\ new = {}
        BY <3>1, NewOfStatement
      <4> HIDE DEF new
      <4>1. k = [j EXCEPT !.mine = j.mine \cup new]
        BY <1>0, <3>1, <3>3
      <4>2. /\ k.busy /\ k.records = j.records /\ k.left = j.left /\ k.sum = j.sum
            /\ k.mine = j.mine \cup new
        BY <2>j, <3>3, <4>1 DEF JobType
      <4>3. Done(k) = Done(j)
        BY <4>2 DEF Done
      <4>4. /\ IsFiniteSet(j.mine) /\ j.sum.accepted = Cardinality(j.mine)
            /\ \A t \in j.mine : \E i \in 1 .. Len(db) : db[i] = t
        <5>1. j.sum.accepted + 0 = Cardinality(j.mine)
          BY <2>j, <3>1, <3>3 DEF CountSound
        <5>2. QED
          BY <2>j, <2>t, <3>3, <5>1 DEF CountSound
      <4>5. CASE ~Fresh(p)' /\ new = {}
        <5>1. k.mine = j.mine /\ j.sum.accepted + 0 = Cardinality(j.mine)
          BY <2>t, <4>2, <4>4, <4>5
        <5> HIDE DEF j, k
        <5>2. QED
          BY <1>g, <2>j, <3>1, <3>3, <4>2, <4>3, <4>4, <4>5, <5>1 DEF CountSound
      <4>6. CASE Paid(p) /\ Fresh(p)' /\ new = {arg[p].row}
        <5> DEFINE t == arg[p].row
        <5>1. IsTxn(t) /\ ~RefExists(db, t.ref) /\ db' = Append(db, t)
          BY <4>6 DEF Paid, Transaction, IsTxn
        <5>2. t \notin j.mine
          BY <4>4, <5>1 DEF RefExists
        <5>3. \E i \in 1 .. Len(db') : db'[i] = t
          <6>1. db \in Seq(Row) /\ Len(db) \in Nat
            BY DEF IInv, TypeOK
          <6>2. Len(db) + 1 \in 1 .. Len(db') /\ db'[Len(db) + 1] = t
            BY <5>1, <6>1
          <6>3. QED
            BY <6>2
        <5> HIDE DEF t
        <5>4. k.mine = j.mine \cup {t}
          BY <4>2, <4>6 DEF t
        <5>5. /\ IsFiniteSet(k.mine) /\ j.sum.accepted + 1 = Cardinality(k.mine)
          <6> DEFINE m == j.mine
          <6>1. IsFiniteSet(m) /\ t \notin m
            BY <4>4, <5>2
          <6> HIDE DEF m
          <6>2. /\ IsFiniteSet(m \cup {t})
                /\ Cardinality(m \cup {t}) = Cardinality(m) + 1
            BY <6>1, FS_AddElement
          <6>3. QED
            BY <4>4, <5>4, <6>2 DEF m
        <5> HIDE DEF j, k
        <5>6. \A x \in k.mine : \E i \in 1 .. Len(db') : db'[i] = x
          BY <1>g, <4>4, <5>3, <5>4
        <5>7. QED
          BY <2>j, <3>1, <3>3, <4>2, <4>3, <4>6, <5>5, <5>6 DEF CountSound
      <4>7. QED
        BY <4>5, <4>6, <4>n
    <3>4. QED
      BY <3>2, <3>3
  <2>7. CASE Trouble(p)
    <3>1. /\ Disconnect(p) \/ Cancelled(p) \/ Fault(p)
          /\ job' = job /\ db' = db /\ arg' = arg /\ ~Fresh(p)
      BY <2>7, WorkInFlight
         DEF Trouble, Disconnect, Cancelled, Fault, Fresh, InFlight
    <3>2. ~Paid(p)
      BY <3>1 DEF Paid, IInv, TypeOK
    <3>3. ~Fresh(p)'
      BY <3>1, <3>2, FreshlyCommitted
    <3>4. CountSound(j, arg[p], FALSE, db)
      BY <2>j, <3>1 DEF CountSound
    <3>5. QED
      BY <3>1, <3>3, <3>4 DEF CountSound
  <2>8. CASE Other(p)
    BY <2>8, <2>j DEF Other, CountSound
  <2>9. QED
    BY <2>1, <2>2, <2>3, <2>4, <2>5, <2>6, <2>7, <2>8 DEF HandlerStep
<1>3. QED
  BY <1>1, <1>2

LEMMA CountInvariance == Readable => (BatchSpec => []CountInv)
<1> SUFFICES ASSUME Readable PROVE BatchSpec => []CountInv
  OBVIOUS
<1>1. BatchInit => CountInv
  BY Nothing DEF BatchInit, CountInv, CountSound
<1>2. IInv /\ BatchInv /\ FileInv /\ CountInv /\ [BatchNext]_batchVars => CountInv'
  <2> SUFFICES ASSUME IInv, BatchInv, FileInv, CountInv, [BatchNext]_batchVars
               PROVE  CountInv'
    OBVIOUS
  <2>1. CASE BatchCrash
    BY <2>1, CrashEnds DEF CountInv, CountSound
  <2>2. CASE \E p \in Procs : HandlerStep(p)
    BY <2>2, CountStep
  <2>3. CASE UNCHANGED batchVars
    <3>1. \A p \in Procs : Fresh(p)' = Fresh(p)
      BY <2>3 DEF batchVars, vars, Fresh
    <3>2. QED
      BY <2>3, <3>1 DEF batchVars, vars, CountInv, CountSound
  <2>4. QED
    BY <2>1, <2>2, <2>3 DEF BatchNext, HandlerStep
<1>3. QED
  BY <1>1, <1>2, BatchInvariance, FileInvariance, PTL DEF BatchSpec

\* INV-10, for all files that the counters of the model can count: whatever
\* races, fails or hangs up, the summary is the truth after every row, and
\* the one that is answered counts every record of the file
\* (batch.go:82, 106-121).
THEOREM SummaryIsTrue == Readable => (BatchSpec => []SummaryTruthful)
<1> SUFFICES ASSUME Readable PROVE BatchSpec => []SummaryTruthful
  OBVIOUS
<1>1. IInv /\ BatchInv /\ CountInv => SummaryTruthful
  <2> SUFFICES ASSUME IInv, BatchInv, CountInv, NEW p \in Procs
               PROVE  /\ job[p].busy /\ arg[p].op # "RecordTransaction"
                            => Truthful(job[p].sum, job[p].mine)
                      /\ Answers(p) => job[p].sum.processed = Len(job[p].records)
    BY DEF SummaryTruthful
  <2>0. job[p] \in JobType /\ CountSound(job[p], arg[p], Fresh(p), db)
    BY DEF BatchInv, CountInv
  <2> DEFINE j == job[p]
  <2>t. /\ j.sum.accepted \in Nat /\ j.sum.rejected \in Nat
        /\ j.sum.duplicates \in Nat
    BY <2>0 DEF JobType, Summary
  <2>1. ASSUME j.busy, arg[p].op # "RecordTransaction" PROVE Truthful(j.sum, j.mine)
    <3>1. ~Resolving(arg[p]) /\ ~Fresh(p)
      BY <2>1 DEF Resolving, Fresh
    <3>2. /\ j.sum.accepted + 0 = Cardinality(j.mine)
          /\ j.sum.processed = Done(j)
          /\ j.sum.accepted + j.sum.rejected + j.sum.duplicates + 0 = Done(j)
          /\ \A t \in j.mine : \E i \in 1 .. Len(db) : db[i] = t
      BY <2>0, <2>1, <3>1 DEF CountSound, Tally
    <3>3. QED
      BY <2>t, <3>2 DEF Truthful
  <2>2. ASSUME Answers(p) PROVE j.sum.processed = Len(j.records)
    <3>1. j.busy /\ j.left = <<>>
      BY <2>2 DEF Answers, AtLoop
    <3>2. j.sum.processed = Done(j)
      BY <2>0, <3>1 DEF CountSound, Tally
    <3>3. QED
      BY <2>0, <3>1, <3>2 DEF Done, JobType
  <2>3. QED
    BY <2>1, <2>2
<1>2. QED
  BY <1>1, BatchInvariance, CountInvariance, PTL

\* Under the same condition every variable of an upload has its type, a
\* handler without an upload appends no audit entry, and a busy one has
\* counted exactly the records it has read.
THEOREM UploadTypes == Readable => (BatchSpec => []BatchTypeOK)
<1> SUFFICES ASSUME Readable PROVE BatchSpec => []BatchTypeOK
  OBVIOUS
<1>1. BatchInv /\ AuditInv /\ FileInv /\ CountInv => BatchTypeOK
  <2> SUFFICES ASSUME BatchInv, AuditInv, FileInv, CountInv PROVE BatchTypeOK
    OBVIOUS
  <2>1. Records \subseteq CsvRecord
    BY BatchAssumption DEF Records, RecordsOf, Upload
  <2>2. job \in [Procs -> [busy : BOOLEAN, records : Seq(CsvRecord),
                           left : Seq(CsvRecord), sum : Summary,
                           mine : SUBSET Transaction]]
    <3>1. \A s \in Seq(Records) : s \in Seq(CsvRecord)
      BY <2>1
    <3>2. job \in [Procs -> JobType]
      BY DEF BatchInv
    <3>3. QED
      BY <3>1, <3>2 DEF JobType
  <2>3. ASSUME NEW p \in Procs, job[p].busy
        PROVE  /\ arg[p].op \in {"none", "RecordTransaction", "AppendAudit"}
               /\ job[p].sum.processed = Len(job[p].records) - Len(job[p].left)
    BY <2>3 DEF FileInv, FileSound, CountInv, CountSound, Tally, Done
  <2>4. ASSUME NEW p \in Procs, ~job[p].busy
        PROVE  job[p] = NoJob /\ arg[p].op # "AppendAudit"
    BY <2>4 DEF CountInv, CountSound, AuditInv, OnlyUploadsAudit
  <2>5. QED
    BY <2>2, <2>3, <2>4 DEF BatchTypeOK
<1>2. QED
  BY <1>1, BatchInvariance, AuditInvariance, FileInvariance, CountInvariance, PTL

=============================================================================
