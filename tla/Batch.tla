-------------------------------- MODULE Batch --------------------------------
(***************************************************************************)
(* POST /batch (internal/httpapi/batch.go): an admin uploads a CSV file,   *)
(* each row goes through the services of a single POST /transactions, and  *)
(* an audit entry is appended after it, in a store call of its own.        *)
(*                                                                         *)
(* job[p] is the upload that handler p is working on: the records still to *)
(* be read, the summary so far and, for the properties only, the rows this *)
(* upload put into the ledger.  Other handlers serve ordinary requests     *)
(* meanwhile (Traffic).                                                    *)
(*                                                                         *)
(* A record is what reader.Read() and parseRow can tell apart: a line that *)
(* csv cannot split ("broken"), a file that cannot be read ("unreadable"), *)
(* or fields, of which the missing ones are empty.                         *)
(***************************************************************************)
EXTENDS Store

CONSTANTS
    Uploads,        \* the uploads clients may send
    Traffic,        \* the store calls of other requests
    MaxRows         \* bound: the summary counts up to here

CsvRecord ==
    [read : {"fields", "broken", "unreadable"}, fields : Nat,
     ref : Refs \cup {NoRef}, account : AccountIds \cup {AnyAccount},
     kind : AttemptedKinds, points : Int, time : BOOLEAN]

Upload ==
    [by : Roles, part : BOOLEAN, header : BOOLEAN, records : Seq(CsvRecord)]

VARIABLE job

batchVars == <<vars, job>>

EmptySummary == [processed |-> 0, accepted |-> 0, rejected |-> 0, duplicates |-> 0]

Job(busy, records) ==
    [busy |-> busy, records |-> records, left |-> records, sum |-> EmptySummary,
     mine |-> {}]
NoJob == Job(FALSE, <<>>)

Inc(n) == IF n < MaxRows THEN n + 1 ELSE n

-----------------------------------------------------------------------------
(***************************************************************************)
(* What happens to a row.                                                  *)
(***************************************************************************)
HeaderLength == 5

\* Points that do not parse as an int64 are among those that are not Points.
parseRow(rec) ==
    /\ rec.fields = HeaderLength
    /\ rec.kind \in {"earn", "spend"}
    /\ rec.points \in Points
    /\ rec.time

\* RecordEarn and RecordSpend refuse an empty ref or account themselves.
Accepts(rec) == rec.ref # NoRef /\ rec.account # AnyAccount

Recordable(rec) == rec.read = "fields" /\ parseRow(rec) /\ Accepts(rec)

RowCall(rec) == Recording(rec, rec.kind, NoReward)

\* Mutant: a duplicate is reported as accepted.
classifyCreatedOnly(c) == IF c.err = "none" THEN "accepted" ELSE "rejected"

\* Mutant: an error counts as a replay.
classifyNoErrors(c) == IF c.created THEN "accepted" ELSE "duplicate"

classifyOutcome(c) ==
    CASE c.err = "none" /\ c.created -> "accepted"
      [] c.err = "none" /\ ~c.created -> "duplicate"
      [] OTHER -> "rejected"

Bucket == [accepted |-> "accepted", rejected |-> "rejected",
           duplicate |-> "duplicates"]

Counted(sum, outcome) == [sum EXCEPT ![Bucket[outcome]] = Inc(@)]

AuditCall(row, points, outcome) ==
    [op |-> "AppendAudit",
     row |-> [table |-> "audit_log", ref |-> row.ref, account |-> row.account,
              kind |-> row.kind, points |-> points, outcome |-> outcome]]

\* A row that does not parse is audited with 0 points.
RejectionCall(rec) ==
    AuditCall(rec, IF rec.read = "fields" /\ parseRow(rec) THEN rec.points ELSE 0,
              "rejected")

\* Every store call that an upload can lead to.
BatchCalls(u) ==
    LET recs == {u.records[i] : i \in 1 .. Len(u.records)}
    IN  {RejectionCall(rec) : rec \in recs}
        \cup UNION {{RowCall(rec)} \cup {AuditCall(rec, rec.points, o) : o \in Outcomes} :
                       rec \in {x \in recs : Recordable(x)}}

ASSUME BatchAssumption ==
    /\ Uploads \subseteq Upload
    /\ \A u \in Uploads : BatchCalls(u) \subseteq Calls
    /\ Traffic \subseteq Calls
    /\ \A c \in Traffic : c.op # "AppendAudit"
    /\ MaxRows \in Nat \ {0}

-----------------------------------------------------------------------------
(***************************************************************************)
(* The handler.                                                            *)
(***************************************************************************)
BatchInit ==
    /\ Init
    /\ job = [p \in Procs |-> NoJob]

Free(p) == pc[p] = "idle" /\ ~job[p].busy

\* The contract makes the file part mandatory, so that the validator refuses
\* an upload without it before anybody asks who sent it.
UploadStatus(u) ==
    IF ~u.part THEN 400
    ELSE IF u.by # "admin" THEN 403
    ELSE IF ~u.header THEN 400 ELSE 200

\* A refused upload is answered and leaves no trace.
IngestBatch(p, u) ==
    /\ Free(p)
    /\ UploadStatus(u) = 200
    /\ job' = [job EXCEPT ![p] = Job(TRUE, u.records)]
    /\ UNCHANGED vars

\* The handler is at the top of its loop: the last row is classified, and its
\* audit entry is written or has failed, which nobody looks at.
AtLoop(p) == job[p].busy /\ ~InFlight(p) /\ arg[p].op # "RecordTransaction"

\* The file stands still when it cannot be read.
Rest(p) ==
    IF Head(job[p].left).read = "unreadable" THEN job[p].left
                                             ELSE Tail(job[p].left)

\* Mutant: a line that csv cannot split is not counted.
RejectRowUncounted(p) ==
    LET rec == Head(job[p].left)
    IN  /\ AtLoop(p) /\ job[p].left # <<>>
        /\ ~Recordable(rec)
        /\ Call(p, RejectionCall(rec))
        /\ job' = [job EXCEPT ![p].left = Rest(p),
                              ![p].sum = Counted(@, "rejected")]

RejectRow(p) ==
    LET rec == Head(job[p].left)
        sum == [job[p].sum EXCEPT !.processed = Inc(@)]
    IN  /\ AtLoop(p) /\ job[p].left # <<>>
        /\ ~Recordable(rec)
        /\ Call(p, RejectionCall(rec))
        /\ job' = [job EXCEPT ![p].left = Rest(p),
                              ![p].sum = Counted(sum, "rejected")]

RecordRow(p) ==
    LET rec == Head(job[p].left)
    IN  /\ AtLoop(p) /\ job[p].left # <<>>
        /\ Recordable(rec)
        /\ Call(p, RowCall(rec))
        /\ job' = [job EXCEPT ![p].left = Rest(p),
                              ![p].sum.processed = Inc(@)]

\* Mutant: the audit entry goes to the database behind the store's back.
AuditRowDirect(p) ==
    LET outcome == classifyOutcome(ret[p])
        c == AuditCall(arg[p].row, arg[p].row.points, outcome)
    IN  /\ job[p].busy /\ pc[p] = "done" /\ arg[p].op = "RecordTransaction"
        /\ db' = Append(db, c.row) /\ arg' = [arg EXCEPT ![p] = c]
        /\ job' = [job EXCEPT ![p].sum = Counted(@, outcome)]
        /\ UNCHANGED <<tx, pc, snap, ins, ret, gone>>

\* The service has answered: classify, count and audit.
AuditRow(p) ==
    LET outcome == classifyOutcome(ret[p])
    IN  /\ job[p].busy /\ pc[p] = "done" /\ arg[p].op = "RecordTransaction"
        /\ Call(p, AuditCall(arg[p].row, arg[p].row.points, outcome))
        /\ job' = [job EXCEPT ![p].sum = Counted(@, outcome)]

\* End of file: the summary is the answer, if the client is still there.
Answers(p) == AtLoop(p) /\ job[p].left = <<>>

\* A file without rows made no store call.
EndBatch(p) ==
    /\ Answers(p)
    /\ IF pc[p] = "done" THEN Return(p) ELSE UNCHANGED vars
    /\ job' = [job EXCEPT ![p] = NoJob]

\* A statement of the store; what it commits for an upload is noted.
Progress(p) ==
    LET new == {db'[i] : i \in {j \in Len(db) + 1 .. Len(db') : IsTxn(db'[j])}}
    IN  /\ Work(p)
        /\ job' = IF job[p].busy THEN [job EXCEPT ![p].mine = @ \cup new] ELSE job

Trouble(p) ==
    /\ Disconnect(p) \/ Cancelled(p) \/ Fault(p)
    /\ UNCHANGED job

\* A handler that serves another request.
Other(p) ==
    /\ ~job[p].busy
    /\ (\E c \in Traffic : pc[p] = "idle" /\ Call(p, c)) \/ Return(p)
    /\ UNCHANGED job

\* The process or the power stops, and the upload is forgotten.
BatchCrash ==
    /\ Crash \/ PowerLoss
    /\ job' = [p \in Procs |-> NoJob]

BatchNext ==
    \/ \E p \in Procs :
          \/ \E u \in Uploads : IngestBatch(p, u)
          \/ RejectRow(p) \/ RecordRow(p) \/ AuditRow(p) \/ EndBatch(p)
          \/ Progress(p) \/ Trouble(p) \/ Other(p)
    \/ BatchCrash

\* The handler's own steps are plain computation: a goroutine that can run does.
BatchFairness ==
    \A p \in Procs :
        /\ SF_batchVars(Progress(p))
        /\ WF_batchVars(Cancelled(p) /\ UNCHANGED job)
        /\ WF_batchVars(RejectRow(p) \/ RecordRow(p) \/ AuditRow(p) \/ EndBatch(p))
        /\ WF_batchVars(Return(p) /\ Other(p))

BatchSpec == BatchInit /\ [][BatchNext]_batchVars
BatchFairSpec == BatchSpec /\ BatchFairness

-----------------------------------------------------------------------------
(***************************************************************************)
(* Properties.                                                             *)
(***************************************************************************)

Summary == [processed : Nat, accepted : Nat, rejected : Nat, duplicates : Nat]

\* Every variable has its type, a handler without an upload appends no audit
\* entry, and a busy one has counted exactly the records it has read.
BatchTypeOK ==
    /\ job \in [Procs -> [busy : BOOLEAN, records : Seq(CsvRecord),
                          left : Seq(CsvRecord), sum : Summary,
                          mine : SUBSET Transaction]]
    /\ \A p \in Procs :
          IF job[p].busy
          THEN /\ arg[p].op \in {"none", "RecordTransaction", "AppendAudit"}
               /\ job[p].sum.processed = Len(job[p].records) - Len(job[p].left)
          ELSE job[p] = NoJob /\ arg[p].op # "AppendAudit"

\* A summary adds up, and what it counts as accepted are the transactions
\* that this upload put into the ledger.
Truthful(sum, mine) ==
    /\ sum.processed = sum.accepted + sum.rejected + sum.duplicates
    /\ sum.accepted = Cardinality(mine)
    /\ \A t \in mine : \E i \in 1 .. Len(db) : db[i] = t

\* INV-10: whatever else races for the same refs, fails or hangs up, the
\* summary is the truth after every row, and the one that is answered counts
\* every record of the file (batch.go:82, 106-121).
SummaryTruthful ==
    \A p \in Procs :
        /\ job[p].busy /\ arg[p].op # "RecordTransaction"
              => Truthful(job[p].sum, job[p].mine)
        /\ Answers(p) => job[p].sum.processed = Len(job[p].records)

\* "AFTER its transaction resolves (never inside it)" (batch.go:35-36): in
\* every prefix of the log, hence after a crash or a power loss at any point,
\* an audited acceptance has its transaction before it and is the only one
\* for its ref, and an audited duplicate has a transaction of its ref.
AuditFollowsMoney ==
    \A i \in 1 .. Len(db) : IsAudit(db[i]) =>
        /\ db[i].outcome = "accepted" =>
              /\ \E j \in 1 .. i - 1 :
                    /\ IsTxn(db[j]) /\ db[j].ref = db[i].ref
                    /\ db[j].account = db[i].account /\ db[j].kind = db[i].kind
                    /\ db[j].points = db[i].points
              /\ \A k \in 1 .. Len(db) :
                    /\ IsAudit(db[k]) /\ db[k].ref = db[i].ref
                    /\ db[k].outcome = "accepted"
                    => k = i
        /\ db[i].outcome = "duplicate" =>
              \E j \in 1 .. i - 1 : IsTxn(db[j]) /\ db[j].ref = db[i].ref

\* Every request that names the ref of this row means this row: what makes a
\* ref "the idempotency key" of one transaction (docs/REST_API_GUIDELINES.md:77).
OneMeaning(row) ==
    \A c \in Calls : c.op = "RecordTransaction" /\ c.row.ref = row.ref => c.row = row

\* What a clean summary says of a record: its ref is in the ledger, and so is
\* the row itself, unless the upload saw a duplicate and the ref stands for
\* another row elsewhere.
Settled(sum, d, rec) ==
    LET row == RowCall(rec).row
    IN  /\ RefExists(d, row.ref)
        /\ (sum.duplicates = 0 \/ OneMeaning(row))
              => \E k \in 1 .. Len(d) : d[k] = row

\* INV-9: a file that was interrupted is sent again until nothing in it is
\* rejected (batch.go:65-84).  Then every ref of it is in the ledger, from
\* whichever attempt, and so is every row, with its account, kind and points,
\* if nothing was a duplicate or if nobody else uses its ref for something
\* else.  A row whose ref another transaction has is counted as a duplicate
\* and not applied (batch.go:143-144): of that row the answer says no more.
CleanMeansApplied ==
    \A p \in Procs :
        Answers(p) /\ job[p].sum.rejected = 0
        => \A i \in 1 .. Len(job[p].records) :
              Settled(job[p].sum, db, job[p].records[i])

\* "driven through the SAME earn/spend services" (batch.go:31-34): a batch
\* does nothing to the store that single requests could not do.
BatchUsesStore == PowerSpec

\* The loop over the records comes to an end, and so does every request that
\* waits for the connection meanwhile.
UploadEnds ==
    \A p \in Procs : /\ job[p].busy ~> ~job[p].busy
                     /\ InFlight(p) ~> ~InFlight(p)

=============================================================================
