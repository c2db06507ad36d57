--------------------------- MODULE PromiseProofs -----------------------------
(***************************************************************************)
(* What the store promises its callers, for any number of callers,         *)
(* accounts, refs and points: an answer is what the ledger holds and goes  *)
(* on to hold, a refusal is justified, an account whose sum has overflowed *)
(* pays nothing any more, the reads of a balance agree, a read of two      *)
(* statements answers for one state, and every step is one of the wallet   *)
(* of Points.                                                              *)
(*                                                                         *)
(* The invariant is Promised, beside IInv of StoreProofs: it follows a     *)
(* transaction from its insert over the check and the read-back to the     *)
(* commit, and what was answered for as long as the caller holds it.       *)
(***************************************************************************)
EXTENDS StoreProofs

\* One step of caller p.
Step(p) ==
    \/ \E c \in Calls : Call(p, c)
    \/ Return(p) \/ Work(p) \/ Disconnect(p) \/ Cancelled(p) \/ Fault(p)

NewAccount(c) ==
    [table |-> "accounts", account |-> c.account, hash |-> c.hash, role |-> "member"]

\* What the caller was told is what the database holds.
Answered(p) ==
    LET c == arg[p]
    IN  pc[p] = "done" /\ ret[p].err = "none" =>
          /\ c.op = "RecordTransaction" =>
                /\ RefExists(db, c.row.ref)
                /\ ret[p].val = RowVal(GetTransactionByRef(db, c.row.ref))
                /\ ret[p].created => ret[p].val = RowVal(c.row)
          /\ c.op \in {"GetAccount", "GetCredential"} =>
                /\ AccountExists(db, c.account)
                /\ ret[p].val = RowVal(GetAccount(db, c.account))
          /\ c.op = "CreateAccount" =>
                AccountExists(db, c.account) /\ GetAccount(db, c.account) = NewAccount(c)

\* How far the transaction of p has come, and what it has found so far.
Underway(p) ==
    LET t == arg[p].row
    IN  /\ pc[p] = "check" => ins[p] # <<>> /\ Deduction(t)
        /\ pc[p] \in {"readback", "commit"} =>
              /\ RefExists(View(p), t.ref)
              /\ ins[p] # <<>> /\ Deduction(t) => ~Overflows(View(p), t.account)
        /\ pc[p] = "commit" =>
              ret[p].val = RowVal(GetTransactionByRef(View(p), t.ref))

RetShape(p) ==
    ret[p] = [err |-> ret[p].err, created |-> ret[p].created, val |-> ret[p].val]

Promise(p) == RetShape(p) /\ Underway(p) /\ Answered(p)

Promised == OverflowFreezes /\ \A p \in Procs : Promise(p)

-----------------------------------------------------------------------------
(***************************************************************************)
(* The shape of a step: one caller moves, and the log grows by a row.      *)
(***************************************************************************)
Apart(p) ==
    \A q \in Procs \ {p} :
        /\ pc'[q] = pc[q] /\ arg'[q] = arg[q] /\ snap'[q] = snap[q]
        /\ ins'[q] = ins[q] /\ ret'[q] = ret[q]

LEMMA StepApart ==
  ASSUME IInv, NEW p \in Procs, Step(p)
  PROVE  Apart(p)
<1>0. /\ pc \in [Procs -> Steps] /\ arg \in [Procs -> Calls \cup {NoCall}]
      /\ snap \in [Procs -> Seq(Row)] /\ ins \in [Procs -> Seq(Row)]
      /\ DOMAIN ret = Procs
  BY DEF IInv, TypeOK
<1>1. ASSUME NEW e, NEW made, NEW v, Leave(p, e, made, v), arg' = arg
      PROVE  Apart(p)
  BY <1>0, <1>1 DEF Leave, Goto, Apart
<1>2. ASSUME NEW e, Fail(p, e), arg' = arg
      PROVE  Apart(p)
  BY <1>1, <1>2 DEF Fail
<1>3. CASE \E c \in Calls : Call(p, c)
  BY <1>0, <1>3 DEF Call, Goto, Apart
<1>4. CASE Return(p) \/ Disconnect(p)
  BY <1>0, <1>4 DEF Return, Disconnect, Goto, Apart
<1>5. CASE Cancelled(p) \/ Fault(p)
  BY <1>2, <1>5 DEF Cancelled, Fault
<1>6. CASE BeginTx(p) \/ ReadBack(p)
  BY <1>0, <1>6 DEF BeginTx, ReadBack, Goto, Apart
<1>7. CASE LookupAccount(p)
  BY <1>0, <1>2, <1>7 DEF LookupAccount, Goto, Apart
<1>8. CASE InsertTransaction(p)
  <2>1. CASE Busy(p)
    BY <1>2, <1>8, <2>1 DEF InsertTransaction
  <2>2. CASE ~Busy(p)
    BY <1>0, <1>8, <2>2 DEF InsertTransaction, Goto, Apart
  <2>3. QED
    BY <2>1, <2>2
<1>9. CASE CheckBalance(p)
  BY <1>0, <1>2, <1>9 DEF CheckBalance, Goto, Apart
<1>10. CASE Commit(p)
  BY <1>1, <1>10 DEF Commit
<1>11. CASE Write(p)
  BY <1>1, <1>2, <1>11 DEF Write, CreateAccount, AppendAudit
<1>12. CASE CheckAccount(p)
  BY <1>0, <1>2, <1>12 DEF CheckAccount, Goto, Apart
<1>13. CASE GetAccountRow(p) \/ BalanceForAccount(p) \/ ListTransactions(p)
  BY <1>1, <1>2, <1>13 DEF GetAccountRow, BalanceForAccount, ListTransactions
<1>14. CASE ListAccounts(p) \/ ListAudit(p) \/ Ping(p)
  BY <1>1, <1>2, <1>14 DEF ListAccounts, ListAudit, Ping
<1>15. QED
  BY <1>3, <1>4, <1>5, <1>6, <1>7, <1>8, <1>9, <1>10, <1>11, <1>12, <1>13, <1>14
     DEF Step, Work, Record, Read

\* The three ways for the log to grow, and what holds when it does.
Paid(p) ==
    LET t == arg[p].row
    IN  /\ Commit(p) /\ tx = {p} /\ arg[p].op = "RecordTransaction"
        /\ ins[p] = <<t>> /\ t \in Transaction /\ db' = Append(db, t)
        /\ AccountExists(db, t.account) /\ ~RefExists(db, t.ref)
        /\ Deduction(t) => Balance(db, t.account) >= t.points

Opened(p) ==
    /\ CreateAccount(p) /\ tx = {} /\ NewAccount(arg[p]) \in Account
    /\ ~AccountExists(db, arg[p].account) /\ db' = Append(db, NewAccount(arg[p]))

Audited(p) ==
    /\ AppendAudit(p) /\ tx = {} /\ arg[p].row \in AuditEntry
    /\ db' = Append(db, arg[p].row)

LEMMA Growth ==
  ASSUME IInv, NEW p \in Procs, Step(p)
  PROVE  db' = db \/ Paid(p) \/ Opened(p) \/ Audited(p)
<1>0. /\ TypeOK /\ TxSound /\ db \in Seq(Row) /\ arg[p] \in Calls \cup {NoCall}
      /\ tx = {q \in Procs : pc[q] \in TxSteps}
  BY DEF IInv, TypeOK
<1>1. CASE Commit(p)
  <2>1. pc[p] = "commit" /\ p \in tx /\ db' = db \o ins[p]
    BY <1>0, <1>1 DEF Commit, At, TxSteps
  <2>2. CASE ins[p] = <<>>
    BY <1>0, <2>1, <2>2
  <2>3. CASE ins[p] # <<>>
    <3> DEFINE t == arg[p].row
    <3>1. tx = {p} /\ arg[p].op = "RecordTransaction" /\ ins[p] = <<t>>
      BY <1>0, <2>1, <2>3 DEF TxSound
    <3>2. t \in Transaction
      BY <1>0, <3>1, CallTypes
    <3>3. /\ AccountExists(db, t.account) /\ ~RefExists(db, t.ref)
          /\ Deduction(t) => Balance(db, t.account) >= t.points
      BY <1>0, <2>1, <2>3 DEF TxSound
    <3>4. db' = Append(db, t)
      BY <1>0, <2>1, <3>1, <3>2 DEF Row
    <3>5. QED
      BY <1>1, <3>1, <3>2, <3>3, <3>4 DEF Paid
  <2>4. QED
    BY <2>2, <2>3
<1>2. CASE CreateAccount(p)
  <2>1. tx = {}
    BY <1>0, <1>2, FreeMeansNone DEF CreateAccount, Statement, TxSound
  <2>2. NewAccount(arg[p]) \in Account
    BY <1>0, <1>2, CallTypes DEF CreateAccount, Statement, Account, Roles, NewAccount
  <2>3. QED
    BY <1>2, <2>1, <2>2 DEF CreateAccount, Opened, NewAccount
<1>3. CASE AppendAudit(p)
  <2>1. tx = {}
    BY <1>0, <1>3, FreeMeansNone DEF AppendAudit, Statement, TxSound
  <2>2. arg[p].row \in AuditEntry
    BY <1>0, <1>3, CallTypes DEF AppendAudit, Statement
  <2>3. QED
    BY <1>3, <2>1, <2>2 DEF AppendAudit, Audited
<1>4. CASE ~(Commit(p) \/ CreateAccount(p) \/ AppendAudit(p))
  <2>1. CASE Return(p) \/ Disconnect(p) \/ Cancelled(p) \/ Fault(p)
    BY <2>1 DEF Return, Disconnect, Cancelled, Fault
  <2>2. CASE \E c \in Calls : Call(p, c)
    BY <2>2 DEF Call
  <2>3. CASE Record(p)
    BY <1>4, <2>3 DEF Record, BeginTx, LookupAccount, InsertTransaction,
                      CheckBalance, ReadBack
  <2>4. CASE Write(p)
    BY <1>4, <2>4 DEF Write
  <2>5. CASE Read(p)
    BY <2>5 DEF Read, GetAccountRow, CheckAccount, BalanceForAccount,
                ListTransactions, ListAccounts, ListAudit, Ping
  <2>6. QED
    BY <2>1, <2>2, <2>3, <2>4, <2>5 DEF Step, Work
<1>5. QED
  BY <1>1, <1>2, <1>3, <1>4

\* What the database held before a step of a caller it holds afterwards.
Kept ==
    /\ \A ref : RefExists(db, ref) =>
          /\ RefExists(db', ref)
          /\ GetTransactionByRef(db', ref) = GetTransactionByRef(db, ref)
    /\ \A a : AccountExists(db, a) =>
          AccountExists(db', a) /\ GetAccount(db', a) = GetAccount(db, a)

LEMMA UniqueKeys ==
  ASSUME IInv
  PROVE  db \in Seq(Row) /\ UniqueRefs(db) /\ UniqueAccounts(db)
BY DEF IInv, TypeOK, DbSound, RefCountedOnce, KeysHold, UniqueRefs, UniqueAccounts

\* A step of a caller adds at most one row, and never while somebody else is
\* in a transaction.
LEMMA AtMostOneRow ==
  ASSUME IInv, NEW p \in Procs, Step(p)
  PROVE  db' = db \/ (tx \subseteq {p} /\ \E r \in Row : db' = Append(db, r))
BY Growth DEF Paid, Opened, Audited, Row

LEMMA StepKept ==
  ASSUME IInv, IInv', NEW p \in Procs, Step(p)
  PROVE  Kept
<1>1. CASE db' = db
  BY <1>1 DEF Kept
<1>2. CASE \E r \in Row : db' = Append(db, r)
  <2>1. PICK r \in Row : db' = Append(db, r)
    BY <1>2
  <2>2. UniqueRefs(Append(db, r)) /\ UniqueAccounts(Append(db, r)) /\ db \in Seq(Row)
    BY <2>1, UniqueKeys DEF IInv, TypeOK, DbSound, RefCountedOnce, KeysHold,
                            UniqueRefs, UniqueAccounts
  <2>3. QED
    BY <2>1, <2>2, RefStays, AccountStays DEF Kept
<1>3. QED
  BY <1>1, <1>2, AtMostOneRow

\* A caller makes a call, or takes the result of one.
LEMMA CallShape ==
  ASSUME IInv, NEW p \in Procs, NEW c, Call(p, c)
  PROVE  /\ Apart(p) /\ db' = db
         /\ pc[p] \in {"idle", "done"} /\ pc'[p] = "call"
         /\ arg'[p] = c /\ ret'[p] = NoRet
BY DEF IInv, TypeOK, Call, Goto, Apart

LEMMA ReturnShape ==
  ASSUME IInv, NEW p \in Procs, Return(p)
  PROVE  /\ Apart(p) /\ db' = db
         /\ pc'[p] = "idle" /\ arg'[p] = NoCall /\ ret'[p] = NoRet
BY DEF IInv, TypeOK, Return, Goto, Apart

\* Only a caller in the middle of a call executes a statement.
LEMMA WorkInFlight ==
  ASSUME NEW p \in Procs, Work(p) \/ Disconnect(p) \/ Cancelled(p) \/ Fault(p)
  PROVE  InFlight(p)
<1>1. CASE Record(p)
  BY <1>1 DEF Record, BeginTx, LookupAccount, InsertTransaction, CheckBalance,
              ReadBack, Commit, Statement, At, InFlight
<1>2. CASE Write(p)
  BY <1>2 DEF Write, CreateAccount, AppendAudit, Statement, At, InFlight
<1>3. CASE Read(p)
  BY <1>3 DEF Read, GetAccountRow, CheckAccount, BalanceForAccount, ListTransactions,
              ListAccounts, ListAudit, Ping, Statement, At, InFlight
<1>4. CASE Disconnect(p) \/ Cancelled(p) \/ Fault(p)
  BY <1>4 DEF Disconnect, Cancelled, Fault
<1>5. QED
  BY <1>1, <1>2, <1>3, <1>4 DEF Work

\* The transaction of p was created, and p has not dealt with that yet.
Fresh(p) ==
    /\ pc[p] = "done" /\ arg[p].op = "RecordTransaction"
    /\ ret[p].err = "none" /\ ret[p].created

\* A statement says "created" of a transaction only when it commits it.
LEMMA FreshlyCommitted ==
  ASSUME IInv, NEW p \in Procs, Work(p) \/ Disconnect(p) \/ Cancelled(p) \/ Fault(p),
         Fresh(p)'
  PROVE  Paid(p)
<1>0. /\ pc \in [Procs -> Steps] /\ DOMAIN ret = Procs /\ arg' = arg
      /\ db \in Seq(Row) /\ ins \in [Procs -> Seq(Row)]
  BY WorkKeeps DEF IInv, TypeOK
<1>1. pc'[p] = "done" /\ arg[p].op = "RecordTransaction" /\ ret'[p].err = "none"
      /\ ret'[p].created
  BY <1>0 DEF Fresh
<1>l. ASSUME NEW e, NEW made, NEW v, Leave(p, e, made, v)
      PROVE  e = "none" /\ made
  BY <1>0, <1>1, <1>l DEF Leave
<1>f. ASSUME NEW e, Fail(p, e) PROVE FALSE
  BY <1>f, <1>l DEF Fail
<1>2. CASE Disconnect(p) \/ Cancelled(p) \/ Fault(p)
  BY <1>1, <1>2, <1>f DEF Disconnect, Cancelled, Fault, InFlight
<1>3. CASE BeginTx(p) \/ LookupAccount(p) \/ CheckBalance(p) \/ ReadBack(p)
  BY <1>0, <1>1, <1>3, <1>f DEF BeginTx, LookupAccount, CheckBalance, ReadBack, Goto
<1>4. CASE InsertTransaction(p)
  BY <1>0, <1>1, <1>4, <1>f DEF InsertTransaction, Goto
<1>5. CASE Commit(p)
  <2>1. ins[p] # <<>>
    BY <1>5, <1>l DEF Commit
  <2>2. Step(p) /\ db' = db \o ins[p]
    BY <1>5 DEF Step, Work, Record, Commit
  <2>3. ins[p] = <<arg[p].row>> /\ db' # db
    BY <1>0, <2>1, <2>2 DEF IInv, TxSound
  <2>4. QED
    BY <1>1, <2>2, <2>3, Growth
       DEF Opened, Audited, CreateAccount, AppendAudit, Statement
<1>6. CASE Write(p) \/ Read(p)
  <2>1. arg[p].op # "RecordTransaction"
    BY <1>6 DEF Write, CreateAccount, AppendAudit, Read, GetAccountRow, CheckAccount,
                BalanceForAccount, ListTransactions, ListAccounts, ListAudit, Ping,
                Statement
  <2>2. QED
    BY <1>1, <2>1
<1>7. QED
  BY <1>2, <1>3, <1>4, <1>5, <1>6 DEF Work, Record

-----------------------------------------------------------------------------
(***************************************************************************)
(* Promises are kept.                                                      *)
(***************************************************************************)

\* By a caller that does not move.
LEMMA OthersKeep ==
  ASSUME IInv, IInv', NEW p \in Procs, Step(p), NEW q \in Procs, q # p, Promise(q)
  PROVE  Promise(q)'
<1>1. /\ pc'[q] = pc[q] /\ arg'[q] = arg[q] /\ snap'[q] = snap[q]
      /\ ins'[q] = ins[q] /\ ret'[q] = ret[q]
  BY StepApart DEF Apart
<1>2. Underway(q)'
  BY <1>1 DEF Promise, Underway, View
<1>3. Answered(q)'
  BY <1>1, StepKept DEF Promise, Answered, Kept
<1>4. QED
  BY <1>1, <1>2, <1>3 DEF Promise, RetShape

\* By a caller that leaves the store without a claim about the database.
LEMMA LeavePromise ==
  ASSUME IInv, NEW p \in Procs, NEW e, NEW made, NEW v, Leave(p, e, made, v),
         e = "none" => Answered(p)'
  PROVE  Promise(p)'
<1>1. /\ pc'[p] = "done" /\ ret'[p] = [err |-> e, created |-> made, val |-> v]
  BY DEF IInv, TypeOK, Leave, Goto
<1>2. CASE e = "none"
  BY <1>1, <1>2 DEF Promise, RetShape, Underway
<1>3. CASE e # "none"
  BY <1>1, <1>3 DEF Promise, RetShape, Underway, Answered
<1>4. QED
  BY <1>2, <1>3

\* By the caller that moves, within RecordTransaction.
LEMMA RecordPromise ==
  ASSUME IInv, IInv', NEW p \in Procs, Record(p), Promise(p)
  PROVE  Promise(p)'
<1> DEFINE t == arg[p].row
<1>0. /\ db \in Seq(Row) /\ pc \in [Procs -> Steps]
      /\ snap \in [Procs -> Seq(Row)] /\ ins \in [Procs -> Seq(Row)]
      /\ DOMAIN ret = Procs /\ tx = {q \in Procs : pc[q] \in TxSteps}
      /\ arg[p] \in Calls \cup {NoCall} /\ TxSound
  BY DEF IInv, TypeOK
<1>t. p \in tx => t \in Transaction /\ t \in Row /\ IsTxn(t)
  BY <1>0, CallTypes DEF TxSound, Row, Transaction, IsTxn
<1>f. ASSUME NEW e \in Errors \ {"none"}, Fail(p, e)
      PROVE  Promise(p)'
  BY <1>f, LeavePromise DEF Fail
<1>1. CASE BeginTx(p)
  <2>1. pc'[p] = "lookup" /\ ret' = ret
    BY <1>0, <1>1 DEF BeginTx, Goto
  <2>2. QED
    BY <2>1 DEF Promise, RetShape, Underway, Answered
<1>2. CASE LookupAccount(p)
  <2>1. CASE pc'[p] = "insert" /\ ret' = ret
    BY <2>1 DEF Promise, RetShape, Underway, Answered
  <2>2. QED
    BY <1>0, <1>2, <1>f, <2>1 DEF LookupAccount, Goto, Errors
<1>3. CASE InsertTransaction(p)
  <2>1. p \in tx /\ snap[p] = db /\ ins[p] = <<>> /\ View(p) = db
    BY <1>0, <1>3 DEF InsertTransaction, At, TxSteps, TxSound, View
  <2>2. CASE Busy(p)
    BY <1>3, <1>f, <2>2 DEF InsertTransaction, Errors
  <2>3. CASE ~Busy(p)
    <3> DEFINE fresh == ~RefExists(db, t.ref)
    <3>1. /\ ins'[p] = IF fresh THEN <<t>> ELSE <<>>
          /\ pc'[p] = IF fresh /\ Deduction(t) THEN "check" ELSE "readback"
          /\ ret' = ret /\ arg' = arg /\ snap' = snap
      BY <1>0, <1>3, <2>1, <2>3 DEF InsertTransaction, Goto
    <3>2. RefExists(View(p)', t.ref)
      <4>1. CASE fresh
        <5>1. View(p)' = Append(db, t)
          BY <1>0, <1>t, <2>1, <3>1, <4>1 DEF View
        <5>2. QED
          BY <1>0, <1>t, <2>1, <5>1, NewRef
      <4>2. CASE ~fresh
        <5>1. View(p)' = db
          BY <1>0, <2>1, <3>1, <4>2 DEF View
        <5>2. QED
          BY <4>2, <5>1
      <4>3. QED
        BY <4>1, <4>2
    <3>3. Underway(p)'
      BY <3>1, <3>2 DEF Underway
    <3>4. QED
      BY <3>1, <3>3 DEF Promise, RetShape, Answered
  <2>4. QED
    BY <2>2, <2>3
<1>4. CASE CheckBalance(p)
  <2>1. CASE Fail(p, "overflow") \/ Fail(p, "ErrInsufficientBalance")
    BY <1>f, <2>1 DEF Errors
  <2>2. CASE ~(Fail(p, "overflow") \/ Fail(p, "ErrInsufficientBalance"))
    <3>1. /\ ~Overflows(View(p), t.account) /\ pc'[p] = "readback"
          /\ UNCHANGED <<snap, ins, ret, arg>>
      BY <1>0, <1>4, <2>2 DEF CheckBalance, Goto
    <3>2. p \in tx /\ pc[p] = "check" /\ ins[p] = <<t>>
      BY <1>0, <1>4 DEF CheckBalance, At, TxSteps, TxSound, Promise, Underway
    <3>3. snap[p] = db
      BY <1>0, <3>2 DEF TxSound
    <3>4. View(p) = Append(db, t)
      BY <1>0, <1>t, <3>2, <3>3 DEF View
    <3>5. RefExists(View(p), t.ref)
      BY <1>0, <1>t, <3>2, <3>4, NewRef
    <3>6. View(p)' = View(p)
      BY <3>1 DEF View
    <3>7. Underway(p)'
      BY <3>1, <3>5, <3>6 DEF Underway
    <3>8. QED
      BY <3>1, <3>7 DEF Promise, RetShape, Answered
  <2>3. QED
    BY <2>1, <2>2
<1>5. CASE ReadBack(p)
  <2> DEFINE v == RowVal(GetTransactionByRef(View(p), t.ref))
  <2>1. /\ pc[p] = "readback" /\ pc'[p] = "commit"
        /\ ret' = [ret EXCEPT ![p].val = v] /\ UNCHANGED <<arg, snap, ins>>
    BY <1>0, <1>5 DEF ReadBack, At, Goto
  <2> HIDE DEF v
  <2>2. ret'[p] = [err |-> ret[p].err, created |-> ret[p].created, val |-> v]
    BY <1>0, <2>1 DEF Promise, RetShape
  <2>3. View(p)' = View(p)
    BY <2>1 DEF View
  <2>4. Underway(p)'
    BY <2>1, <2>2, <2>3 DEF Promise, Underway, v
  <2>5. QED
    BY <2>1, <2>2, <2>4 DEF Promise, RetShape, Answered
<1>6. CASE Commit(p)
  <2>1. /\ pc[p] = "commit" /\ p \in tx /\ db' = db \o ins[p] /\ arg' = arg
        /\ Leave(p, "none", ins[p] # <<>>, ret[p].val)
    BY <1>0, <1>6 DEF Commit, At, TxSteps
  <2>2. snap[p] = db /\ View(p) = db'
    BY <1>0, <2>1 DEF TxSound, View
  <2>3. /\ RefExists(db', t.ref)
        /\ ret[p].val = RowVal(GetTransactionByRef(db', t.ref))
    BY <2>1, <2>2 DEF Promise, Underway
  <2>4. ASSUME ins[p] # <<>>
        PROVE  ret[p].val = RowVal(t)
    <3>1. ins[p] = <<t>>
      BY <1>0, <2>4 DEF TxSound
    <3>2. db' = Append(db, t)
      BY <1>0, <1>t, <2>1, <3>1
    <3>3. UniqueRefs(db')
      BY DEF IInv, DbSound, RefCountedOnce, UniqueRefs
    <3>4. GetTransactionByRef(db', t.ref) = t
      BY <1>0, <1>t, <2>1, <3>2, <3>3, NewRef
    <3>5. QED
      BY <2>3, <3>4
  <2> DEFINE made == ins[p] # <<>>
  <2>5. /\ ret'[p].created = made /\ ret'[p].val = ret[p].val
        /\ arg'[p].op = "RecordTransaction"
    BY <1>0, <2>1 DEF Leave, TxSound
  <2>6. made => ret[p].val = RowVal(t)
    BY <2>4
  <2> HIDE DEF made
  <2>7. ret'[p].created => ret'[p].val = RowVal(t)
    BY <2>5, <2>6
  <2>8. Answered(p)'
    BY <2>1, <2>3, <2>5, <2>7 DEF Answered
  <2>9. QED
    BY <2>1, <2>8, LeavePromise
<1>7. QED
  BY <1>1, <1>2, <1>3, <1>4, <1>5, <1>6 DEF Record

\* By the caller that moves.
LEMMA MoverKeeps ==
  ASSUME IInv, IInv', NEW p \in Procs, Step(p), Promise(p)
  PROVE  Promise(p)'
<1>0. /\ db \in Seq(Row) /\ pc \in [Procs -> Steps] /\ DOMAIN ret = Procs
      /\ arg \in [Procs -> Calls \cup {NoCall}]
  BY DEF IInv, TypeOK
<1>f. ASSUME NEW e \in Errors \ {"none"}, Fail(p, e)
      PROVE  Promise(p)'
  BY <1>f, LeavePromise DEF Fail
<1>1. CASE (\E c \in Calls : Call(p, c)) \/ Return(p)
  <2>1. pc'[p] \in {"call", "idle"} /\ ret'[p] = NoRet
    BY <1>0, <1>1 DEF Call, Return, Goto
  <2>2. QED
    BY <2>1 DEF Promise, RetShape, Underway, Answered, NoRet
<1>2. CASE Disconnect(p)
  BY <1>2 DEF Disconnect, Promise, RetShape, Underway, Answered, View
<1>3. CASE Cancelled(p) \/ Fault(p)
  BY <1>3, <1>f DEF Cancelled, Fault, Errors
<1>4. CASE Record(p)
  BY <1>4, RecordPromise
<1>5. CASE CreateAccount(p)
  <2>1. arg' = arg /\ arg[p].op = "CreateAccount"
    BY <1>5 DEF CreateAccount, Statement
  <2>2. CASE \E e \in Errors \ {"none"} : Fail(p, e)
    BY <1>f, <2>2
  <2>3. CASE ~ \E e \in Errors \ {"none"} : Fail(p, e)
    <3> DEFINE r == NewAccount(arg[p])
    <3>1. db' = Append(db, r) /\ Leave(p, "none", TRUE, NoVal)
      BY <1>5, <2>3 DEF CreateAccount, NewAccount, Errors
    <3>2. r \in Account
      BY <1>0, <2>1, CallTypes DEF Account, Roles, NewAccount
    <3>3. r \in Row /\ IsAccount(r) /\ r.account = arg[p].account
      BY <3>2 DEF Row, Account, IsAccount, NewAccount
    <3>4. UniqueAccounts(db')
      BY DEF IInv, DbSound, KeysHold, UniqueAccounts
    <3> HIDE DEF r
    <3>5. AccountExists(db', arg[p].account) /\ GetAccount(db', arg[p].account) = r
      BY <1>0, <3>1, <3>3, <3>4, NewId
    <3>6. Answered(p)'
      BY <2>1, <3>5 DEF Answered, r
    <3>7. QED
      BY <3>1, <3>6, LeavePromise
  <2>4. QED
    BY <2>2, <2>3
<1>6. CASE AppendAudit(p)
  <2>1. arg' = arg /\ arg[p].op = "AppendAudit"
    BY <1>6 DEF AppendAudit, Statement
  <2>2. Answered(p)'
    BY <2>1 DEF Answered
  <2>3. QED
    BY <1>6, <1>f, <2>2, LeavePromise DEF AppendAudit, Errors
<1>7. CASE GetAccountRow(p)
  <2> DEFINE c == arg[p]
             v == RowVal(GetAccount(db, c.account))
  <2>1. /\ arg' = arg /\ db' = db /\ c.op \in {"GetAccount", "GetCredential"}
    BY <1>7 DEF GetAccountRow, Statement
  <2>2. CASE Fail(p, "ErrNotFound")
    BY <1>f, <2>2 DEF Errors
  <2>3. CASE ~Fail(p, "ErrNotFound")
    <3>1. AccountExists(db, c.account) /\ Leave(p, "none", FALSE, v)
      BY <1>7, <2>3 DEF GetAccountRow
    <3>2. ret'[p].val = v
      BY <1>0, <3>1 DEF Leave
    <3>3. Answered(p)'
      BY <2>1, <3>1, <3>2 DEF Answered
    <3>4. QED
      BY <3>1, <3>3, LeavePromise
  <2>4. QED
    BY <2>2, <2>3
<1>8. CASE CheckAccount(p)
  <2>1. CASE pc'[p] = "second" /\ ret' = ret
    BY <2>1 DEF Promise, RetShape, Underway, Answered
  <2>2. QED
    BY <1>0, <1>8, <1>f, <2>1 DEF CheckAccount, Goto, Errors
<1>9. CASE \/ BalanceForAccount(p) \/ ListTransactions(p) \/ ListAccounts(p)
           \/ ListAudit(p) \/ Ping(p)
  <2>1. /\ arg' = arg
        /\ arg[p].op \in {"Balance", "ListTransactions", "ListAccounts", "ListAudit",
                          "Ping"}
    BY <1>9 DEF BalanceForAccount, ListTransactions, ListAccounts, ListAudit, Ping,
                Statement
  <2>2. Answered(p)'
    BY <2>1 DEF Answered
  <2>3. \E e, v : Leave(p, e, FALSE, v)
    BY <1>9 DEF BalanceForAccount, ListTransactions, ListAccounts, ListAudit, Ping, Fail
  <2>4. QED
    BY <2>2, <2>3, LeavePromise
<1>10. QED
  BY <1>1, <1>2, <1>3, <1>4, <1>5, <1>6, <1>7, <1>8, <1>9 DEF Step, Work, Write, Read

-----------------------------------------------------------------------------
(***************************************************************************)
(* An account that has overflowed pays nothing any more.                   *)
(***************************************************************************)
LEMMA FrozenAppend ==
  ASSUME db \in Seq(Row), OverflowFreezes, NEW r \in Row, db' = Append(db, r),
         IsTxn(r) => r.kind = "earn" \/ ~Overflows(db', r.account)
  PROVE  OverflowFreezes'
<1>1. /\ db' \in Seq(Row) /\ Len(db) \in Nat /\ Len(db') = Len(db) + 1
      /\ \A i \in 1 .. Len(db) : db'[i] = db[i]
      /\ db'[Len(db) + 1] = r
  OBVIOUS
<1> SUFFICES ASSUME NEW a \in AccountIds, NEW i \in 1 .. Len(db'),
                    Overflows(SubSeq(db', 1, i), a),
                    NEW j \in i + 1 .. Len(db'), IsTxn(db'[j]), db'[j].account = a
             PROVE  db'[j].kind = "earn"
  BY DEF OverflowFreezes
<1>2. i \in 1 .. Len(db) /\ i \in 0 .. Len(db')
  BY <1>1
<1>3. CASE j \in 1 .. Len(db)
  <2>1. SubSeq(db', 1, i) = SubSeq(db, 1, i)
    BY <1>1, <1>2
  <2>2. Overflows(SubSeq(db, 1, i), a)
    BY <2>1
  <2>3. j \in i + 1 .. Len(db) /\ db'[j] = db[j]
    BY <1>1, <1>2, <1>3
  <2>4. QED
    BY <1>2, <2>2, <2>3 DEF OverflowFreezes
<1>4. CASE j = Len(db) + 1
  <2>1. Overflows(db', a)
    BY <1>1, <1>2, OverflowStays
  <2>2. QED
    BY <1>1, <1>4, <2>1
<1>5. QED
  BY <1>1, <1>2, <1>3, <1>4

LEMMA FrozenPrefix ==
  ASSUME db \in Seq(Row), OverflowFreezes, NEW n \in 0 .. Len(db),
         db' = SubSeq(db, 1, n)
  PROVE  OverflowFreezes'
<1>1. /\ Len(db) \in Nat /\ Len(db') = n /\ n <= Len(db)
      /\ \A i \in 1 .. n : db'[i] = db[i]
  OBVIOUS
<1> SUFFICES ASSUME NEW a \in AccountIds, NEW i \in 1 .. n,
                    Overflows(SubSeq(db', 1, i), a),
                    NEW j \in i + 1 .. n, IsTxn(db'[j]), db'[j].account = a
             PROVE  db'[j].kind = "earn"
  BY <1>1 DEF OverflowFreezes
<1>2. i \in 1 .. Len(db) /\ j \in i + 1 .. Len(db) /\ db'[j] = db[j]
  BY <1>1
<1>3. SubSeq(db', 1, i) = SubSeq(db, 1, i)
  BY <1>1
<1>4. Overflows(SubSeq(db, 1, i), a)
  BY <1>3
<1>5. QED
  BY <1>2, <1>4 DEF OverflowFreezes

LEMMA FrozenStep ==
  ASSUME IInv, NEW p \in Procs, Step(p), Promise(p), OverflowFreezes
  PROVE  OverflowFreezes'
<1>0. db \in Seq(Row) /\ TxSound /\ ins \in [Procs -> Seq(Row)]
  BY DEF IInv, TypeOK
<1>1. CASE db' = db
  BY <1>1 DEF OverflowFreezes
<1>2. CASE Paid(p)
  <2> DEFINE t == arg[p].row
  <2>1. /\ pc[p] = "commit" /\ p \in tx /\ ins[p] = <<t>> /\ t \in Transaction
        /\ db' = Append(db, t)
    BY <1>2 DEF Paid, Commit, At
  <2>2. t \in Row
    BY <2>1 DEF Row
  <2>3. View(p) = db'
    <3>1. snap[p] = db
      BY <1>0, <2>1 DEF TxSound
    <3>2. QED
      BY <1>0, <2>1, <2>2, <3>1 DEF View
  <2>4. Deduction(t) => ~Overflows(db', t.account)
    BY <2>1, <2>3 DEF Promise, Underway
  <2>5. t.kind = "earn" \/ Deduction(t)
    BY <2>1 DEF Transaction, Kinds, Deduction
  <2>6. QED
    BY <1>0, <2>1, <2>2, <2>4, <2>5, FrozenAppend
<1>3. CASE Opened(p) \/ Audited(p)
  <2>1. PICK r \in Row : db' = Append(db, r) /\ ~IsTxn(r)
    BY <1>3 DEF Opened, Audited, Row, Account, AuditEntry, IsTxn
  <2>2. QED
    BY <1>0, <2>1, FrozenAppend
<1>4. QED
  BY <1>1, <1>2, <1>3, Growth

-----------------------------------------------------------------------------
(***************************************************************************)
(* Promised is an invariant.                                               *)
(***************************************************************************)
LEMMA RestartPromise ==
  ASSUME IInv, Crash \/ PowerLoss, Promised
  PROVE  Promised'
<1>1. OverflowFreezes'
  <2>1. CASE db' = db
    BY <2>1 DEF Promised, OverflowFreezes
  <2>2. CASE PowerLoss
    <3>1. PICK n \in Len(Migrated) .. Len(db) : db' = SubSeq(db, 1, n)
      BY <2>2 DEF PowerLoss
    <3>2. n \in 0 .. Len(db) /\ db \in Seq(Row)
      BY <3>1 DEF Migrated, IInv, TypeOK
    <3>3. QED
      BY <3>1, <3>2, FrozenPrefix DEF Promised
  <2>3. QED
    BY <2>1, <2>2 DEF Crash
<1>2. ASSUME NEW p \in Procs
      PROVE  Promise(p)'
  <2>1. pc'[p] = "idle" /\ ret'[p] = NoRet
    BY DEF Crash, PowerLoss, Restart
  <2>2. QED
    BY <2>1 DEF Promise, RetShape, Underway, Answered, NoRet
<1>3. QED
  BY <1>1, <1>2 DEF Promised

LEMMA PromiseInit == Init => Promised
<1> SUFFICES ASSUME Init PROVE Promised
  OBVIOUS
<1>1. /\ Len(db) = 2 /\ ~IsTxn(db[1]) /\ ~IsTxn(db[2])
  BY DEF Init, Migrated, IsTxn
<1>2. OverflowFreezes
  BY <1>1 DEF OverflowFreezes
<1>3. ASSUME NEW p \in Procs
      PROVE  Promise(p)
  <2>1. pc[p] = "idle" /\ ret[p] = NoRet
    BY DEF Init
  <2>2. QED
    BY <2>1 DEF Promise, RetShape, Underway, Answered, NoRet
<1>4. QED
  BY <1>2, <1>3 DEF Promised

LEMMA PromiseStep ==
  ASSUME IInv, IInv', Promised, [Next \/ PowerLoss]_vars
  PROVE  Promised'
<1>1. ASSUME NEW p \in Procs, Step(p)
      PROVE  Promised'
  <2>1. OverflowFreezes'
    BY <1>1, FrozenStep DEF Promised
  <2>2. \A q \in Procs : Promise(q)'
    BY <1>1, MoverKeeps, OthersKeep DEF Promised
  <2>3. QED
    BY <2>1, <2>2 DEF Promised
<1>2. CASE Crash \/ PowerLoss
  BY <1>2, RestartPromise
<1>3. CASE UNCHANGED vars
  BY <1>3 DEF vars, Promised, OverflowFreezes, Promise, RetShape, Underway,
              Answered, View
<1>4. QED
  BY <1>1, <1>2, <1>3 DEF Next, Step

\* What was promised holds in every state, power losses included.
THEOREM Promises == PowerSpec => []Promised
<1>1. IInv /\ IInv' /\ Promised /\ [Next \/ PowerLoss]_vars => Promised'
  BY PromiseStep
<1>2. QED
  BY <1>1, PromiseInit, Invariance, PTL DEF PowerSpec

\* First write wins: RecordTransaction answers with the row that the ledger
\* holds for the ref, and "created" with the caller's own.
THEOREM TrueAnswers == PowerSpec => []AnswerIsStored
<1>1. Promised => AnswerIsStored
  BY DEF Promised, Promise, Answered, AnswerIsStored
<1>2. QED
  BY <1>1, Promises, PTL

\* An account whose sum has overflowed pays nothing any more.
THEOREM Freezing == PowerSpec => []OverflowFreezes
<1>1. Promised => OverflowFreezes
  BY DEF Promised
<1>2. QED
  BY <1>1, Promises, PTL

\* The three ways in which a caller can learn a balance never drift apart:
\* the SUM of GetBalance, the subquery of ListAccounts, which repeats its CASE,
\* and the listing of ListTransactions, newest first, added up by hand.
THEOREM NoDrift == PowerSpec => []ReadsAgree
<1>1. ASSUME db \in Seq(Row)
      PROVE  ReadsAgree
  <2> SUFFICES ASSUME NEW a \in AccountsIn(db)
               PROVE  /\ ListAccountsWithBalance(db)[a].balance = Balance(db, a)
                      /\ Total(WorthColumn(ListTransactionsByAccount(db, a)))
                            = Balance(db, a)
    BY DEF ReadsAgree, WorthColumn, Worth
  <2>1. QED
    BY <1>1, AccountListAddsUp, ListingAddsUp
<1>2. IInv => db \in Seq(Row)
  BY DEF IInv, TypeOK
<1>3. QED
  BY <1>1, <1>2, Invariance, PTL

-----------------------------------------------------------------------------
(***************************************************************************)
(* What was created is there, and somebody asked for everything that is.   *)
(***************************************************************************)
\* What was created is in the ledger.
LEMMA FreshRow ==
  ASSUME IInv, Promised, NEW p \in Procs, Fresh(p)
  PROVE  /\ arg[p].row \in Transaction /\ RefExists(db, arg[p].row.ref)
         /\ \E k \in 1 .. Len(db) : db[k] = arg[p].row
<1> DEFINE t == arg[p].row
<1>1. t \in Transaction
  BY CallTypes DEF Fresh, IInv, TypeOK
<1>2. /\ RefExists(db, t.ref) /\ RowVal(t) = RowVal(GetTransactionByRef(db, t.ref))
  BY DEF Fresh, Promised, Promise, Answered
<1>3. t = GetTransactionByRef(db, t.ref)
  <2>1. RowVal(t).row = RowVal(GetTransactionByRef(db, t.ref)).row
    BY <1>2
  <2>2. QED
    BY <2>1 DEF RowVal
<1>4. \E k \in 1 .. Len(db) : GetTransactionByRef(db, t.ref) = db[k]
  BY <1>2 DEF RefExists, GetTransactionByRef
<1>5. QED
  BY <1>1, <1>2, <1>3, <1>4

\* Every transaction of the ledger is the row of some request.
Asked(r) ==
    IsTxn(r) => \E c \in Calls : c.op = "RecordTransaction" /\ c.row = r

Requested == \A k \in 1 .. Len(db) : Asked(db[k])

\* Nothing gets into the ledger but what callers ask for, as it was asked for,
\* whatever fails and however much of the log a power loss takes.
LEMMA Accountability == PowerSpec => []Requested
<1>1. Init => Requested
  <2>1. Len(Migrated) = 2 /\ ~IsTxn(Migrated[1]) /\ ~IsTxn(Migrated[2])
    BY DEF Migrated, IsTxn
  <2>2. 1 .. Len(Migrated) = {1, 2}
    BY <2>1
  <2>3. QED
    BY <2>1, <2>2 DEF Init, Requested, Asked
<1>2. IInv /\ Requested /\ [Next \/ PowerLoss]_vars => Requested'
  <2> SUFFICES ASSUME IInv, Requested, [Next \/ PowerLoss]_vars PROVE Requested'
    OBVIOUS
  <2>0. db \in Seq(Row) /\ Len(db) \in Nat
    BY DEF IInv, TypeOK
  <2>1. CASE db' = db
    BY <2>1 DEF Requested
  <2>2. CASE PowerLoss
    <3>1. PICK n \in 0 .. Len(db) : db' = SubSeq(db, 1, n)
      BY <2>2 DEF PowerLoss, Migrated
    <3>2. Len(db') = n /\ \A i \in 1 .. n : i \in 1 .. Len(db) /\ db'[i] = db[i]
      BY <2>0, <3>1
    <3>3. QED
      BY <3>2 DEF Requested
  <2>3. ASSUME NEW p \in Procs, Step(p), db' # db PROVE Requested'
    <3>1. PICK r \in Row : db' = Append(db, r) /\ Asked(r)
      <4>1. CASE Paid(p)
        BY <4>1 DEF Paid, Row, IInv, TypeOK, NoCall, Asked
      <4>2. CASE Opened(p) \/ Audited(p)
        BY <4>2 DEF Opened, Audited, Row, Account, AuditEntry, IsTxn, Asked
      <4>3. QED
        BY <2>3, <4>1, <4>2, Growth
    <3>2. Len(db') = Len(db) + 1 /\ db'[Len(db) + 1] = r
          /\ \A i \in 1 .. Len(db) : db'[i] = db[i]
      BY <2>0, <3>1
    <3>3. QED
      BY <2>0, <3>1, <3>2 DEF Requested
  <2>4. QED
    BY <2>1, <2>2, <2>3 DEF Next, Step, Crash, vars
<1>3. QED
  BY <1>1, <1>2, Invariance, PTL DEF PowerSpec

-----------------------------------------------------------------------------
(***************************************************************************)
(* A read of two statements answers for one state.                         *)
(***************************************************************************)
TwoStatements == {"Balance", "ListTransactions"}

\* Between the two statements the account is there, and afterwards so is the
\* state that was read.
ReadSound(p) ==
    /\ pc[p] = "second" => AccountExists(db, arg[p].account)
    /\ pc[p] = "done" /\ ret[p].err = "none" /\ arg[p].op \in TwoStatements
          => \E n \in 0 .. Len(db) : ReadOf(arg[p], SubSeq(db, 1, n), ret[p].val)

Readers == \A p \in Procs : ReadSound(p)

\* Every state that was committed stays a prefix of the log.
LEMMA PrefixesStay ==
  ASSUME IInv, IInv', NEW p \in Procs, Step(p)
  PROVE  /\ \A n \in 0 .. Len(db) : n \in 0 .. Len(db') /\ SubSeq(db', 1, n) = SubSeq(db, 1, n)
         /\ \A a : AccountExists(db, a) => AccountExists(db', a)
<1>0. db \in Seq(Row) /\ Len(db) \in Nat
  BY DEF IInv, TypeOK
<1>1. \A a : AccountExists(db, a) => AccountExists(db', a)
  BY StepKept DEF Kept
<1>2. CASE db' = db
  BY <1>1, <1>2
<1>3. CASE \E r \in Row : db' = Append(db, r)
  <2>1. PICK r \in Row : db' = Append(db, r)
    BY <1>3
  <2>2. /\ db' \in Seq(Row) /\ Len(db') = Len(db) + 1
        /\ \A i \in 1 .. Len(db) : db'[i] = db[i]
    BY <1>0, <2>1
  <2>3. ASSUME NEW n \in 0 .. Len(db)
        PROVE  n \in 0 .. Len(db') /\ SubSeq(db', 1, n) = SubSeq(db, 1, n)
    BY <1>0, <2>2
  <2>4. QED
    BY <1>1, <2>3
<1>4. QED
  BY <1>2, <1>3, AtMostOneRow

\* The second statement reads the newest state, which is a prefix of itself.
LEMMA SecondStatement ==
  ASSUME IInv, NEW p \in Procs, ReadSound(p), BalanceForAccount(p) \/ ListTransactions(p)
  PROVE  ReadSound(p)'
<1> DEFINE a == arg[p].account
           c == arg[p]
<1>0. /\ db \in Seq(Row) /\ db' = db /\ arg' = arg /\ pc \in [Procs -> Steps]
      /\ DOMAIN ret = Procs
  BY DEF IInv, TypeOK, BalanceForAccount, ListTransactions
<1>1. AccountExists(db, a)
  BY DEF ReadSound, BalanceForAccount, ListTransactions, At
<1>2. pc'[p] = "done"
  BY <1>0 DEF BalanceForAccount, ListTransactions, Fail, Leave, Goto
<1>3. ASSUME ret'[p].err = "none" PROVE ReadOf(c, db, ret'[p].val)
  <2>1. CASE BalanceForAccount(p)
    BY <1>0, <1>1, <1>3, <2>1 DEF BalanceForAccount, Fail, Leave, ReadOf
  <2>2. CASE ListTransactions(p)
    BY <1>0, <1>1, <1>3, <2>2 DEF ListTransactions, Leave, ReadOf
  <2>3. QED
    BY <2>1, <2>2
<1>4. Len(db) \in 0 .. Len(db) /\ SubSeq(db, 1, Len(db)) = db
  BY <1>0
<1>5. ASSUME ret'[p].err = "none"
      PROVE  \E n \in 0 .. Len(db) : ReadOf(c, SubSeq(db, 1, n), ret'[p].val)
  BY <1>3, <1>4, <1>5
<1>6. QED
  BY <1>0, <1>2, <1>5 DEF ReadSound

\* No other statement answers such a read.
LEMMA MoverReads ==
  ASSUME IInv, NEW p \in Procs, ReadSound(p),
         Work(p) \/ Disconnect(p) \/ Cancelled(p) \/ Fault(p)
  PROVE  ReadSound(p)'
<1>0. /\ pc \in [Procs -> Steps] /\ DOMAIN ret = Procs /\ arg' = arg
      /\ TxSound /\ tx = {q \in Procs : pc[q] \in TxSteps}
  BY WorkKeeps DEF IInv, TypeOK
<1>l. ASSUME NEW e, NEW made, NEW v, Leave(p, e, made, v),
             e # "none" \/ arg[p].op \notin TwoStatements
      PROVE  ReadSound(p)'
  BY <1>0, <1>l DEF Leave, Goto, ReadSound
<1>f. ASSUME NEW e, Fail(p, e), e # "none" PROVE ReadSound(p)'
  BY <1>f, <1>l DEF Fail
<1>g. ASSUME NEW st \in Steps \ {"second", "done"}, Goto(p, st) PROVE ReadSound(p)'
  BY <1>0, <1>g DEF Goto, ReadSound
<1>1. CASE Cancelled(p) \/ Fault(p)
  BY <1>1, <1>f DEF Cancelled, Fault
<1>2. CASE Disconnect(p)
  BY <1>0, <1>2 DEF Disconnect, ReadSound
<1>3. CASE BeginTx(p) \/ LookupAccount(p) \/ ReadBack(p)
  BY <1>3, <1>f, <1>g DEF BeginTx, LookupAccount, ReadBack, Steps
<1>4. CASE InsertTransaction(p)
  <2>1. Fail(p, "busy") \/ Goto(p, "check") \/ Goto(p, "readback")
    BY <1>4 DEF InsertTransaction
  <2>2. QED
    BY <2>1, <1>f, <1>g DEF Steps
<1>5. CASE CheckBalance(p)
  BY <1>5, <1>f, <1>g DEF CheckBalance, Steps
<1>6. CASE Commit(p)
  <2>1. arg[p].op = "RecordTransaction"
    BY <1>0, <1>6 DEF Commit, At, TxSteps, TxSound
  <2>2. QED
    BY <1>6, <1>l, <2>1 DEF Commit, TwoStatements
<1>7. CASE Write(p)
  BY <1>7, <1>f, <1>l DEF Write, CreateAccount, AppendAudit, Statement, TwoStatements
<1>8. CASE GetAccountRow(p) \/ ListAccounts(p) \/ ListAudit(p) \/ Ping(p)
  BY <1>8, <1>f, <1>l DEF GetAccountRow, ListAccounts, ListAudit, Ping, Statement,
                          TwoStatements
<1>9. CASE CheckAccount(p)
  <2>1. CASE Fail(p, "ErrNotFound")
    BY <1>f, <2>1
  <2>2. CASE AccountExists(db, arg[p].account) /\ Goto(p, "second") /\ db' = db
    BY <1>0, <2>2 DEF Goto, ReadSound
  <2>3. QED
    BY <1>9, <2>1, <2>2 DEF CheckAccount
<1>10. CASE BalanceForAccount(p) \/ ListTransactions(p)
  BY <1>10, SecondStatement
<1>11. QED
  BY <1>1, <1>2, <1>3, <1>4, <1>5, <1>6, <1>7, <1>8, <1>9, <1>10
     DEF Work, Record, Read

\* Balance and ListTransactions read in two statements, and still answer for
\* one committed state in which the account exists: a missing account is never
\* taken for an empty one, whatever is committed, rolled back or lost with the
\* power meanwhile (accounts.go:75-89, 118-130).
THEOREM TrueReads == PowerSpec => []ReadsOneState
<1>1. Init => Readers
  BY DEF Init, Readers, ReadSound
<1>2. IInv /\ IInv' /\ Readers /\ [Next \/ PowerLoss]_vars => Readers'
  <2> SUFFICES ASSUME IInv, IInv', Readers, [Next \/ PowerLoss]_vars,
                      NEW q \in Procs
               PROVE  ReadSound(q)'
    BY DEF Readers
  <2>0. ReadSound(q)
    BY DEF Readers
  <2>1. CASE Crash \/ PowerLoss
    <3>1. pc'[q] = "idle"
      BY <2>1 DEF Crash, PowerLoss, Restart
    <3>2. QED
      BY <3>1 DEF ReadSound
  <2>2. CASE UNCHANGED vars
    BY <2>0, <2>2 DEF vars, ReadSound
  <2>3. ASSUME NEW p \in Procs, Step(p), p # q PROVE ReadSound(q)'
    <3>1. pc'[q] = pc[q] /\ arg'[q] = arg[q] /\ ret'[q] = ret[q]
      BY <2>3, StepApart DEF Apart
    <3>2. /\ \A n \in 0 .. Len(db) : /\ n \in 0 .. Len(db')
                                     /\ SubSeq(db', 1, n) = SubSeq(db, 1, n)
          /\ \A a : AccountExists(db, a) => AccountExists(db', a)
      BY <2>3, PrefixesStay
    <3>3. QED
      BY <2>0, <3>1, <3>2 DEF ReadSound
  <2>4. CASE Step(q)
    <3>1. ASSUME NEW c, Call(q, c) PROVE ReadSound(q)'
      BY <3>1, CallShape DEF ReadSound
    <3>2. CASE Return(q)
      BY <3>2, ReturnShape DEF ReadSound
    <3>3. QED
      BY <2>0, <2>4, <3>1, <3>2, MoverReads DEF Step
  <2>5. QED
    BY <2>1, <2>2, <2>3, <2>4 DEF Next, Step
<1>3. Readers => ReadsOneState
  BY DEF Readers, ReadSound, ReadsOneState, TwoStatements
<1>4. QED
  BY <1>1, <1>2, <1>3, Invariance, PTL DEF PowerSpec

-----------------------------------------------------------------------------
(***************************************************************************)
(* A refusal is justified.                                                 *)
(***************************************************************************)
Refused(p) ==
    ret[p].err = "none" /\ ret'[p].err = "ErrInsufficientBalance"

\* Only the balance check says that the points are missing.
LEMMA WhoRefuses ==
  ASSUME IInv, NEW p \in Procs, Step(p), Refused(p)
  PROVE  CheckBalance(p) /\ Overdrawn(View(p), arg[p].row.account)
<1>0. DOMAIN ret = Procs
  BY DEF IInv, TypeOK
<1>l. ASSUME NEW e, NEW made, NEW v, Leave(p, e, made, v)
      PROVE  e = "ErrInsufficientBalance"
  BY <1>0, <1>l DEF Leave, Refused
<1>f. ASSUME NEW e, Fail(p, e)
      PROVE  e = "ErrInsufficientBalance"
  BY <1>f, <1>l DEF Fail
<1>1. CASE (\E c \in Calls : Call(p, c)) \/ Return(p)
  BY <1>0, <1>1 DEF Call, Return, Refused, NoRet
<1>2. CASE Disconnect(p) \/ Cancelled(p) \/ Fault(p)
  BY <1>2, <1>f DEF Disconnect, Cancelled, Fault, Refused
<1>3. CASE BeginTx(p) \/ LookupAccount(p)
  BY <1>3, <1>f DEF BeginTx, LookupAccount, Refused
<1>4. CASE InsertTransaction(p)
  BY <1>4, <1>f DEF InsertTransaction, Refused
<1>5. CASE CheckBalance(p)
  BY <1>5, <1>f DEF CheckBalance, Refused
<1>6. CASE ReadBack(p)
  BY <1>0, <1>6 DEF ReadBack, Refused
<1>7. CASE Commit(p)
  BY <1>7, <1>l DEF Commit
<1>8. CASE Write(p)
  BY <1>8, <1>f, <1>l DEF Write, CreateAccount, AppendAudit
<1>9. CASE GetAccountRow(p) \/ CheckAccount(p)
  BY <1>9, <1>f, <1>l DEF GetAccountRow, CheckAccount, Refused
<1>10. CASE BalanceForAccount(p) \/ ListTransactions(p)
  BY <1>10, <1>f, <1>l DEF BalanceForAccount, ListTransactions
<1>11. CASE ListAccounts(p) \/ ListAudit(p) \/ Ping(p)
  BY <1>11, <1>f, <1>l DEF ListAccounts, ListAudit, Ping
<1>12. QED
  BY <1>1, <1>2, <1>3, <1>4, <1>5, <1>6, <1>7, <1>8, <1>9, <1>10, <1>11
     DEF Step, Work, Record, Read

LEMMA RefusalStep ==
  ASSUME IInv, Promised, [Next \/ PowerLoss]_vars, NEW p \in Procs, Refused(p)
  PROVE  Balance(db, arg[p].row.account) < arg[p].row.points
<1>1. CASE \E q \in Procs \ {p} : Step(q)
  BY <1>1, StepApart DEF Apart, Refused
<1>2. CASE Crash \/ PowerLoss
  BY <1>2 DEF Crash, PowerLoss, Restart, Refused, NoRet
<1>3. CASE UNCHANGED vars
  BY <1>3 DEF vars, Refused
<1>4. CASE Step(p)
  <2> DEFINE t == arg[p].row
  <2>0. /\ db \in Seq(Row) /\ TxSound /\ tx = {q \in Procs : pc[q] \in TxSteps}
        /\ arg[p] \in Calls \cup {NoCall} /\ ins \in [Procs -> Seq(Row)]
    BY DEF IInv, TypeOK
  <2>1. pc[p] = "check" /\ Overdrawn(View(p), t.account)
    BY <1>4, WhoRefuses DEF CheckBalance, At
  <2>2. p \in tx /\ ins[p] # <<>> /\ Deduction(t)
    BY <2>0, <2>1 DEF TxSteps, Promised, Promise, Underway
  <2>3. ins[p] = <<t>> /\ snap[p] = db /\ arg[p].op = "RecordTransaction"
    BY <2>0, <2>1, <2>2 DEF TxSound
  <2>4. t \in Transaction /\ t \in Row
    BY <2>0, <2>3, CallTypes DEF Row
  <2>5. View(p) = Append(db, t)
    BY <2>0, <2>3, <2>4 DEF View
  <2>6. Balance(View(p), t.account)
           = Balance(db, t.account) + SignedPoints(t, t.account)
    BY <2>0, <2>4, <2>5, SumAppend
  <2>7. t.points \in Int /\ Balance(db, t.account) \in Int
    BY <2>0, <2>4, BalanceInt, LedgerAssumption DEF Transaction, Points
  <2>8. SignedPoints(t, t.account) = -t.points
    BY <2>2, <2>4 DEF SignedPoints, Transaction, IsTxn, Deduction
  <2>9. QED
    BY <2>1, <2>6, <2>7, <2>8 DEF Overdrawn
<1>5. QED
  BY <1>1, <1>2, <1>3, <1>4 DEF Next, Step

\* A deduction is refused for lack of points only if the committed balance is
\* too small at that very step.
THEOREM JustRefusals == PowerSpec => RefusalJustified
<1> DEFINE A == \A p \in Procs :
                   ret[p].err = "none" /\ ret'[p].err = "ErrInsufficientBalance"
                   => Balance(db, arg[p].row.account) < arg[p].row.points
<1>1. IInv /\ Promised /\ [Next \/ PowerLoss]_vars => A
  BY RefusalStep DEF Refused
<1>2. QED
  BY <1>1, Invariance, Promises, PTL DEF PowerSpec, RefusalJustified

-----------------------------------------------------------------------------
(***************************************************************************)
(* The store implements the wallet of Points.                              *)
(***************************************************************************)
Seen(d) == {d[i].ref : i \in {j \in 1 .. Len(d) : IsTxn(d[j])}}

\* What one more row does to the accounts, the refs and the balances.
LEMMA WalletAppend ==
  ASSUME NEW d \in Seq(Row), NEW r \in Row
  PROVE  /\ AccountsIn(Append(d, r)) =
               AccountsIn(d) \cup (IF IsAccount(r) THEN {r.account} ELSE {})
         /\ Seen(Append(d, r)) = Seen(d) \cup (IF IsTxn(r) THEN {r.ref} ELSE {})
         /\ \A a : Balance(Append(d, r), a) = Balance(d, a) + SignedPoints(r, a)
<1> DEFINE e == Append(d, r)
           n == Len(d)
<1>1. /\ n \in Nat /\ Len(e) = n + 1 /\ e[n + 1] = r
      /\ \A i \in 1 .. n : e[i] = d[i]
      /\ 1 .. n + 1 = (1 .. n) \cup {n + 1}
  OBVIOUS
<1> HIDE DEF e, n
<1>2. AccountsIn(e) = AccountsIn(d) \cup (IF IsAccount(r) THEN {r.account} ELSE {})
  BY <1>1 DEF AccountsIn, n
<1>3. Seen(e) = Seen(d) \cup (IF IsTxn(r) THEN {r.ref} ELSE {})
  BY <1>1 DEF Seen, n
<1>4. QED
  BY <1>2, <1>3, SumAppend DEF e

LEMMA WalletInit == Init => PointsMap!Init
<1> SUFFICES ASSUME Init PROVE PointsMap!Init
  OBVIOUS
<1>1. /\ db = Migrated /\ Migrated \in Seq(Row) /\ Len(Migrated) = 2
      /\ IsAccount(Migrated[1]) /\ IsAccount(Migrated[2])
      /\ ~IsTxn(Migrated[1]) /\ ~IsTxn(Migrated[2])
      /\ Migrated[1].account = DemoMember /\ Migrated[2].account = DemoAdmin
  BY LedgerAssumption
     DEF Init, Migrated, Row, Account, Hashes, Roles, IsAccount, IsTxn
<1>2. 1 .. Len(Migrated) = {1, 2}
  BY <1>1
<1>3. AccountsIn(db) = {DemoMember, DemoAdmin}
  BY <1>1, <1>2 DEF AccountsIn
<1>4. {db[i].ref : i \in {j \in 1 .. Len(db) : IsTxn(db[j])}} = {}
  BY <1>1, <1>2
<1>5. ASSUME NEW a \in AccountIds
      PROVE  Balance(db, a) = 0
  <2> DEFINE s == RunningSum(Migrated, a)
  <2>1. /\ s[0] = 0
        /\ \A k \in 1 .. 2 : s[k] = s[k - 1] + SignedPoints(Migrated[k], a)
    BY <1>1, SumStep
  <2>2. SignedPoints(Migrated[1], a) = 0 /\ SignedPoints(Migrated[2], a) = 0
    BY <1>1 DEF SignedPoints
  <2> HIDE DEF s
  <2>3. s[0] = 0 /\ s[1] = s[0] + 0 /\ s[2] = s[1] + 0
    BY <2>1, <2>2
  <2>4. QED
    BY <1>1, <2>3 DEF Balance, s
<1>6. QED
  BY <1>3, <1>4, <1>5 DEF PointsMap!Init

LEMMA WalletStep ==
  ASSUME IInv, [Next]_vars
  PROVE  [PointsMap!Next]_(PointsMap!pointsVars)
<1>0. db \in Seq(Row)
  BY DEF IInv, TypeOK
<1>1. CASE db' = db
  BY <1>1 DEF PointsMap!pointsVars
<1>2. ASSUME NEW p \in Procs, Opened(p)
      PROVE  PointsMap!Next
  <2> DEFINE a == arg[p].account
             r == NewAccount(arg[p])
  <2>1. r \in Account /\ ~AccountExists(db, a) /\ db' = Append(db, r)
    BY <1>2 DEF Opened
  <2>2. r \in Row /\ IsAccount(r) /\ ~IsTxn(r) /\ r.account = a /\ a \in AccountIds
    BY <2>1 DEF Row, Account, IsAccount, IsTxn, NewAccount
  <2> HIDE DEF r
  <2>3. AccountsIn(db') = AccountsIn(db) \cup {a} /\ Seen(db') = Seen(db)
    BY <1>0, <2>1, <2>2, WalletAppend
  <2>4. \A b \in AccountIds : Balance(db', b) = Balance(db, b)
    BY <1>0, <2>1, <2>2, WalletAppend, BalanceInt DEF SignedPoints
  <2>5. a \notin AccountsIn(db)
    BY <2>1 DEF AccountsIn, AccountExists
  <2>6. PointsMap!Open(a)
    BY <2>3, <2>4, <2>5 DEF PointsMap!Open, Seen
  <2>7. QED
    BY <2>2, <2>6 DEF PointsMap!Next
<1>3. ASSUME NEW p \in Procs, Audited(p)
      PROVE  UNCHANGED PointsMap!pointsVars
  <2> DEFINE r == arg[p].row
  <2>1. r \in Row /\ ~IsAccount(r) /\ ~IsTxn(r) /\ db' = Append(db, r)
    BY <1>3 DEF Audited, Row, AuditEntry, IsAccount, IsTxn
  <2>2. AccountsIn(db') = AccountsIn(db) /\ Seen(db') = Seen(db)
    BY <1>0, <2>1, WalletAppend
  <2>3. \A b \in AccountIds : Balance(db', b) = Balance(db, b)
    BY <1>0, <2>1, WalletAppend, BalanceInt DEF SignedPoints
  <2>4. QED
    BY <2>2, <2>3 DEF PointsMap!pointsVars, Seen
<1>4. ASSUME NEW p \in Procs, Paid(p)
      PROVE  PointsMap!Next
  <2> DEFINE t == arg[p].row
  <2>1. t \in Transaction /\ db' = Append(db, t)
    BY <1>4 DEF Paid
  <2>2. /\ t \in Row /\ IsTxn(t) /\ ~IsAccount(t) /\ t.account \in AccountIds
        /\ t.ref \in Refs /\ t.points \in 1 .. MaxInt64 /\ t.kind \in Kinds
    BY <2>1 DEF Row, Transaction, IsTxn, IsAccount, Points
  <2>3. PICK a \in AccountIds, ref \in Refs, n \in 1 .. MaxInt64 :
                t.account = a /\ t.ref = ref /\ t.points = n
    BY <2>2
  <2>4. /\ AccountExists(db, a) /\ ~RefExists(db, ref)
        /\ Deduction(t) => Balance(db, a) >= n
    BY <1>4, <2>3 DEF Paid
  <2>5. AccountsIn(db') = AccountsIn(db) /\ Seen(db') = Seen(db) \cup {ref}
    BY <1>0, <2>1, <2>2, <2>3, WalletAppend
  <2>6. a \in AccountsIn(db) /\ ref \notin Seen(db)
    BY <2>4 DEF AccountsIn, AccountExists, Seen, RefExists
  <2>7. ASSUME NEW amount \in Int, SignedPoints(t, a) = amount
        PROVE  PointsMap!Move(ref, a, amount)
    <3>1. ASSUME NEW b \in AccountIds
          PROVE  Balance(db', b) = IF b = a THEN Balance(db, a) + amount
                                            ELSE Balance(db, b)
      <4>1. Balance(db', b) = Balance(db, b) + SignedPoints(t, b)
        BY <1>0, <2>1, <2>2, WalletAppend
      <4>2. b # a => SignedPoints(t, b) = 0
        BY <2>3 DEF SignedPoints
      <4>3. Balance(db, b) \in Int
        BY <1>0, BalanceInt
      <4>4. QED
        BY <2>7, <4>1, <4>2, <4>3
    <3>2. QED
      BY <2>5, <2>6, <3>1 DEF PointsMap!Move, Seen
  <2>8. CASE t.kind = "earn"
    <3>1. SignedPoints(t, a) = n /\ n \in Int
      BY <2>2, <2>3, <2>8 DEF SignedPoints
    <3>2. PointsMap!Earn(ref, a, n)
      BY <2>7, <3>1 DEF PointsMap!Earn
    <3>3. QED
      BY <3>2 DEF PointsMap!Next
  <2>9. CASE t.kind \in {"spend", "redeem"}
    <3>1. SignedPoints(t, a) = -n /\ -n \in Int
      BY <2>2, <2>3, <2>9 DEF SignedPoints
    <3>2. [b \in AccountIds |-> Balance(db, b)][a] >= n
      BY <2>4, <2>9 DEF Deduction
    <3>3. PointsMap!Deduct(ref, a, n)
      BY <2>7, <3>1, <3>2 DEF PointsMap!Deduct
    <3>4. QED
      BY <3>3 DEF PointsMap!Next
  <2>10. QED
    BY <2>2, <2>8, <2>9 DEF Kinds
<1>5. ASSUME NEW p \in Procs, Step(p)
      PROVE  [PointsMap!Next]_(PointsMap!pointsVars)
  BY <1>1, <1>2, <1>3, <1>4, <1>5, Growth
<1>6. CASE Crash \/ UNCHANGED vars
  BY <1>1, <1>6 DEF Crash, vars
<1>7. QED
  BY <1>5, <1>6 DEF Next, Step

\* Without power losses every step of the store is a step of the wallet or
\* leaves it alone: opening is atomic, a ref moves points once and a deduction
\* never exceeds the balance, through every crash.
THEOREM StoreIsAWallet == Spec => ImplementsPoints
<1>1. Spec => []IInv
  <2>1. IInv /\ [Next]_vars => IInv'
    BY NextKeeps
  <2>2. QED
    BY <2>1, InitSound, PTL DEF Spec
<1>2. IInv /\ [Next]_vars => [PointsMap!Next]_(PointsMap!pointsVars)
  BY WalletStep
<1>3. QED
  BY <1>1, <1>2, WalletInit, PTL DEF Spec, ImplementsPoints, PointsMap!Spec

=============================================================================
