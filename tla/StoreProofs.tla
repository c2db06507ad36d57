---------------------------- MODULE StoreProofs ------------------------------
(***************************************************************************)
(* The safety of the store for any number of callers, accounts, refs and   *)
(* points, on a machine that crashes and loses power.                      *)
(*                                                                         *)
(* The inductive invariant is IInv.  TxSound is its core: with a single    *)
(* connection, a transaction's snapshot is the database itself until it    *)
(* commits, so what the transaction established about the snapshot (the    *)
(* account exists, the ref is new, the points are there) still holds of    *)
(* the database when its row is appended.                                  *)
(***************************************************************************)
EXTENDS Store, LedgerProofs, FiniteSetTheorems

DbSound == RefCountedOnce /\ NoOverdraft /\ KeysHold

IInv == TypeOK /\ TxSound /\ DbSound /\ NeverBusy

-----------------------------------------------------------------------------
(***************************************************************************)
(* The pool.                                                               *)
(***************************************************************************)

\* With one connection, a free connection means that no transaction is open.
LEMMA FreeMeansNone ==
  ASSUME \A p, q \in tx : p = q, ConnFree
  PROVE  tx = {}
<1> SUFFICES ASSUME tx # {} PROVE FALSE
  OBVIOUS
<1>1. PICK p \in tx : TRUE
  OBVIOUS
<1>2. tx = {p}
  BY <1>1
<1>3. Cardinality(tx) = 1
  BY <1>2, FS_Singleton
<1>4. QED
  BY <1>3 DEF ConnFree, MaxOpenConns

\* The arguments of a call have the types of its operation.
LEMMA CallTypes ==
  ASSUME NEW c \in Calls \cup {NoCall}
  PROVE  /\ c.op = "RecordTransaction" => c.row \in Transaction
         /\ c.op = "CreateAccount" => c.account \in AccountIds /\ c.hash \in Hashes
         /\ c.op = "AppendAudit" => c.row \in AuditEntry
BY StoreAssumption DEF CallSet, NoCall

-----------------------------------------------------------------------------
(***************************************************************************)
(* Appending a row to a sound database.                                    *)
(***************************************************************************)
LEMMA AppendSound ==
  ASSUME db \in Seq(Row), DbSound, NEW r \in Row, db' = Append(db, r),
         IsAccount(r) => ~AccountExists(db, r.account),
         IsTxn(r) => /\ AccountExists(db, r.account)
                     /\ ~RefExists(db, r.ref)
                     /\ Deduction(r) => Balance(db, r.account) >= r.points
  PROVE  db' \in Seq(Row) /\ DbSound'
<1>1. /\ db' \in Seq(Row) /\ Len(db) \in Nat /\ Len(db') = Len(db) + 1
      /\ \A i \in 1 .. Len(db) : db'[i] = db[i]
      /\ db'[Len(db) + 1] = r
  OBVIOUS
<1>2. RefCountedOnce'
  BY <1>1 DEF DbSound, RefCountedOnce, RefExists
<1>3. KeysHold'
  <2> SUFFICES ASSUME NEW i \in 1 .. Len(db')
               PROVE  /\ IsAccount(db'[i]) =>
                            \A j \in 1 .. Len(db') :
                               IsAccount(db'[j]) /\ db'[j].account = db'[i].account
                               => j = i
                      /\ IsTxn(db'[i]) =>
                            \E j \in 1 .. i - 1 :
                               IsAccount(db'[j]) /\ db'[j].account = db'[i].account
    BY DEF KeysHold
  <2>1. CASE i = Len(db) + 1
    BY <1>1, <2>1 DEF AccountExists
  <2>2. CASE i \in 1 .. Len(db)
    <3>1. ASSUME IsAccount(db[i]), NEW j \in 1 .. Len(db'),
                 IsAccount(db'[j]), db'[j].account = db[i].account
          PROVE  j = i
      BY <1>1, <2>2, <3>1 DEF DbSound, KeysHold, AccountExists
    <3>2. IsTxn(db[i]) => \E j \in 1 .. i - 1 :
                             IsAccount(db[j]) /\ db[j].account = db[i].account
      BY <2>2 DEF DbSound, KeysHold
    <3>3. \A j \in 1 .. i - 1 : db'[j] = db[j]
      BY <1>1, <2>2
    <3>4. QED
      BY <1>1, <2>2, <3>1, <3>2, <3>3
  <2>3. QED
    BY <1>1, <2>1, <2>2
<1>4. NoOverdraft'
  <2> SUFFICES ASSUME NEW a \in AccountIds, NEW i \in 0 .. Len(db')
               PROVE  RunningSum(db', a)[i] >= 0
    BY DEF NoOverdraft
  <2>1. /\ \A k \in 0 .. Len(db) : RunningSum(db', a)[k] = RunningSum(db, a)[k]
        /\ RunningSum(db', a)[Len(db) + 1]
              = RunningSum(db, a)[Len(db)] + SignedPoints(r, a)
    BY SumAppend
  <2>2. \A k \in 0 .. Len(db) : RunningSum(db, a)[k] >= 0
    BY DEF DbSound, NoOverdraft
  <2>3. RunningSum(db, a)[Len(db)] + SignedPoints(r, a) >= 0
    <3>1. RunningSum(db, a)[Len(db)] \in Int /\ RunningSum(db, a)[Len(db)] >= 0
      BY <1>1, <2>2, SumInt
    <3>2. CASE ~(IsTxn(r) /\ r.account = a)
      BY <3>1, <3>2 DEF SignedPoints
    <3>3. CASE IsTxn(r) /\ r.account = a
      <4>1. r \in Transaction
        BY <3>3 DEF Row, Account, AuditEntry, IsTxn
      <4>2. r.points \in Nat /\ r.kind \in Kinds
        BY <4>1, LedgerAssumption DEF Transaction, Points
      <4>3. CASE r.kind = "earn"
        BY <3>1, <3>3, <4>2, <4>3 DEF SignedPoints
      <4>4. CASE r.kind \in {"spend", "redeem"}
        <5>1. RunningSum(db, a)[Len(db)] >= r.points
          BY <3>3, <4>4 DEF Deduction, Balance
        <5>2. QED
          BY <3>1, <3>3, <4>2, <4>4, <5>1 DEF SignedPoints
      <4>5. QED
        BY <4>2, <4>3, <4>4 DEF Kinds
    <3>4. QED
      BY <3>2, <3>3
  <2>4. QED
    BY <1>1, <2>1, <2>2, <2>3
<1>5. QED
  BY <1>1, <1>2, <1>3, <1>4 DEF DbSound

\* What a power loss leaves is sound: the invariants speak of every prefix.
LEMMA PrefixSound ==
  ASSUME db \in Seq(Row), DbSound, NEW n \in 0 .. Len(db), db' = SubSeq(db, 1, n)
  PROVE  db' \in Seq(Row) /\ DbSound'
<1>1. /\ db' \in Seq(Row) /\ Len(db) \in Nat /\ Len(db') = n /\ n <= Len(db)
      /\ \A i \in 1 .. n : db'[i] = db[i]
  OBVIOUS
<1>2. RefCountedOnce'
  BY <1>1 DEF DbSound, RefCountedOnce
<1>3. KeysHold'
  <2> SUFFICES ASSUME NEW i \in 1 .. n
               PROVE  /\ IsAccount(db'[i]) =>
                            \A j \in 1 .. n :
                               IsAccount(db'[j]) /\ db'[j].account = db'[i].account
                               => j = i
                      /\ IsTxn(db'[i]) =>
                            \E j \in 1 .. i - 1 :
                               IsAccount(db'[j]) /\ db'[j].account = db'[i].account
    BY <1>1 DEF KeysHold
  <2>1. i \in 1 .. Len(db) /\ (\A j \in 1 .. i - 1 : j \in 1 .. n)
    BY <1>1
  <2>2. IsTxn(db[i]) => \E j \in 1 .. i - 1 :
                           IsAccount(db[j]) /\ db[j].account = db[i].account
    BY <2>1 DEF DbSound, KeysHold
  <2>3. QED
    BY <1>1, <2>1, <2>2 DEF DbSound, KeysHold
<1>4. NoOverdraft'
  BY <1>1, SumSubSeq DEF DbSound, NoOverdraft
<1>5. QED
  BY <1>1, <1>2, <1>3, <1>4 DEF DbSound

-----------------------------------------------------------------------------
(***************************************************************************)
(* IInv is an invariant.                                                   *)
(***************************************************************************)
LEMMA InitSound == Init => IInv
<1> SUFFICES ASSUME Init PROVE IInv
  OBVIOUS
<1>1. /\ Migrated \in Seq(Row) /\ Len(Migrated) = 2
      /\ IsAccount(Migrated[1]) /\ IsAccount(Migrated[2])
      /\ Migrated[1].account = DemoMember /\ Migrated[2].account = DemoAdmin
      /\ Migrated[1] \in Account /\ Migrated[2] \in Account
  BY LedgerAssumption
     DEF Migrated, Row, Account, Hashes, Roles, IsAccount
<1>2. TypeOK
  <2>1. /\ pc \in [Procs -> Steps] /\ arg \in [Procs -> Calls \cup {NoCall}]
        /\ snap \in [Procs -> Seq(Row)] /\ ins \in [Procs -> Seq(Row)]
    BY DEF Init, Steps
  <2>2. gone \in [Procs -> BOOLEAN]
    BY Zenon DEF Init
  <2>3. /\ DOMAIN ret = Procs
        /\ \A p \in Procs : ret[p].err \in Errors /\ ret[p].created \in BOOLEAN
    BY DEF Init, NoRet, Errors
  <2>4. tx = {p \in Procs : pc[p] \in TxSteps}
    BY DEF Init, TxSteps
  <2>5. QED
    BY <1>1, <2>1, <2>2, <2>3, <2>4 DEF Init, TypeOK
<1>3. TxSound
  BY DEF Init, TxSound
<1>4. NeverBusy
  BY DEF Init, NeverBusy, NoRet
<1>5. RefCountedOnce
  BY <1>1 DEF Init, RefCountedOnce, IsTxn, IsAccount
<1>6. KeysHold
  BY <1>1, LedgerAssumption DEF Init, KeysHold, IsTxn, IsAccount
<1>7. NoOverdraft
  <2> SUFFICES ASSUME NEW a \in AccountIds, NEW i \in 0 .. 2
               PROVE  RunningSum(Migrated, a)[i] >= 0
    BY <1>1 DEF Init, NoOverdraft
  <2>1. \A k \in 1 .. 2 : SignedPoints(Migrated[k], a) = 0
    BY <1>1 DEF SignedPoints, IsTxn, IsAccount
  <2> DEFINE s == RunningSum(Migrated, a)
  <2>2. /\ s[0] = 0
        /\ \A k \in 1 .. 2 : s[k] = s[k - 1] + SignedPoints(Migrated[k], a)
    BY <1>1, SumStep
  <2> HIDE DEF s
  <2>3. s[0] = 0 /\ s[1] = s[0] + 0 /\ s[2] = s[1] + 0
    BY <2>1, <2>2
  <2>4. QED
    BY <2>3 DEF s
<1>8. QED
  BY <1>2, <1>3, <1>4, <1>5, <1>6, <1>7 DEF IInv, DbSound

\* Leaving a store function keeps IInv when the database stays as it is or
\* nobody else is in a transaction.
LEMMA LeaveKeeps ==
  ASSUME IInv, NEW p \in Procs, NEW e \in Errors \ {"busy"},
         NEW made \in BOOLEAN, NEW v, Leave(p, e, made, v),
         arg' = arg, gone' = gone, db' \in Seq(Row), DbSound',
         db' = db \/ tx \subseteq {p}
  PROVE  IInv'
<1>1. TypeOK'
  <2>1. /\ pc' \in [Procs -> Steps] /\ arg' \in [Procs -> Calls \cup {NoCall}]
        /\ snap' \in [Procs -> Seq(Row)] /\ ins' \in [Procs -> Seq(Row)]
    BY DEF IInv, TypeOK, Leave, Goto, Steps
  <2>2. gone' \in [Procs -> BOOLEAN]
    BY DEF IInv, TypeOK
  <2>3. /\ DOMAIN ret' = Procs
        /\ \A q \in Procs : ret'[q].err \in Errors /\ ret'[q].created \in BOOLEAN
    BY DEF IInv, TypeOK, Leave
  <2>4. tx' = {q \in Procs : pc'[q] \in TxSteps}
    BY DEF IInv, TypeOK, Leave, Goto, TxSteps
  <2>5. QED
    BY <2>1, <2>2, <2>3, <2>4 DEF TypeOK
<1>2. TxSound'
  <2>1. /\ tx' = tx \ {p} /\ ins'[p] = <<>> /\ tx \subseteq Procs
        /\ \A q \in Procs \ {p} :
              pc'[q] = pc[q] /\ snap'[q] = snap[q] /\ ins'[q] = ins[q]
    BY DEF IInv, TypeOK, Leave, Goto
  <2>2. CASE tx \subseteq {p}
    <3>1. tx' = {} /\ \A q \in Procs : ins'[q] = <<>>
      BY <2>1, <2>2 DEF IInv, TxSound
    <3>2. QED
      BY <3>1 DEF TxSound
  <2>3. CASE db' = db
    BY <2>1, <2>3 DEF IInv, TxSound
  <2>4. QED
    BY <2>2, <2>3
<1>3. NeverBusy'
  BY DEF IInv, TypeOK, NeverBusy, Leave
<1>4. QED
  BY <1>1, <1>2, <1>3 DEF IInv

\* A step inside a store function that leaves the database and the results
\* alone; what it does to the transaction of p is left to show.
LEMMA StepKeeps ==
  ASSUME IInv, NEW p \in Procs, NEW step \in Steps, Goto(p, step),
         tx' = {q \in Procs : pc'[q] \in TxSteps},
         snap' \in [Procs -> Seq(Row)], ins' \in [Procs -> Seq(Row)],
         UNCHANGED <<db, arg, gone>>,
         DOMAIN ret' = Procs,
         \A q \in Procs : ret'[q].err = ret[q].err /\ ret'[q].created = ret[q].created,
         TxSound'
  PROVE  IInv'
<1>1. TypeOK'
  <2>1. pc' \in [Procs -> Steps]
    BY DEF IInv, TypeOK, Goto
  <2>2. \A q \in Procs : ret'[q].err \in Errors /\ ret'[q].created \in BOOLEAN
    BY DEF IInv, TypeOK
  <2>3. db' \in Seq(Row) /\ arg' \in [Procs -> Calls \cup {NoCall}]
        /\ gone' \in [Procs -> BOOLEAN]
    BY DEF IInv, TypeOK
  <2>4. QED
    BY <2>1, <2>2, <2>3 DEF TypeOK
<1>2. DbSound'
  BY DEF IInv, DbSound, RefCountedOnce, NoOverdraft, KeysHold
<1>3. NeverBusy'
  BY DEF IInv, NeverBusy
<1>4. QED
  BY <1>1, <1>2, <1>3 DEF IInv

\* What does not change the database keeps it sound.
LEMMA DbKeeps ==
  ASSUME DbSound, db' = db
  PROVE  DbSound'
BY DEF DbSound, RefCountedOnce, NoOverdraft, KeysHold

LEMMA FailKeeps ==
  ASSUME IInv, NEW p \in Procs, NEW e \in Errors \ {"busy"}, Fail(p, e),
         UNCHANGED <<db, arg, gone>>
  PROVE  IInv'
<1>1. db' \in Seq(Row) /\ DbSound'
  BY DbKeeps DEF IInv, TypeOK
<1>2. QED
  BY <1>1, LeaveKeeps DEF Fail

\* The statements of RecordTransaction.
LEMMA RecordKeeps ==
  ASSUME IInv, NEW p \in Procs, Record(p)
  PROVE  IInv'
<1> USE DEF At
<1>0. /\ TypeOK /\ TxSound /\ tx = {q \in Procs : pc[q] \in TxSteps}
      /\ db \in Seq(Row) /\ pc \in [Procs -> Steps]
      /\ snap \in [Procs -> Seq(Row)] /\ ins \in [Procs -> Seq(Row)]
      /\ DOMAIN ret = Procs
  BY DEF IInv, TypeOK
<1>t. p \in tx => tx = {p} /\ arg[p].row \in Transaction
  BY <1>0, CallTypes DEF TxSound, TypeOK
<1>1. CASE BeginTx(p)
  <2>1. tx = {}
    BY <1>0, <1>1, FreeMeansNone DEF BeginTx, Statement, TxSound
  <2>2. tx' = {q \in Procs : pc'[q] \in TxSteps}
    BY <1>0, <1>1 DEF BeginTx, Goto, TxSteps
  <2>3. \A q \in Procs : ins[q] = <<>>
    BY <1>0, <2>1 DEF TxSound
  <2>4. TxSound'
    BY <1>0, <1>1, <2>1, <2>3 DEF BeginTx, Statement, Goto, TxSound
  <2>5. QED
    BY <1>0, <1>1, <2>2, <2>4, StepKeeps DEF BeginTx, Steps
<1>2. CASE LookupAccount(p)
  <2>1. p \in tx
    BY <1>0, <1>2 DEF LookupAccount, TxSteps
  <2>2. CASE Fail(p, "ErrNotFound")
    BY <1>2, <2>2, FailKeeps DEF LookupAccount, Errors
  <2>3. CASE ~Fail(p, "ErrNotFound")
    <3>1. /\ AccountExists(db, arg[p].row.account)
          /\ snap' = [snap EXCEPT ![p] = db] /\ Goto(p, "insert")
          /\ UNCHANGED <<tx, ins, ret, db, arg, gone>>
      BY <1>2, <2>3 DEF LookupAccount
    <3>2. tx' = {q \in Procs : pc'[q] \in TxSteps}
      BY <1>0, <2>1, <3>1 DEF Goto, TxSteps
    <3>3. snap' \in [Procs -> Seq(Row)]
      BY <1>0, <3>1
    <3>4. TxSound'
      BY <1>0, <1>2, <1>t, <2>1, <3>1 DEF LookupAccount, Goto, TxSound
    <3>5. QED
      BY <1>0, <3>1, <3>2, <3>3, <3>4, StepKeeps DEF Steps
  <2>4. QED
    BY <2>2, <2>3
<1>3. CASE InsertTransaction(p)
  <2> DEFINE t == arg[p].row
  <2>1. p \in tx
    BY <1>0, <1>3 DEF InsertTransaction, TxSteps
  <2>2. snap[p] = db /\ AccountExists(db, t.account) /\ ins[p] = <<>>
    BY <1>0, <1>3, <2>1 DEF InsertTransaction, TxSound
  <2>3. View(p) = db
    BY <1>0, <2>2 DEF View
  <2>4. ~Busy(p)
    BY <1>t, <2>1, <2>2 DEF Busy, WriteLocked, Stale
  <2> DEFINE fresh == ~RefExists(db, t.ref)
             step == IF fresh /\ Deduction(t) THEN "check" ELSE "readback"
  <2>5. /\ ins' = [ins EXCEPT ![p] = IF fresh THEN <<t>> ELSE <<>>]
        /\ Goto(p, step)
        /\ UNCHANGED <<tx, snap, ret, db, arg, gone>>
    BY <1>3, <2>3, <2>4 DEF InsertTransaction
  <2>6. t \in Row /\ step \in Steps /\ step \in TxSteps
    BY <1>t, <2>1 DEF Row, Steps, TxSteps
  <2>7. tx' = {q \in Procs : pc'[q] \in TxSteps}
    BY <1>0, <2>1, <2>5, <2>6 DEF Goto
  <2>8. ins' \in [Procs -> Seq(Row)]
    BY <1>0, <2>5, <2>6
  <2>9. TxSound'
    BY <1>0, <1>t, <2>1, <2>2, <2>5 DEF Goto, TxSound
  <2>10. QED
    BY <1>0, <2>5, <2>6, <2>7, <2>8, <2>9, StepKeeps
<1>4. CASE CheckBalance(p)
  <2> DEFINE t == arg[p].row
  <2>1. p \in tx
    BY <1>0, <1>4 DEF CheckBalance, TxSteps
  <2>2. CASE \/ Fail(p, "overflow")
             \/ Fail(p, "ErrInsufficientBalance")
    BY <1>4, <2>2, FailKeeps DEF CheckBalance, Errors
  <2>3. CASE ~ \/ Fail(p, "overflow")
               \/ Fail(p, "ErrInsufficientBalance")
    <3>1. /\ ~Overdrawn(View(p), t.account) /\ Goto(p, "readback")
          /\ UNCHANGED <<tx, snap, ins, ret, db, arg, gone>>
      BY <1>4, <2>3 DEF CheckBalance
    <3>2. snap[p] = db
      BY <1>0, <1>4, <2>1 DEF CheckBalance, TxSound
    <3>3. ASSUME ins[p] # <<>>, Deduction(t)
          PROVE  Balance(db, t.account) >= t.points
      <4>1. ins[p] = <<t>> /\ t \in Row
        BY <1>0, <1>t, <2>1, <3>3 DEF TxSound, Row
      <4>2. View(p) = Append(db, t)
        BY <1>0, <3>2, <4>1 DEF View
      <4>3. Balance(View(p), t.account)
               = Balance(db, t.account) + SignedPoints(t, t.account)
        BY <1>0, <4>1, <4>2, SumAppend
      <4>4. t.points \in Int /\ Balance(db, t.account) \in Int
        BY <1>0, <1>t, <2>1, BalanceInt, LedgerAssumption DEF Transaction, Points
      <4>5. SignedPoints(t, t.account) = -t.points
        BY <1>t, <2>1, <3>3 DEF SignedPoints, Transaction, IsTxn, Deduction
      <4>6. QED
        BY <3>1, <4>3, <4>4, <4>5 DEF Overdrawn
    <3>4. tx' = {q \in Procs : pc'[q] \in TxSteps}
      BY <1>0, <2>1, <3>1 DEF Goto, TxSteps
    <3>5. TxSound'
      BY <1>0, <1>4, <1>t, <2>1, <3>1, <3>3 DEF CheckBalance, Goto, TxSound
    <3>6. QED
      BY <1>0, <3>1, <3>4, <3>5, StepKeeps DEF Steps
  <2>4. QED
    BY <2>2, <2>3
<1>5. CASE ReadBack(p)
  <2>1. p \in tx
    BY <1>0, <1>5 DEF ReadBack, TxSteps
  <2>2. tx' = {q \in Procs : pc'[q] \in TxSteps}
    BY <1>0, <1>5, <2>1 DEF ReadBack, Goto, TxSteps
  <2>3. /\ DOMAIN ret' = Procs
        /\ \A q \in Procs : ret'[q].err = ret[q].err /\ ret'[q].created = ret[q].created
    BY <1>0, <1>5 DEF ReadBack
  <2>4. TxSound'
    BY <1>0, <1>5, <1>t, <2>1 DEF ReadBack, Goto, TxSound
  <2>5. QED
    BY <1>0, <1>5, <2>2, <2>3, <2>4, StepKeeps DEF ReadBack, Steps
<1>6. CASE Commit(p)
  <2>1. p \in tx
    BY <1>0, <1>6 DEF Commit, TxSteps
  <2>2. db' \in Seq(Row) /\ DbSound'
    <3>1. CASE ins[p] = <<>>
      <4>1. db' = db
        BY <1>0, <1>6, <3>1 DEF Commit
      <4>2. QED
        BY <1>0, <4>1, DbKeeps DEF IInv
    <3>2. CASE ins[p] # <<>>
      <4> DEFINE t == arg[p].row
      <4>1. ins[p] = <<t>> /\ t \in Row /\ IsTxn(t)
        BY <1>0, <1>t, <2>1, <3>2 DEF TxSound, Row, Transaction, IsTxn
      <4>2. db' = Append(db, t)
        BY <1>0, <1>6, <4>1 DEF Commit
      <4>3. ~IsAccount(t)
        BY <4>1 DEF IsTxn, IsAccount
      <4>4. /\ AccountExists(db, t.account) /\ ~RefExists(db, t.ref)
            /\ Deduction(t) => Balance(db, t.account) >= t.points
        BY <1>0, <1>6, <2>1, <3>2 DEF Commit, TxSound
      <4>5. QED
        BY <1>0, <4>1, <4>2, <4>3, <4>4, AppendSound DEF IInv
    <3>3. QED
      BY <3>1, <3>2
  <2>3. QED
    BY <1>6, <1>t, <2>1, <2>2, LeaveKeeps DEF Commit, Errors
<1>7. QED
  BY <1>1, <1>2, <1>3, <1>4, <1>5, <1>6 DEF Record

\* The calls that run outside a transaction.
LEMMA PoolKeeps ==
  ASSUME IInv, NEW p \in Procs, Write(p) \/ Read(p)
  PROVE  IInv'
<1>0. /\ TypeOK /\ TxSound /\ DbSound /\ db \in Seq(Row)
      /\ arg[p] \in Calls \cup {NoCall}
  BY DEF IInv, TypeOK
<1>1. CASE CreateAccount(p)
  <2>1. tx = {}
    BY <1>0, <1>1, FreeMeansNone DEF CreateAccount, Statement, TxSound
  <2>2. ~Busy(p)
    BY <2>1 DEF Busy, WriteLocked, Stale
  <2> DEFINE a == arg[p].account
             new == [table |-> "accounts", account |-> a, hash |-> arg[p].hash,
                     role |-> "member"]
  <2>3. CASE AccountExists(db, a)
    BY <1>1, <2>2, <2>3, FailKeeps DEF CreateAccount, Errors
  <2>4. CASE ~AccountExists(db, a)
    <3>1. db' = Append(db, new) /\ Leave(p, "none", TRUE, NoVal)
          /\ arg' = arg /\ gone' = gone
      BY <1>1, <2>2, <2>4 DEF CreateAccount
    <3>2. new \in Account
      BY <1>0, <1>1, CallTypes DEF CreateAccount, Statement, Account, Roles
    <3>3. new \in Row /\ ~IsTxn(new)
      BY <3>2 DEF Row, IsTxn
    <3>4. db' \in Seq(Row) /\ DbSound'
      BY <1>0, <2>4, <3>1, <3>3, AppendSound
    <3>5. QED
      BY <2>1, <3>1, <3>4, LeaveKeeps DEF Errors
  <2>5. QED
    BY <2>3, <2>4
<1>2. CASE AppendAudit(p)
  <2>1. tx = {}
    BY <1>0, <1>2, FreeMeansNone DEF AppendAudit, Statement, TxSound
  <2>2. ~Busy(p)
    BY <2>1 DEF Busy, WriteLocked, Stale
  <2> DEFINE full == Len(SelectSeq(db, IsAudit)) >= MaxAudit
  <2>3. CASE full
    BY <1>2, <2>2, <2>3, FailKeeps DEF AppendAudit, Errors
  <2>4. CASE ~full
    <3>1. db' = Append(db, arg[p].row)
          /\ Leave(p, "none", TRUE, RowVal(arg[p].row))
          /\ arg' = arg /\ gone' = gone
      BY <1>2, <2>2, <2>4 DEF AppendAudit
    <3>2. arg[p].row \in AuditEntry
      BY <1>0, <1>2, CallTypes DEF AppendAudit, Statement
    <3>3. arg[p].row \in Row /\ ~IsTxn(arg[p].row) /\ ~IsAccount(arg[p].row)
      BY <3>2 DEF Row, AuditEntry, IsTxn, IsAccount
    <3>4. db' \in Seq(Row) /\ DbSound'
      BY <1>0, <3>1, <3>3, AppendSound
    <3>5. QED
      BY <2>1, <3>1, <3>4, LeaveKeeps DEF Errors
  <2>5. QED
    BY <2>3, <2>4
<1>3. CASE Read(p)
  <2>1. UNCHANGED <<db, arg, gone>>
    BY <1>3 DEF Read, GetAccountRow, CheckAccount, BalanceForAccount,
                ListTransactions, ListAccounts, ListAudit, Ping
  <2>2. db' \in Seq(Row) /\ DbSound'
    BY <1>0, <2>1, DbKeeps
  <2>3. ASSUME NEW e \in Errors \ {"busy"}, NEW v, Leave(p, e, FALSE, v)
        PROVE  IInv'
    BY <2>1, <2>2, <2>3, LeaveKeeps
  <2>4. CASE Goto(p, "second") /\ UNCHANGED <<tx, snap, ins, ret>> /\ pc[p] = "call"
    <3>1. tx' = {q \in Procs : pc'[q] \in TxSteps}
      BY <1>0, <2>4 DEF TypeOK, Goto, TxSteps
    <3>2. p \notin tx
      BY <1>0, <2>4 DEF TypeOK, TxSteps
    <3>3. TxSound'
      BY <1>0, <2>1, <2>4, <3>2 DEF TypeOK, TxSound, Goto
    <3>4. QED
      BY <1>0, <2>1, <2>4, <3>1, <3>3, StepKeeps DEF TypeOK, Steps
  <2>5. CASE GetAccountRow(p)
    BY <2>3, <2>5 DEF GetAccountRow, Fail, Errors
  <2>6. CASE CheckAccount(p)
    BY <2>3, <2>4, <2>6 DEF CheckAccount, Statement, At, Fail, Errors
  <2>7. CASE BalanceForAccount(p)
    BY <2>3, <2>7 DEF BalanceForAccount, Fail, Errors
  <2>8. CASE ListTransactions(p)
    BY <2>3, <2>8 DEF ListTransactions, Errors
  <2>9. CASE ListAccounts(p)
    BY <2>3, <2>9 DEF ListAccounts, Fail, Errors
  <2>10. CASE ListAudit(p)
    BY <2>3, <2>10 DEF ListAudit, Errors
  <2>11. CASE Ping(p)
    BY <2>3, <2>11 DEF Ping, Errors
  <2>12. QED
    BY <1>3, <2>5, <2>6, <2>7, <2>8, <2>9, <2>10, <2>11 DEF Read
<1>4. QED
  BY <1>1, <1>2, <1>3 DEF Write

\* Requests, results, hang-ups and failures.
LEMMA RestKeeps ==
  ASSUME IInv, NEW p \in Procs,
         \/ \E c \in Calls : Call(p, c)
         \/ Return(p) \/ Disconnect(p) \/ Cancelled(p) \/ Fault(p)
  PROVE  IInv'
<1>0. /\ TypeOK /\ TxSound /\ DbSound /\ NeverBusy
      /\ tx = {q \in Procs : pc[q] \in TxSteps}
      /\ pc \in [Procs -> Steps] /\ DOMAIN ret = Procs
      /\ gone \in [Procs -> BOOLEAN]
  BY DEF IInv, TypeOK
<1>1. CASE \E c \in Calls : Call(p, c)
  <2> PICK c \in Calls : Call(p, c)
    BY <1>1
  <2>1. TypeOK'
    BY <1>0 DEF TypeOK, Call, Goto, Steps, TxSteps, NoRet, Errors
  <2>2. p \notin tx
    BY <1>0 DEF Call, TxSteps
  <2>3. TxSound'
    BY <1>0, <2>2 DEF Call, Goto, TxSound
  <2>4. NeverBusy'
    BY <1>0 DEF Call, NeverBusy, NoRet
  <2>5. QED
    BY <1>0, <2>1, <2>3, <2>4, DbKeeps DEF Call, IInv
<1>2. CASE Return(p)
  <2>1. gone' \in [Procs -> BOOLEAN]
    BY <1>0, <1>2, Zenon DEF Return
  <2>2. TypeOK'
    BY <1>0, <1>2, <2>1 DEF TypeOK, Return, Goto, Steps, TxSteps, NoRet, Errors
  <2>3. p \notin tx
    BY <1>0, <1>2 DEF Return, TxSteps
  <2>4. TxSound'
    BY <1>0, <1>2, <2>3 DEF Return, Goto, TxSound
  <2>5. NeverBusy'
    BY <1>0, <1>2 DEF Return, NeverBusy, NoRet
  <2>6. QED
    BY <1>0, <1>2, <2>2, <2>4, <2>5, DbKeeps DEF Return, IInv
<1>3. CASE Disconnect(p)
  <2>1. gone' \in [Procs -> BOOLEAN]
    BY <1>0, <1>3, Zenon DEF Disconnect
  <2>2. TypeOK'
    BY <1>0, <1>3, <2>1 DEF TypeOK, Disconnect
  <2>3. TxSound' /\ NeverBusy'
    BY <1>0, <1>3 DEF Disconnect, TxSound, NeverBusy
  <2>4. QED
    BY <1>0, <1>3, <2>2, <2>3, DbKeeps DEF Disconnect, IInv
<1>4. CASE Cancelled(p) \/ Fault(p)
  BY <1>4, FailKeeps DEF Cancelled, Fault, Errors
<1>5. QED
  BY <1>1, <1>2, <1>3, <1>4

\* A restart, with or without the end of the log.
LEMMA RestartKeeps ==
  ASSUME IInv, Crash \/ PowerLoss
  PROVE  IInv'
<1>1. db' \in Seq(Row) /\ DbSound'
  <2>1. CASE Crash
    BY <2>1, DbKeeps DEF Crash, IInv, TypeOK
  <2>2. CASE PowerLoss
    <3>1. PICK n \in Len(Migrated) .. Len(db) : db' = SubSeq(db, 1, n)
      BY <2>2 DEF PowerLoss
    <3>2. n \in 0 .. Len(db)
      BY <3>1 DEF Migrated, IInv, TypeOK
    <3>3. QED
      BY <3>1, <3>2, PrefixSound DEF IInv, TypeOK
  <2>3. QED
    BY <2>1, <2>2
<1>2. Restart
  BY DEF Crash, PowerLoss
<1>3. TypeOK'
  <2>1. gone' \in [Procs -> BOOLEAN]
    BY <1>2, Zenon DEF Restart
  <2>2. /\ pc' \in [Procs -> Steps] /\ arg' \in [Procs -> Calls \cup {NoCall}]
        /\ tx' = {p \in Procs : pc'[p] \in TxSteps}
    BY <1>2 DEF Restart, Steps, TxSteps
  <2>3. snap' \in [Procs -> Seq(Row)] /\ ins' \in [Procs -> Seq(Row)]
    BY <1>2 DEF Restart
  <2>4. /\ DOMAIN ret' = Procs
        /\ \A p \in Procs : ret'[p].err \in Errors /\ ret'[p].created \in BOOLEAN
    BY <1>2 DEF Restart, NoRet, Errors
  <2>5. QED
    BY <1>1, <2>1, <2>2, <2>3, <2>4 DEF TypeOK
<1>4. TxSound' /\ NeverBusy'
  BY <1>2 DEF Restart, TxSound, NeverBusy, NoRet
<1>5. QED
  BY <1>1, <1>3, <1>4 DEF IInv

LEMMA NextKeeps == IInv /\ [Next \/ PowerLoss]_vars => IInv'
<1> SUFFICES ASSUME IInv, [Next \/ PowerLoss]_vars PROVE IInv'
  OBVIOUS
<1>1. CASE \E p \in Procs : Work(p)
  BY <1>1, RecordKeeps, PoolKeeps DEF Work
<1>2. CASE \E p \in Procs : \/ \E c \in Calls : Call(p, c)
                            \/ Return(p) \/ Disconnect(p) \/ Cancelled(p) \/ Fault(p)
  BY <1>2, RestKeeps
<1>3. CASE Crash \/ PowerLoss
  BY <1>3, RestartKeeps
<1>4. CASE UNCHANGED vars
  BY <1>4, DbKeeps DEF vars, IInv, TypeOK, TxSound, NeverBusy
<1>5. QED
  BY <1>1, <1>2, <1>3, <1>4 DEF Next

-----------------------------------------------------------------------------
(***************************************************************************)
(* The theorems.                                                           *)
(***************************************************************************)

\* IInv holds in every state the store can be in, power losses included.
THEOREM Invariance == PowerSpec => []IInv
<1>1. Init => IInv
  BY InitSound
<1>2. IInv /\ [Next \/ PowerLoss]_vars => IInv'
  BY NextKeeps
<1>3. QED
  BY <1>1, <1>2, PTL DEF PowerSpec

\* Types hold, and RecordTransaction never leaks the connection.
THEOREM TypeCorrect == PowerSpec => []TypeOK
<1>1. IInv => TypeOK
  BY DEF IInv
<1>2. QED
  BY <1>1, Invariance, PTL

\* No call ever fails with SQLITE_BUSY.
THEOREM Unlocked == PowerSpec => []NeverBusy
<1>1. IInv => NeverBusy
  BY DEF IInv
<1>2. QED
  BY <1>1, Invariance, PTL

\* A transaction in progress runs alone on the newest database.
THEOREM Isolation == PowerSpec => []TxSound
<1>1. IInv => TxSound
  BY DEF IInv
<1>2. QED
  BY <1>1, Invariance, PTL

\* A ref is counted at most once, however often it is submitted.
THEOREM Idempotence == PowerSpec => []RefCountedOnce
<1>1. IInv => RefCountedOnce
  BY DEF IInv, DbSound
<1>2. QED
  BY <1>1, Invariance, PTL

\* No account is ever overdrawn, nor would be if the log were cut anywhere.
THEOREM Solvency == PowerSpec => []NoOverdraft
<1>1. IInv => NoOverdraft
  BY DEF IInv, DbSound
<1>2. QED
  BY <1>1, Invariance, PTL

\* Primary and foreign keys hold in every prefix of the log.
THEOREM Integrity == PowerSpec => []KeysHold
<1>1. IInv => KeysHold
  BY DEF IInv, DbSound
<1>2. QED
  BY <1>1, Invariance, PTL

-----------------------------------------------------------------------------
\* A statement of the store leaves the call alone and never ends in "idle".
LEMMA WorkKeeps ==
  ASSUME IInv, NEW p \in Procs, Work(p) \/ Disconnect(p) \/ Cancelled(p) \/ Fault(p)
  PROVE  /\ arg' = arg
         /\ \A q \in Procs : pc'[q] = "idle" => pc[q] = "idle"
<1>0. pc \in [Procs -> Steps]
  BY DEF IInv, TypeOK
<1>1. ASSUME NEW st \in Steps \ {"idle"}, Goto(p, st)
      PROVE  \A q \in Procs : pc'[q] = "idle" => pc[q] = "idle"
  BY <1>0, <1>1 DEF Goto
<1>2. ASSUME NEW e, NEW made, NEW v, Leave(p, e, made, v)
      PROVE  \A q \in Procs : pc'[q] = "idle" => pc[q] = "idle"
  BY <1>0, <1>2 DEF Leave, Goto
<1>3. ASSUME NEW e, Fail(p, e)
      PROVE  \A q \in Procs : pc'[q] = "idle" => pc[q] = "idle"
  BY <1>2, <1>3 DEF Fail
<1>4. CASE Record(p)
  <2>1. arg' = arg
    BY <1>4 DEF Record, BeginTx, LookupAccount, InsertTransaction, CheckBalance,
                ReadBack, Commit
  <2>2. CASE BeginTx(p) \/ LookupAccount(p)
    BY <1>1, <1>3, <2>1, <2>2 DEF BeginTx, LookupAccount, Steps
  <2>3. CASE InsertTransaction(p)
    <3>1. \/ Fail(p, "busy") \/ Goto(p, "check") \/ Goto(p, "readback")
      BY <2>3 DEF InsertTransaction
    <3>2. QED
      BY <1>1, <1>3, <2>1, <3>1 DEF Steps
  <2>4. CASE CheckBalance(p)
    BY <1>1, <1>3, <2>1, <2>4 DEF CheckBalance, Steps
  <2>5. CASE ReadBack(p) \/ Commit(p)
    BY <1>1, <1>2, <2>1, <2>5 DEF ReadBack, Commit, Steps
  <2>6. QED
    BY <1>4, <2>2, <2>3, <2>4, <2>5 DEF Record
<1>5. CASE Write(p)
  BY <1>2, <1>3, <1>5 DEF Write, CreateAccount, AppendAudit
<1>6. CASE Read(p)
  <2>1. CASE CheckAccount(p) \/ GetAccountRow(p)
    BY <1>1, <1>2, <1>3, <2>1 DEF CheckAccount, GetAccountRow, Steps
  <2>2. CASE BalanceForAccount(p) \/ ListTransactions(p) \/ ListAccounts(p)
    BY <1>2, <1>3, <2>2 DEF BalanceForAccount, ListTransactions, ListAccounts
  <2>3. CASE ListAudit(p) \/ Ping(p)
    BY <1>2, <2>3 DEF ListAudit, Ping
  <2>4. QED
    BY <1>6, <2>1, <2>2, <2>3 DEF Read
<1>7. CASE Disconnect(p) \/ Cancelled(p) \/ Fault(p)
  BY <1>3, <1>7 DEF Disconnect, Cancelled, Fault
<1>8. QED
  BY <1>4, <1>5, <1>6, <1>7 DEF Work

=============================================================================
