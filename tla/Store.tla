-------------------------------- MODULE Store --------------------------------
(***************************************************************************)
(* The persistence layer: internal/sqlitestore on database/sql, with the   *)
(* handler goroutines as its concurrent callers.                           *)
(*                                                                         *)
(* A caller p runs one store call at a time.  pc[p] is the statement it is *)
(* about to execute, arg[p] the call, ret[p] what the call returns once    *)
(* pc[p] = "done".  A call that opened a transaction is in tx and holds a  *)
(* connection of the pool until it commits or rolls back; snap[p] is the   *)
(* database its first read saw and ins[p] the row it inserted and did not  *)
(* commit yet.  gone[p] says that the request's context is cancelled.      *)
(***************************************************************************)
EXTENDS Ledger, FiniteSets

CONSTANTS
    Procs,          \* handler goroutines
    Calls,          \* the store calls they may make
    MaxAudit        \* bound: audit rows the disk has room for

CallSet ==
    [op : {"RecordTransaction"}, row : Transaction]
        \cup [op : {"CreateAccount"}, account : AccountIds, hash : Hashes]
        \cup [op : {"AppendAudit"}, row : AuditEntry]
        \cup [op : {"GetAccount", "GetCredential", "Balance",
                    "ListTransactions"}, account : AccountIds]
        \cup [op : {"ListAudit"}, account : AccountIds \cup {AnyAccount}]
        \cup [op : {"ListAccounts", "Ping"}]

ASSUME StoreAssumption == Calls \subseteq CallSet /\ MaxAudit \in Nat

VARIABLES db, tx, pc, arg, snap, ins, ret, gone

vars == <<db, tx, pc, arg, snap, ins, ret, gone>>

\* RecordEarn, RecordSpend and RecordRedeem: the service forces the kind.
Recording(r, kind, reward) ==
    [op |-> "RecordTransaction",
     row |-> [table |-> "transactions", ref |-> r.ref, account |-> r.account,
              kind |-> kind, points |-> r.points, reward |-> reward]]

NoCall == [op |-> "none"]
\* What a call hands back, one field per kind of answer.
NoVal == [none |-> TRUE]
RowVal(r) == [row |-> r]
BalanceVal(n) == [balance |-> n]
ListVal(s) == [list |-> s]
AccountsVal(f) == [accounts |-> f]
NoRet == [err |-> "none", created |-> FALSE, val |-> NoVal]

\* "fault" is any driver error or a cancelled context, "busy" SQLITE_BUSY and
\* "overflow" SUM's integer overflow.  Callers cannot tell the three apart.
Errors == {"none", "ErrNotFound", "ErrAccountExists", "ErrInsufficientBalance",
           "fault", "busy", "overflow"}

Steps == {"idle", "call", "second", "lookup", "insert", "check", "readback",
          "commit", "done"}

-----------------------------------------------------------------------------
(***************************************************************************)
(* The pool and SQLite's write lock.                                       *)
(***************************************************************************)
\* Mutant: the pool is not pinned to one connection.
MaxOpenConnsTwo == 2
MaxOpenConns == 1

ConnFree == Cardinality(tx) < MaxOpenConns

\* An INSERT fails when another connection has written and not committed, or
\* when the transaction's snapshot is no longer the newest one.
WriteLocked(p) == \E q \in tx \ {p} : pc[q] \in {"check", "readback", "commit"}
Stale(p) == p \in tx /\ snap[p] # db
Busy(p) == WriteLocked(p) \/ Stale(p)

\* What the transaction of p sees: its snapshot and its own insert.
View(p) == snap[p] \o ins[p]

Goto(p, step) == pc' = [pc EXCEPT ![p] = step]

\* Mutant: no deferred Rollback, only Commit gives the connection back.
LeaveLeaking(p, e, made, v) ==
    /\ Goto(p, "done")
    /\ ret' = [ret EXCEPT ![p] = [err |-> e, created |-> made, val |-> v]]
    /\ tx' = IF e = "none" THEN tx \ {p} ELSE tx
    /\ snap' = [snap EXCEPT ![p] = <<>>]
    /\ ins' = [ins EXCEPT ![p] = <<>>]

\* Leave the store function of p: the deferred Rollback, a no-op after Commit,
\* gives the connection back.
Leave(p, e, made, v) ==
    /\ Goto(p, "done")
    /\ ret' = [ret EXCEPT ![p] = [err |-> e, created |-> made, val |-> v]]
    /\ tx' = tx \ {p}
    /\ snap' = [snap EXCEPT ![p] = <<>>]
    /\ ins' = [ins EXCEPT ![p] = <<>>]

Fail(p, e) == Leave(p, e, FALSE, NoVal)

Init ==
    /\ db = Migrated
    /\ tx = {}
    /\ pc = [p \in Procs |-> "idle"]
    /\ arg = [p \in Procs |-> NoCall]
    /\ snap = [p \in Procs |-> <<>>]
    /\ ins = [p \in Procs |-> <<>>]
    /\ ret = [p \in Procs |-> NoRet]
    /\ gone = [p \in Procs |-> FALSE]

\* A handler makes its first call, or its next one in the same request.
Call(p, c) ==
    /\ pc[p] \in {"idle", "done"}
    /\ Goto(p, "call")
    /\ arg' = [arg EXCEPT ![p] = c]
    /\ ret' = [ret EXCEPT ![p] = NoRet]
    /\ UNCHANGED <<db, tx, snap, ins, gone>>

\* The caller takes the result and is free for the next request.
Return(p) ==
    /\ pc[p] = "done"
    /\ Goto(p, "idle")
    /\ arg' = [arg EXCEPT ![p] = NoCall]
    /\ ret' = [ret EXCEPT ![p] = NoRet]
    /\ gone' = [gone EXCEPT ![p] = FALSE]
    /\ UNCHANGED <<db, tx, snap, ins>>

-----------------------------------------------------------------------------
(***************************************************************************)
(* RecordTransaction: one sql.Tx, one action per statement.                *)
(***************************************************************************)
At(p, step) == pc[p] = step /\ ~gone[p]

Statement(p, op) == At(p, "call") /\ arg[p].op = op /\ ConnFree

BeginTx(p) ==
    /\ Statement(p, "RecordTransaction")
    /\ tx' = tx \cup {p}
    /\ Goto(p, "lookup")
    /\ UNCHANGED <<db, arg, snap, ins, ret, gone>>

\* Mutant: foreign keys off and no lookup before the insert.
LookupAccountSkipped(p) ==
    /\ At(p, "lookup")
    /\ snap' = [snap EXCEPT ![p] = db]
    /\ Goto(p, "insert")
    /\ UNCHANGED <<db, tx, arg, ins, ret, gone>>

\* BEGIN is deferred: the first SELECT takes the snapshot.
LookupAccount(p) ==
    /\ At(p, "lookup")
    /\ \/ /\ AccountExists(db, arg[p].row.account)
          /\ snap' = [snap EXCEPT ![p] = db]
          /\ Goto(p, "insert")
          /\ UNCHANGED <<tx, ins, ret>>
       \/ /\ ~AccountExists(db, arg[p].row.account)
          /\ Fail(p, "ErrNotFound")
    /\ UNCHANGED <<db, arg, gone>>

\* Mutant: the guard from before redeem existed.
DeductionSpendOnly(t) == t.kind = "spend"
Deduction(t) == t.kind \in {"spend", "redeem"}

\* ON CONFLICT(ref) DO NOTHING; only a fresh deduction goes on to the check.
InsertTransaction(p) ==
    LET t == arg[p].row
        fresh == ~RefExists(View(p), t.ref)
    IN  /\ At(p, "insert")
        /\ IF Busy(p)
           THEN Fail(p, "busy")
           ELSE /\ ins' = [ins EXCEPT ![p] = IF fresh THEN <<t>> ELSE <<>>]
                /\ Goto(p, IF fresh /\ Deduction(t) THEN "check" ELSE "readback")
                /\ UNCHANGED <<tx, snap, ret>>
        /\ UNCHANGED <<db, arg, gone>>

\* Mutant: off by one, an account may not be emptied.
OverdrawnAtZero(d, a) == Balance(d, a) <= 0
Overdrawn(d, a) == Balance(d, a) < 0

\* The inserted row is already part of the sum.
CheckBalance(p) ==
    LET a == arg[p].row.account
    IN  /\ At(p, "check")
        /\ \/ /\ Overflows(View(p), a)
              /\ Fail(p, "overflow")
           \/ /\ ~Overflows(View(p), a)
              /\ Overdrawn(View(p), a)
              /\ Fail(p, "ErrInsufficientBalance")
           \/ /\ ~Overflows(View(p), a)
              /\ ~Overdrawn(View(p), a)
              /\ Goto(p, "readback")
              /\ UNCHANGED <<tx, snap, ins, ret>>
        /\ UNCHANGED <<db, arg, gone>>

\* Mutant: answer with the request instead of the stored row.
ReadBackEcho(p) ==
    /\ At(p, "readback")
    /\ ret' = [ret EXCEPT ![p].val = RowVal(arg[p].row)]
    /\ Goto(p, "commit")
    /\ UNCHANGED <<db, tx, arg, snap, ins, gone>>

ReadBack(p) ==
    /\ At(p, "readback")
    /\ ret' = [ret EXCEPT ![p].val =
                    RowVal(GetTransactionByRef(View(p), arg[p].row.ref))]
    /\ Goto(p, "commit")
    /\ UNCHANGED <<db, tx, arg, snap, ins, gone>>

\* Mutant: RowsAffected is not looked at.
CommitAlwaysCreated(p) ==
    /\ At(p, "commit")
    /\ db' = db \o ins[p]
    /\ Leave(p, "none", TRUE, ret[p].val)
    /\ UNCHANGED <<arg, gone>>

Commit(p) ==
    /\ At(p, "commit")
    /\ db' = db \o ins[p]
    /\ Leave(p, "none", ins[p] # <<>>, ret[p].val)
    /\ UNCHANGED <<arg, gone>>

-----------------------------------------------------------------------------
(***************************************************************************)
(* The calls that run on the pool, one connection per statement.           *)
(***************************************************************************)
\* Mutant: ON CONFLICT DO NOTHING for accounts too.
CreateAccountIgnoring(p) ==
    LET a == arg[p].account
        new == [table |-> "accounts", account |-> a, hash |-> arg[p].hash,
                role |-> "member"]
    IN  /\ Statement(p, "CreateAccount")
        /\ db' = IF AccountExists(db, a) THEN db ELSE Append(db, new)
        /\ Leave(p, "none", TRUE, NoVal)
        /\ UNCHANGED <<arg, gone>>

\* role is not a column of the INSERT: it takes the default.
CreateAccount(p) ==
    LET a == arg[p].account
        new == [table |-> "accounts", account |-> a, hash |-> arg[p].hash,
                role |-> "member"]
    IN  /\ Statement(p, "CreateAccount")
        /\ IF Busy(p)
           THEN Fail(p, "busy") /\ UNCHANGED db
           ELSE IF AccountExists(db, a)
                THEN Fail(p, "ErrAccountExists") /\ UNCHANGED db
                ELSE /\ db' = Append(db, new)
                     /\ Leave(p, "none", TRUE, NoVal)
        /\ UNCHANGED <<arg, gone>>

\* One INSERT of its own, never part of a transaction; a full disk fails it.
AppendAudit(p) ==
    /\ Statement(p, "AppendAudit")
    /\ IF Busy(p)
       THEN Fail(p, "busy") /\ UNCHANGED db
       ELSE IF Len(SelectSeq(db, IsAudit)) >= MaxAudit
            THEN Fail(p, "fault") /\ UNCHANGED db
            ELSE /\ db' = Append(db, arg[p].row)
                 /\ Leave(p, "none", TRUE, RowVal(arg[p].row))
    /\ UNCHANGED <<arg, gone>>

GetAccountRow(p) ==
    /\ \/ Statement(p, "GetAccount")
       \/ Statement(p, "GetCredential")
    /\ \/ /\ AccountExists(db, arg[p].account)
          /\ Leave(p, "none", FALSE, RowVal(GetAccount(db, arg[p].account)))
       \/ /\ ~AccountExists(db, arg[p].account)
          /\ Fail(p, "ErrNotFound")
    /\ UNCHANGED <<db, arg, gone>>

\* Mutant: the read goes ahead without asking for the account.
CheckAccountSkipped(p) ==
    /\ \/ Statement(p, "Balance")
       \/ Statement(p, "ListTransactions")
    /\ Goto(p, "second")
    /\ UNCHANGED <<db, tx, arg, snap, ins, ret, gone>>

\* Balance and ListTransactions first ask whether the account exists ...
CheckAccount(p) ==
    /\ \/ Statement(p, "Balance")
       \/ Statement(p, "ListTransactions")
    /\ \/ /\ AccountExists(db, arg[p].account)
          /\ Goto(p, "second")
          /\ UNCHANGED <<tx, snap, ins, ret>>
       \/ /\ ~AccountExists(db, arg[p].account)
          /\ Fail(p, "ErrNotFound")
    /\ UNCHANGED <<db, arg, gone>>

\* ... and then, with no transaction around the two, read.
BalanceForAccount(p) ==
    LET a == arg[p].account
    IN  /\ At(p, "second") /\ arg[p].op = "Balance" /\ ConnFree
        /\ IF Overflows(db, a)
           THEN Fail(p, "overflow")
           ELSE Leave(p, "none", FALSE, BalanceVal(Balance(db, a)))
        /\ UNCHANGED <<db, arg, gone>>

ListTransactions(p) ==
    /\ At(p, "second") /\ arg[p].op = "ListTransactions" /\ ConnFree
    /\ Leave(p, "none", FALSE,
             ListVal(ListTransactionsByAccount(db, arg[p].account)))
    /\ UNCHANGED <<db, arg, gone>>

\* One statement computes every balance: one overflow fails the whole list.
ListAccounts(p) ==
    /\ Statement(p, "ListAccounts")
    /\ IF \E a \in AccountsIn(db) : Overflows(db, a)
       THEN Fail(p, "overflow")
       ELSE Leave(p, "none", FALSE, AccountsVal(ListAccountsWithBalance(db)))
    /\ UNCHANGED <<db, arg, gone>>

ListAudit(p) ==
    LET a == arg[p].account
    IN  /\ Statement(p, "ListAudit")
        /\ Leave(p, "none", FALSE,
                 ListVal(IF a = AnyAccount THEN ListAuditLog(db)
                                           ELSE ListAuditLogByAccount(db, a)))
        /\ UNCHANGED <<db, arg, gone>>

Ping(p) ==
    /\ Statement(p, "Ping")
    /\ Leave(p, "none", FALSE, NoVal)
    /\ UNCHANGED <<db, arg, gone>>

-----------------------------------------------------------------------------
(***************************************************************************)
(* What can go wrong.                                                      *)
(***************************************************************************)
InFlight(p) == pc[p] \notin {"idle", "done"}

\* The client hangs up: net/http cancels the request's context.
Disconnect(p) ==
    /\ InFlight(p) /\ ~gone[p]
    /\ gone' = [gone EXCEPT ![p] = TRUE]
    /\ UNCHANGED <<db, tx, pc, arg, snap, ins, ret>>

\* Waiting for a connection, a statement and Commit all fail once the context
\* is cancelled; database/sql rolls the transaction back.
Cancelled(p) ==
    /\ InFlight(p) /\ gone[p]
    /\ Fail(p, "fault")
    /\ UNCHANGED <<db, arg, gone>>

\* Any statement may fail for a reason of its own (I/O error, disk full).
Fault(p) ==
    /\ InFlight(p) /\ ~gone[p]
    /\ Fail(p, "fault")
    /\ UNCHANGED <<db, arg, gone>>

\* The process stops and starts again: the goroutines are lost, SQLite rolls
\* back what was not committed.
Restart ==
    /\ tx' = {}
    /\ pc' = [p \in Procs |-> "idle"]
    /\ arg' = [p \in Procs |-> NoCall]
    /\ snap' = [p \in Procs |-> <<>>]
    /\ ins' = [p \in Procs |-> <<>>]
    /\ ret' = [p \in Procs |-> NoRet]
    /\ gone' = [p \in Procs |-> FALSE]

Crash == Restart /\ UNCHANGED db

\* synchronous=NORMAL does not sync the write-ahead log at a commit: losing
\* power loses a suffix of the commits.  The migrations run again at startup.
PowerLoss ==
    /\ Restart
    /\ \E n \in Len(Migrated) .. Len(db) : db' = SubSeq(db, 1, n)

Record(p) ==
    \/ BeginTx(p) \/ LookupAccount(p) \/ InsertTransaction(p)
    \/ CheckBalance(p) \/ ReadBack(p) \/ Commit(p)

Write(p) == CreateAccount(p) \/ AppendAudit(p)

Read(p) ==
    \/ GetAccountRow(p) \/ CheckAccount(p) \/ BalanceForAccount(p)
    \/ ListTransactions(p) \/ ListAccounts(p) \/ ListAudit(p) \/ Ping(p)

Work(p) == Record(p) \/ Write(p) \/ Read(p)

Next ==
    \/ \E p \in Procs :
          \/ \E c \in Calls : Call(p, c)
          \/ Return(p)
          \/ Work(p)
          \/ Disconnect(p) \/ Cancelled(p) \/ Fault(p)
    \/ Crash

\* A goroutine that can run does; the pool hands a freed connection to a
\* waiter chosen at random, so none waits for ever.
Fairness ==
    \A p \in Procs : /\ SF_vars(Work(p))
                     /\ WF_vars(Cancelled(p))
                     /\ WF_vars(Return(p))

Spec == Init /\ [][Next]_vars
FairSpec == Spec /\ Fairness

\* The same system on a machine that may lose power.
PowerSpec == Init /\ [][Next \/ PowerLoss]_vars

-----------------------------------------------------------------------------
(***************************************************************************)
(* Properties.                                                             *)
(***************************************************************************)

TxSteps == {"lookup", "insert", "check", "readback", "commit"}

\* Every variable has its type, and exactly the callers between BeginTx and
\* the end of RecordTransaction hold a transaction: no early return of
\* RecordTransaction leaks the pool's connection (accounts.go:151-226).
TypeOK ==
    /\ db \in Seq(Row)
    /\ pc \in [Procs -> Steps]
    /\ arg \in [Procs -> Calls \cup {NoCall}]
    /\ snap \in [Procs -> Seq(Row)]
    /\ ins \in [Procs -> Seq(Row)]
    /\ gone \in [Procs -> BOOLEAN]
    /\ DOMAIN ret = Procs
    /\ \A p \in Procs : ret[p].err \in Errors /\ ret[p].created \in BOOLEAN
    /\ tx = {p \in Procs : pc[p] \in TxSteps}

\* "so we never trip SQLITE_BUSY" (sqlite.go:35-37): with one connection no
\* writer ever meets a lock or a stale snapshot, so no request fails for it.
NeverBusy == \A p \in Procs : ret[p].err # "busy"

\* INV-1, INV-2: however calls with the same ref race, fail or are repeated,
\* the ledger holds at most one transaction of that ref.
RefCountedOnce ==
    \A i, j \in 1 .. Len(db) :
        IsTxn(db[i]) /\ IsTxn(db[j]) /\ db[i].ref = db[j].ref => i = j

\* INV-3, INV-4, INV-25, INV-26: no account was overdrawn after any commit.
\* Said of every prefix, because a power loss may bring any of them back.
NoOverdraft ==
    \A a \in AccountIds, i \in 0 .. Len(db) : RunningSum(db, a)[i] >= 0

\* The keys of the schema in every prefix of the log: an account is inserted
\* once, and before the transactions that name it.
KeysHold ==
    \A i \in 1 .. Len(db) :
        /\ IsAccount(db[i]) =>
              \A j \in 1 .. Len(db) :
                 IsAccount(db[j]) /\ db[j].account = db[i].account => j = i
        /\ IsTxn(db[i]) =>
              \E j \in 1 .. i - 1 : IsAccount(db[j]) /\ db[j].account = db[i].account

\* A transaction in progress runs alone, on the newest database; the row it
\* is about to commit has an account, a ref nobody used and, past the check,
\* the points it deducts.  This is what "each sees every committed deduction
\* before it" (accounts.go:189-192) comes to at every statement.
TxSound ==
    /\ \A p, q \in tx : p = q
    /\ \A p \in tx : arg[p].op = "RecordTransaction"
    /\ \A p \in tx : pc[p] # "lookup" =>
          snap[p] = db /\ AccountExists(db, arg[p].row.account)
    /\ \A p \in Procs : ins[p] # <<>> =>
          /\ p \in tx /\ ins[p] = <<arg[p].row>>
          /\ pc[p] \notin {"lookup", "insert"}
          /\ ~RefExists(db, arg[p].row.ref)
          /\ pc[p] # "check" /\ Deduction(arg[p].row) =>
                Balance(db, arg[p].row.account) >= arg[p].row.points

\* First write wins: what RecordTransaction returns is the row the ledger
\* holds for that ref, and a caller that is told "created" reads its own
\* transaction there (accounts.go:206-226).
AnswerIsStored ==
    \A p \in Procs :
        pc[p] = "done" /\ arg[p].op = "RecordTransaction" /\ ret[p].err = "none"
        => /\ RefExists(db, arg[p].row.ref)
           /\ ret[p].val = RowVal(GetTransactionByRef(db, arg[p].row.ref))
           /\ ret[p].created => ret[p].val = RowVal(arg[p].row)

\* GET /accounts and GET /accounts/{id}/balance have a formula each, and a
\* member can add up the listing of GET /accounts/{id}/transactions: the
\* three never disagree ("the list can never drift", accounts.go:91-93).
ReadsAgree ==
    \A a \in AccountsIn(db) :
        LET entries == ListTransactionsByAccount(db, a)
            Signed(e) == IF e.kind = "earn" THEN e.points ELSE -e.points
        IN  /\ ListAccountsWithBalance(db)[a].balance = Balance(db, a)
            /\ Total([i \in 1 .. Len(entries) |-> Signed(entries[i])]) = Balance(db, a)

\* What the read c may answer of a database d.
ReadOf(c, d, v) ==
    /\ AccountExists(d, c.account)
    /\ c.op = "Balance" =>
          ~Overflows(d, c.account) /\ v = BalanceVal(Balance(d, c.account))
    /\ c.op = "ListTransactions" =>
          v = ListVal(ListTransactionsByAccount(d, c.account))

\* Balance and ListTransactions look up the account and then read, in two
\* statements with no transaction around them (accounts.go:75-89, 118-130).
\* Whatever commits, fails or starts in between, an answer is the truth of one
\* committed state in which the account exists ("a missing account is distinct
\* from a zero balance", accounts.go:73-74): nobody reads half a transaction
\* or a row that is rolled back.
ReadsOneState ==
    \A p \in Procs :
        /\ pc[p] = "done" /\ ret[p].err = "none"
        /\ arg[p].op \in {"Balance", "ListTransactions"}
        => \E n \in 0 .. Len(db) : ReadOf(arg[p], SubSeq(db, 1, n), ret[p].val)

\* A deduction is refused for lack of points only if the committed balance at
\* that very step is too small: neither a stale read nor the points of a
\* transaction that is rolled back may cause a 409 (accounts.go:183-204).
RefusalJustified ==
    [][\A p \in Procs :
          ret[p].err = "none" /\ ret'[p].err = "ErrInsufficientBalance"
          => Balance(db, arg[p].row.account) < arg[p].row.points]_vars

\* Once the SUM of an account has overflowed, no deduction from that account
\* is committed any more: the check cannot be evaluated and the transaction is
\* rolled back (accounts.go:194-197).  Said of every prefix of the log.
OverflowFreezes ==
    \A a \in AccountIds, i \in 1 .. Len(db) :
        Overflows(SubSeq(db, 1, i), a)
        => \A j \in i + 1 .. Len(db) :
              IsTxn(db[j]) /\ db[j].account = a => db[j].kind = "earn"

\* Every call comes back: no interleaving of callers, failures and hang-ups
\* leaves a goroutine waiting for the one connection for ever.
CallReturns == \A p \in Procs : InFlight(p) ~> ~InFlight(p)

\* The ledger implements the abstract wallet.
PointsMap == INSTANCE Points WITH
    Founders <- {DemoMember, DemoAdmin},
    MaxPoints <- MaxInt64,
    open <- AccountsIn(db),
    seen <- {db[i].ref : i \in {j \in 1 .. Len(db) : IsTxn(db[j])}},
    bal <- [a \in AccountIds |-> Balance(db, a)]

\* Every step of the store is a step of the wallet that Points describes, or
\* leaves its accounts, references and balances alone: opening is atomic, a
\* ref moves points once and a deduction never exceeds the balance.
ImplementsPoints == PointsMap!Spec

=============================================================================
