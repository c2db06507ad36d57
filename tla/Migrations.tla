----------------------------- MODULE Migrations ------------------------------
(***************************************************************************)
(* Starting gowallet on a database file (cmd/gowallet/main.go, run, and    *)
(* sqlitestore.Migrate): the migrations under internal/sqlitestore, one    *)
(* action per SQL statement, and what crashes and power losses leave.      *)
(*                                                                         *)
(* goose runs each migration in a transaction of its own, together with    *)
(* the row of goose_db_version that says it was applied.  log is the       *)
(* sequence of databases that were committed, the last one current; work   *)
(* is the database as the transaction of the pending migration sees it and *)
(* step the number of its statements that were executed.  release is the   *)
(* number of migrations in the installed binary: earlier releases had a    *)
(* prefix of them, and served clients with what that prefix built.         *)
(***************************************************************************)
EXTENDS Ledger, FiniteSets

CONSTANTS
    OldAccounts,    \* accounts that clients create
    MaxIds          \* bound: transactions that clients record

ASSUME MigrationsAssumption ==
    OldAccounts \subseteq AccountIds /\ MaxIds \in Nat

VARIABLES release, log, work, step, proc

migrationVars == <<release, log, work, step, proc>>

TableNames == {"accounts", "transactions", "transactions_new", "audit_log"}
NoTable == [cols |-> {}, kinds |-> {}, rules |-> {}, indexed |-> FALSE, rows |-> {}]

NewDatabase == [version |-> 0, tables |-> [n \in TableNames |-> NoTable]]

Current == Last(log)

\* The statements of the migrations, in the order of their timestamps.
Script == <<
    <<"select 1">>,
    <<"create accounts", "create transactions", "index transactions">>,
    <<"create audit_log", "index audit_log">>,
    <<"add password_hash", "add role", "seed">>,
    <<"create transactions_new", "copy", "drop transactions", "rename",
      "index transactions">> >>

-----------------------------------------------------------------------------
(***************************************************************************)
(* What a statement does to database d.                                    *)
(***************************************************************************)
Set(d, n, table) == [d EXCEPT !.tables[n] = table]

TxnColumns == {"id", "ref", "account", "kind", "points"}
TxnRules == {"unique ref", "references accounts", "points > 0", "autoincrement"}

CreateTable(d, n, cols, kinds, rules) ==
    Set(d, n, [cols |-> cols, kinds |-> kinds, rules |-> rules,
               indexed |-> FALSE, rows |-> {}])

CreateIndex(d, n) == [d EXCEPT !.tables[n].indexed = TRUE]

Widened(row, col, value) ==
    [c \in DOMAIN row \cup {col} |-> IF c = col THEN value ELSE row[c]]

\* A new column takes its default in the rows that are there.
AddColumn(d, n, col, value) ==
    Set(d, n, [d.tables[n] EXCEPT !.cols = @ \cup {col},
                                  !.rows = {Widened(r, col, value) : r \in @}])

DemoRows ==
    {[account |-> Migrated[i].account, hash |-> Migrated[i].hash,
      role |-> Migrated[i].role] : i \in 1 .. Len(Migrated)}

Seed(d) == [d EXCEPT !.tables["accounts"].rows = @ \cup DemoRows]

\* Mutant: the ids are left to AUTOINCREMENT, and the rows come in any order.
CopyRenumbered(d) ==
    LET old == d.tables["transactions"].rows
        n == Cardinality(old)
    IN  [d EXCEPT !.tables["transactions_new"].rows =
            {Widened([r EXCEPT !.id = n + 1 - r.id], "reward", NoReward) : r \in old}]

\* INSERT ... SELECT copies the ids too; reward is NULL.
Copy(d) ==
    [d EXCEPT !.tables["transactions_new"].rows =
        {Widened(r, "reward", NoReward) : r \in d.tables["transactions"].rows}]

\* The index of a table goes with it ...
DropTransactions(d) == Set(d, "transactions", NoTable)

\* ... and a renamed table keeps what it has.
Rename(d) ==
    Set(Set(d, "transactions", d.tables["transactions_new"]),
        "transactions_new", NoTable)

Execute(d, s) ==
    CASE s = "select 1" -> d
      [] s = "create accounts" -> CreateTable(d, "accounts", {"account"}, {}, {})
      [] s = "create transactions" ->
            CreateTable(d, "transactions", TxnColumns, {"earn", "spend"}, TxnRules)
      [] s = "index transactions" -> CreateIndex(d, "transactions")
      [] s = "create audit_log" ->
            CreateTable(d, "audit_log", TxnColumns \cup {"outcome"}, {}, {"autoincrement"})
      [] s = "index audit_log" -> CreateIndex(d, "audit_log")
      [] s = "add password_hash" -> AddColumn(d, "accounts", "hash", NoHash)
      [] s = "add role" -> AddColumn(d, "accounts", "role", "member")
      [] s = "seed" -> Seed(d)
      [] s = "create transactions_new" ->
            CreateTable(d, "transactions_new", TxnColumns \cup {"reward"}, Kinds,
                        TxnRules)
      [] s = "copy" -> Copy(d)
      [] s = "drop transactions" -> DropTransactions(d)
      [] s = "rename" -> Rename(d)

Holds(d, n, a) == \E r \in d.tables[n].rows : r.account = a

\* A table or a column that exists is not created again.
AlreadyThere(d, s) ==
    \/ s = "create accounts" /\ d.tables["accounts"] # NoTable
    \/ s = "create transactions" /\ d.tables["transactions"] # NoTable
    \/ s = "create audit_log" /\ d.tables["audit_log"] # NoTable
    \/ s = "create transactions_new" /\ d.tables["transactions_new"] # NoTable
    \/ s = "add password_hash" /\ "hash" \in d.tables["accounts"].cols
    \/ s = "add role" /\ "role" \in d.tables["accounts"].cols

\* The PRIMARY KEY refuses to seed an account that exists.
Refused(d, s) ==
    \/ AlreadyThere(d, s)
    \/ s = "seed" /\ \E r \in DemoRows : Holds(d, "accounts", r.account)

-----------------------------------------------------------------------------
(***************************************************************************)
(* The process.                                                            *)
(***************************************************************************)
MigrationInit ==
    /\ release \in 1 .. Len(Script)
    /\ log = <<NewDatabase>>
    /\ work = NewDatabase
    /\ step = 0
    /\ proc = "down"

\* A later release is installed.
Upgrade ==
    /\ proc = "down" /\ release < Len(Script)
    /\ release' = release + 1
    /\ UNCHANGED <<log, work, step, proc>>

\* Nothing of a transaction that did not commit is left, and what the process
\* held is lost.
Exit ==
    /\ proc' = "down"
    /\ work' = Current /\ step' = 0
    /\ UNCHANGED <<release, log>>

\* run: Open finds the database as the last process left it.
Start ==
    /\ proc = "down"
    /\ proc' = "migrating"
    /\ UNCHANGED <<release, log, work, step>>

Pending == Script[Current.version + 1]
Migrating == proc = "migrating" /\ Current.version < release

\* Mutant: the migrations are marked "NO TRANSACTION".
StatementAutocommits ==
    /\ Migrating /\ step < Len(Pending)
    /\ ~Refused(work, Pending[step + 1])
    /\ work' = Execute(work, Pending[step + 1])
    /\ log' = [log EXCEPT ![Len(log)] = work']
    /\ step' = step + 1
    /\ UNCHANGED <<release, proc>>

Statement ==
    /\ Migrating /\ step < Len(Pending)
    /\ ~Refused(work, Pending[step + 1])
    /\ work' = Execute(work, Pending[step + 1])
    /\ step' = step + 1
    /\ UNCHANGED <<release, log, proc>>

\* A statement fails: Migrate returns the error and the process ends.
StatementRefused ==
    /\ Migrating /\ step < Len(Pending)
    /\ Refused(work, Pending[step + 1])
    /\ Exit

CommitMigration ==
    LET done == [work EXCEPT !.version = @ + 1]
    IN  /\ Migrating /\ step = Len(Pending)
        /\ log' = Append(log, done)
        /\ work' = done /\ step' = 0
        /\ UNCHANGED <<release, proc>>

\* Mutant: the server does not wait for the migrations.
ListenEarly ==
    /\ proc = "migrating"
    /\ proc' = "serving"
    /\ UNCHANGED <<release, log, work, step>>

\* Nothing is pending any more: the router is built and serves.
Listen ==
    /\ proc = "migrating" /\ Current.version >= release
    /\ proc' = "serving"
    /\ UNCHANGED <<release, log, work, step>>

\* Clients create accounts and record transactions, as Store does it, with the
\* columns there are.
Insert(n, row) ==
    /\ proc = "serving"
    /\ log' = Append(log, [Current EXCEPT !.tables[n].rows = @ \cup {row}])
    /\ work' = Last(log')
    /\ UNCHANGED <<release, step, proc>>

InsertAccount(a) ==
    LET table == Current.tables["accounts"]
        Cell == [account |-> a, hash |-> Bcrypt(DemoMemberPw), role |-> "member"]
    IN  /\ table # NoTable /\ ~Holds(Current, "accounts", a)
        /\ Insert("accounts", [c \in table.cols |-> Cell[c]])

InsertTransaction(ref, a, kind, reward) ==
    LET table == Current.tables["transactions"]
        n == Cardinality(table.rows)
        Cell == [id |-> n + 1, ref |-> ref, account |-> a, kind |-> kind,
                 points |-> 1, reward |-> reward]
    IN  /\ kind \in table.kinds /\ n < MaxIds
        /\ (kind = "redeem") <=> (reward # NoReward)
        /\ Holds(Current, "accounts", a)
        /\ \A r \in table.rows : r.ref # ref
        /\ Insert("transactions", [c \in table.cols |-> Cell[c]])

\* The process ends: a crash, an operator, an I/O error or the ten seconds that
\* Migrate has are all the same to the database.
Stop == proc # "down" /\ Exit

\* synchronous=NORMAL: the last commits are lost with the power.
LosePower ==
    \E n \in 1 .. Len(log) :
        /\ log' = SubSeq(log, 1, n)
        /\ work' = log[n] /\ step' = 0
        /\ proc' = "down"
        /\ UNCHANGED release

Migrate ==
    Statement \/ StatementRefused \/ CommitMigration \/ Listen

Client ==
    \/ \E a \in OldAccounts : InsertAccount(a)
    \/ \E ref \in Refs, a \in AccountIds, kind \in Kinds,
          reward \in Rewards \cup {NoReward} : InsertTransaction(ref, a, kind, reward)

Trouble == Upgrade \/ Stop \/ LosePower

MigrationNext == Start \/ Migrate \/ Client \/ Trouble

MigrationSpec == MigrationInit /\ [][MigrationNext]_migrationVars

\* Somebody starts the server again, and it is given the time it needs.
MigrationFairSpec ==
    MigrationSpec /\ WF_migrationVars(Start) /\ WF_migrationVars(Migrate)

-----------------------------------------------------------------------------
(***************************************************************************)
(* Properties.                                                             *)
(***************************************************************************)

Shape(d) ==
    [n \in TableNames |->
        LET t == d.tables[n]
        IN  [cols |-> t.cols, kinds |-> t.kinds, rules |-> t.rules,
             indexed |-> t.indexed]]

\* The schema of each version, as the queries and the slices' documents know
\* it.
SchemaAt(v) ==
    LET S1 == v >= 2
        S8 == v >= 5
        None == Shape(NewDatabase)["accounts"]
    IN  [accounts |->
            IF S1 THEN [cols |-> {"account"} \cup IF v >= 4 THEN {"hash", "role"} ELSE {},
                        kinds |-> {}, rules |-> {}, indexed |-> FALSE]
            ELSE None,
         transactions |->
            IF S1 THEN [cols |-> TxnColumns \cup IF S8 THEN {"reward"} ELSE {},
                        kinds |-> {"earn", "spend"} \cup IF S8 THEN {"redeem"} ELSE {},
                        rules |-> TxnRules, indexed |-> TRUE]
            ELSE None,
         transactions_new |-> None,
         audit_log |->
            IF v >= 3 THEN [cols |-> TxnColumns \cup {"outcome"}, kinds |-> {},
                            rules |-> {"autoincrement"}, indexed |-> TRUE]
            ELSE None]

\* No committed database is half-migrated: after any crash or power loss the
\* schema is the one its version stands for, and the rebuild of S8 has lost
\* neither a constraint nor the index (s8_redeem_kind.sql:4-6).
SchemaMatchesVersion ==
    \A i \in 1 .. Len(log) : Shape(log[i]) = SchemaAt(log[i].version)

\* Every row that was ever committed is in every later database, with the
\* values, and the id, that it had (s8_redeem_kind.sql:18-22).
DataSurvives ==
    \A i, j \in 1 .. Len(log) : i <= j =>
        \A n \in {"accounts", "transactions"} : \A r \in log[i].tables[n].rows :
            \E s \in log[j].tables[n].rows : \A c \in DOMAIN r : s[c] = r[c]

\* What this release serves is a database as Ledger describes it, whichever
\* release its rows are from: they have every column, refs and account ids
\* are unique, transactions have accounts, and the demo accounts are those
\* that were seeded (main.go:84-105).
ServesALedger ==
    proc = "serving" /\ release = Len(Script) =>
        LET A == Current.tables["accounts"].rows
            T == Current.tables["transactions"].rows
        IN  /\ \A r \in A : Widened(r, "table", "accounts") \in Account
            /\ \A t \in T :
                  /\ [table |-> "transactions", ref |-> t.ref, account |-> t.account,
                      kind |-> t.kind, points |-> t.points,
                      reward |-> t.reward] \in Transaction
                  /\ \E r \in A : r.account = t.account
            /\ \A t, u \in T : t.ref = u.ref \/ t.id = u.id => t = u
            /\ \A r, s \in A : r.account = s.account => r = s
            /\ DemoRows \subseteq A

Undisturbed == <>[][Trouble => StatementRefused]_migrationVars

\* A client of an earlier release created an account that is still to be seeded.
SeedTaken ==
    /\ Current.version < 4
    /\ \E r \in DemoRows : Holds(Current, "accounts", r.account)

\* Once nothing stops it any more the server comes up, however often it was
\* stopped in the middle of a migration, unless an id to be seeded is taken
\* (sqlite.go:65-80, main.go:84-105).
ComesUpUnlessTaken == Undisturbed /\ <>[]~SeedTaken => <>[](proc = "serving")

\* "Migrate applies all embedded goose migrations on startup" (sqlite.go:65),
\* whatever an earlier release has stored.
ComesUp == Undisturbed => <>[](proc = "serving")

=============================================================================
