--------------------------- MODULE MigrationsProofs ---------------------------
(***************************************************************************)
(* What starting gowallet does to a database, for any history of releases, *)
(* crashes and power losses and any rows that clients stored in between:   *)
(* no half-migrated schema is ever committed, no row is lost or changed,   *)
(* and what the last release serves is a ledger.                           *)
(*                                                                         *)
(* The invariant follows the pending migration statement by statement:     *)
(* Stage gives the schema of the database its transaction sees, Sound what *)
(* holds of the rows whatever the schema, and Carried where the committed  *)
(* rows are.                                                               *)
(***************************************************************************)
EXTENDS Migrations, FiniteSetTheorems, SequenceTheorems, TLAPS

IsTable(t) ==
    t = [cols |-> t.cols, kinds |-> t.kinds, rules |-> t.rules,
         indexed |-> t.indexed, rows |-> t.rows]

IsDatabase(d) ==
    /\ d = [version |-> d.version, tables |-> d.tables]
    /\ d.tables = [n \in TableNames |-> d.tables[n]]
    /\ \A n \in TableNames : IsTable(d.tables[n])

-----------------------------------------------------------------------------
(***************************************************************************)
(* The schema after each statement.                                        *)
(***************************************************************************)
ShapeOf(t) ==
    [cols |-> t.cols, kinds |-> t.kinds, rules |-> t.rules, indexed |-> t.indexed]

Bare == ShapeOf(NoTable)

AccountsShape(cols) ==
    [cols |-> cols, kinds |-> {}, rules |-> {}, indexed |-> FALSE]

OldTxnsUnindexed ==
    [cols |-> TxnColumns, kinds |-> {"earn", "spend"}, rules |-> TxnRules,
     indexed |-> FALSE]

NewTxnsUnindexed ==
    [cols |-> TxnColumns \cup {"reward"}, kinds |-> {"earn", "spend"} \cup {"redeem"},
     rules |-> TxnRules, indexed |-> FALSE]

AuditUnindexed ==
    [cols |-> TxnColumns \cup {"outcome"}, kinds |-> {}, rules |-> {"autoincrement"},
     indexed |-> FALSE]

Indexed(shape) ==
    [cols |-> shape.cols, kinds |-> shape.kinds, rules |-> shape.rules,
     indexed |-> TRUE]

OldTxns == Indexed(OldTxnsUnindexed)
NewTxns == Indexed(NewTxnsUnindexed)
AuditShape == Indexed(AuditUnindexed)

Shapes(d, accounts, transactions, transactions_new, audit_log) ==
    /\ ShapeOf(d.tables["accounts"]) = accounts
    /\ ShapeOf(d.tables["transactions"]) = transactions
    /\ ShapeOf(d.tables["transactions_new"]) = transactions_new
    /\ ShapeOf(d.tables["audit_log"]) = audit_log

S1Accounts == AccountsShape({"account"})
S3Accounts == AccountsShape({"account"} \cup {"hash", "role"})

\* The schema that k statements of the migration after version v lead to.
Stage(d, v, k) ==
    /\ v = 0 => Shapes(d, Bare, Bare, Bare, Bare)
    /\ v = 1 =>
          /\ k = 0 => Shapes(d, Bare, Bare, Bare, Bare)
          /\ k = 1 => Shapes(d, S1Accounts, Bare, Bare, Bare)
          /\ k = 2 => Shapes(d, S1Accounts, OldTxnsUnindexed, Bare, Bare)
          /\ k = 3 => Shapes(d, S1Accounts, OldTxns, Bare, Bare)
    /\ v = 2 =>
          /\ k = 0 => Shapes(d, S1Accounts, OldTxns, Bare, Bare)
          /\ k = 1 => Shapes(d, S1Accounts, OldTxns, Bare, AuditUnindexed)
          /\ k = 2 => Shapes(d, S1Accounts, OldTxns, Bare, AuditShape)
    /\ v = 3 =>
          /\ k = 0 => Shapes(d, S1Accounts, OldTxns, Bare, AuditShape)
          /\ k = 1 => Shapes(d, AccountsShape({"account", "hash"}), OldTxns,
                             Bare, AuditShape)
          /\ k \in {2, 3} =>
                Shapes(d, S3Accounts, OldTxns, Bare, AuditShape)
    /\ v = 4 =>
          /\ k = 0 => Shapes(d, S3Accounts, OldTxns, Bare, AuditShape)
          /\ k \in {1, 2} =>
                Shapes(d, S3Accounts, OldTxns, NewTxnsUnindexed, AuditShape)
          /\ k = 3 => Shapes(d, S3Accounts, Bare, NewTxnsUnindexed, AuditShape)
          /\ k = 4 => Shapes(d, S3Accounts, NewTxnsUnindexed, Bare, AuditShape)
          /\ k = 5 => Shapes(d, S3Accounts, NewTxns, Bare, AuditShape)
    /\ v = 5 => Shapes(d, S3Accounts, NewTxns, Bare, AuditShape)

\* Between two migrations this is the schema of the version.
LEMMA StageSchema ==
  ASSUME NEW d, NEW v \in 0 .. 5, Stage(d, v, 0)
  PROVE  Shape(d) = SchemaAt(v)
<1>0. Shape(d) = [n \in TableNames |-> ShapeOf(d.tables[n])]
  BY DEF Shape, ShapeOf
<1>1. Bare = Shape(NewDatabase)["accounts"]
  BY DEF Shape, ShapeOf, NewDatabase, Bare, TableNames
<1> DEFINE None == Shape(NewDatabase)["accounts"]
           Is(accounts, transactions, audit_log) ==
              SchemaAt(v) = [accounts |-> accounts, transactions |-> transactions,
                             transactions_new |-> Bare, audit_log |-> audit_log]
<1> USE DEF S1Accounts, S3Accounts, AccountsShape, OldTxns, NewTxns, AuditShape,
            OldTxnsUnindexed, NewTxnsUnindexed, AuditUnindexed, Indexed
<1>2. CASE v \in {0, 1}
  <2>1. Is(Bare, Bare, Bare)
    BY <1>1, <1>2 DEF SchemaAt
  <2>2. Shapes(d, Bare, Bare, Bare, Bare)
    BY <1>2 DEF Stage
  <2>3. QED
    BY <1>0, <2>1, <2>2 DEF Shapes, TableNames
<1>3. CASE v = 2
  <2>1. Is(S1Accounts, OldTxns, Bare)
    BY <1>1, <1>3 DEF SchemaAt
  <2>2. Shapes(d, S1Accounts, OldTxns, Bare, Bare)
    BY <1>3 DEF Stage
  <2>3. QED
    BY <1>0, <2>1, <2>2 DEF Shapes, TableNames
<1>4. CASE v = 3
  <2>1. Is(S1Accounts, OldTxns, AuditShape)
    BY <1>1, <1>4 DEF SchemaAt
  <2>2. Shapes(d, S1Accounts, OldTxns, Bare, AuditShape)
    BY <1>4 DEF Stage
  <2>3. QED
    BY <1>0, <2>1, <2>2 DEF Shapes, TableNames
<1>5. CASE v = 4
  <2>1. Is(S3Accounts, OldTxns, AuditShape)
    BY <1>1, <1>5 DEF SchemaAt
  <2>2. Shapes(d, S3Accounts, OldTxns, Bare, AuditShape)
    BY <1>5 DEF Stage
  <2>3. QED
    BY <1>0, <2>1, <2>2 DEF Shapes, TableNames
<1>6. CASE v = 5
  <2>1. Is(S3Accounts, NewTxns, AuditShape)
    BY <1>1, <1>6 DEF SchemaAt
  <2>2. Shapes(d, S3Accounts, NewTxns, Bare, AuditShape)
    BY <1>6 DEF Stage
  <2>3. QED
    BY <1>0, <2>1, <2>2 DEF Shapes, TableNames
<1>7. QED
  BY <1>2, <1>3, <1>4, <1>5, <1>6

LEMMA ScriptLength ==
  /\ Len(Script) = 5
  /\ Len(Script[1]) = 1 /\ Len(Script[2]) = 3 /\ Len(Script[3]) = 2
  /\ Len(Script[4]) = 3 /\ Len(Script[5]) = 5
BY DEF Script

\* A migration ends where the next one begins.
LEMMA StageEnds ==
  ASSUME NEW d, NEW v \in 0 .. 4, NEW k, k = Len(Script[v + 1]), Stage(d, v, k)
  PROVE  Stage(d, v + 1, 0)
<1>1. CASE v = 0
  BY <1>1 DEF Stage
<1>2. CASE v = 1
  <2>1. k = 3
    BY <1>2, ScriptLength
  <2>2. QED
    BY <1>2, <2>1 DEF Stage
<1>3. CASE v = 2
  <2>1. k = 2
    BY <1>3, ScriptLength
  <2>2. QED
    BY <1>3, <2>1 DEF Stage
<1>4. CASE v = 3
  <2>1. k = 3
    BY <1>4, ScriptLength
  <2>2. QED
    BY <1>4, <2>1 DEF Stage
<1>5. CASE v = 4
  <2>1. k = 5
    BY <1>5, ScriptLength
  <2>2. QED
    BY <1>5, <2>1 DEF Stage
<1>6. QED
  BY <1>1, <1>2, <1>3, <1>4, <1>5

-----------------------------------------------------------------------------
(***************************************************************************)
(* What a statement does to the tables.                                    *)
(***************************************************************************)
\* e is d with another table n.
Replaced(e, d, n, t) ==
    /\ IsDatabase(e) /\ e.version = d.version
    /\ e.tables[n] = t
    /\ \A m \in TableNames \ {n} : e.tables[m] = d.tables[m]

LEMMA SetReplaces ==
  ASSUME NEW d, IsDatabase(d), NEW n \in TableNames, NEW t, IsTable(t)
  PROVE  Replaced(Set(d, n, t), d, n, t)
<1> DEFINE e == Set(d, n, t)
           f == [d.tables EXCEPT ![n] = t]
<1>1. e = [version |-> d.version, tables |-> f]
  BY DEF Set, IsDatabase
<1>2. e.version = d.version /\ e.tables = f
  BY <1>1
<1>3. /\ f = [m \in TableNames |-> f[m]] /\ f[n] = t
      /\ \A m \in TableNames \ {n} : f[m] = d.tables[m]
  BY DEF IsDatabase
<1> HIDE DEF e, f
<1>4. \A m \in TableNames : IsTable(f[m])
  BY <1>3 DEF IsDatabase
<1>5. QED
  BY <1>1, <1>2, <1>3, <1>4 DEF IsDatabase, Replaced, e

LEMMA CreateReplaces ==
  ASSUME NEW d, IsDatabase(d), NEW n \in TableNames, NEW cols, NEW kinds, NEW rules
  PROVE  Replaced(CreateTable(d, n, cols, kinds, rules), d, n,
                  [cols |-> cols, kinds |-> kinds, rules |-> rules,
                   indexed |-> FALSE, rows |-> {}])
BY SetReplaces DEF CreateTable, IsTable

LEMMA TableEdits ==
  ASSUME NEW u, IsTable(u), NEW x, NEW y
  PROVE  /\ [u EXCEPT !.indexed = x] =
               [cols |-> u.cols, kinds |-> u.kinds, rules |-> u.rules,
                indexed |-> x, rows |-> u.rows]
         /\ [u EXCEPT !.rows = y] =
               [cols |-> u.cols, kinds |-> u.kinds, rules |-> u.rules,
                indexed |-> u.indexed, rows |-> y]
<1> DEFINE w == [cols |-> u.cols, kinds |-> u.kinds, rules |-> u.rules,
                 indexed |-> u.indexed, rows |-> u.rows]
<1>1. u = w
  BY DEF IsTable
<1>2. [w EXCEPT !.indexed = x] =
               [cols |-> u.cols, kinds |-> u.kinds, rules |-> u.rules,
                indexed |-> x, rows |-> u.rows]
  OBVIOUS
<1>3. [w EXCEPT !.rows = y] =
               [cols |-> u.cols, kinds |-> u.kinds, rules |-> u.rules,
                indexed |-> u.indexed, rows |-> y]
  OBVIOUS
<1> HIDE DEF w
<1>4. QED
  BY <1>1, <1>2, <1>3

LEMMA TableWidens ==
  ASSUME NEW u, IsTable(u), NEW x, NEW y
  PROVE  [u EXCEPT !.cols = x, !.rows = y] =
            [cols |-> x, kinds |-> u.kinds, rules |-> u.rules,
             indexed |-> u.indexed, rows |-> y]
<1> DEFINE w == [cols |-> u.cols, kinds |-> u.kinds, rules |-> u.rules,
                 indexed |-> u.indexed, rows |-> u.rows]
           v == [w EXCEPT !.cols = x]
<1>1. u = w
  BY DEF IsTable
<1>2. v = [cols |-> x, kinds |-> u.kinds, rules |-> u.rules,
           indexed |-> u.indexed, rows |-> u.rows]
  OBVIOUS
<1> HIDE DEF w
<1>3. [u EXCEPT !.cols = x, !.rows = y] = [v EXCEPT !.rows = y]
  BY <1>1
<1> HIDE DEF v
<1>4. QED
  BY <1>2, <1>3

LEMMA IndexReplaces ==
  ASSUME NEW d, IsDatabase(d), NEW n \in TableNames
  PROVE  LET t == d.tables[n]
         IN  Replaced(CreateIndex(d, n), d, n,
                      [cols |-> t.cols, kinds |-> t.kinds, rules |-> t.rules,
                       indexed |-> TRUE, rows |-> t.rows])
<1> DEFINE t == [d.tables[n] EXCEPT !.indexed = TRUE]
<1>1. CreateIndex(d, n) = Set(d, n, t)
  BY DEF CreateIndex, Set
<1>2. t = [cols |-> d.tables[n].cols, kinds |-> d.tables[n].kinds,
           rules |-> d.tables[n].rules, indexed |-> TRUE, rows |-> d.tables[n].rows]
  BY TableEdits DEF IsDatabase
<1> HIDE DEF t
<1>3. IsTable(t)
  BY <1>2 DEF IsTable
<1>4. Replaced(CreateIndex(d, n), d, n, t)
  BY <1>1, <1>3, SetReplaces
<1>5. QED
  BY <1>2, <1>4

LEMMA AddReplaces ==
  ASSUME NEW d, IsDatabase(d), NEW n \in TableNames, NEW col, NEW value
  PROVE  LET t == d.tables[n]
         IN  Replaced(AddColumn(d, n, col, value), d, n,
                      [cols |-> t.cols \cup {col}, kinds |-> t.kinds,
                       rules |-> t.rules, indexed |-> t.indexed,
                       rows |-> {Widened(r, col, value) : r \in t.rows}])
<1> DEFINE u == d.tables[n]
           cols == u.cols \cup {col}
           rows == {Widened(r, col, value) : r \in u.rows}
           t == [u EXCEPT !.cols = cols, !.rows = rows]
<1>1. AddColumn(d, n, col, value) = Set(d, n, t)
  <2> HIDE DEF u
  <2>1. [u EXCEPT !.cols = @ \cup {col}, !.rows = {Widened(r, col, value) : r \in @}] = t
    OBVIOUS
  <2>2. QED
    BY <2>1 DEF AddColumn, u
<1>0. IsTable(u)
  BY DEF IsDatabase
<1> HIDE DEF cols, rows, u
<1>2. t = [cols |-> cols, kinds |-> u.kinds, rules |-> u.rules, indexed |-> u.indexed,
           rows |-> rows]
  BY <1>0, TableWidens, Zenon
<1> HIDE DEF t
<1>3. IsTable(t)
  BY <1>2 DEF IsTable
<1>4. Replaced(AddColumn(d, n, col, value), d, n, t)
  BY <1>1, <1>3, SetReplaces
<1>5. QED
  BY <1>2, <1>4 DEF cols, rows, u

LEMMA RowsReplace ==
  ASSUME NEW d, IsDatabase(d), NEW n \in TableNames, NEW rows
  PROVE  LET t == d.tables[n]
         IN  Replaced([d EXCEPT !.tables[n].rows = rows], d, n,
                      [cols |-> t.cols, kinds |-> t.kinds, rules |-> t.rules,
                       indexed |-> t.indexed, rows |-> rows])
<1> DEFINE u == d.tables[n]
           t == [u EXCEPT !.rows = rows]
<1>0. IsTable(u)
  BY DEF IsDatabase
<1>1. [d EXCEPT !.tables[n].rows = rows] = Set(d, n, t)
  BY DEF Set
<1> HIDE DEF u
<1>2. t = [cols |-> u.cols, kinds |-> u.kinds, rules |-> u.rules, indexed |-> u.indexed,
           rows |-> rows]
  BY <1>0, TableEdits
<1> HIDE DEF t
<1>3. IsTable(t)
  BY <1>2 DEF IsTable
<1>4. Replaced([d EXCEPT !.tables[n].rows = rows], d, n, t)
  BY <1>1, <1>3, SetReplaces
<1>5. QED
  BY <1>2, <1>4 DEF u

-----------------------------------------------------------------------------
(***************************************************************************)
(* What holds of the rows, whatever the schema.                            *)
(***************************************************************************)
AccountRow(r, cols) ==
    /\ DOMAIN r = cols
    /\ "account" \in cols /\ r.account \in AccountIds
    /\ "hash" \in cols => r.hash \in Hashes
    /\ "role" \in cols => r.role \in Roles

TxnRow(r, cols) ==
    /\ DOMAIN r = cols
    /\ TxnColumns \subseteq cols
    /\ r.ref \in Refs /\ r.account \in AccountIds /\ r.kind \in Kinds
    /\ r.points \in Points
    /\ "reward" \in cols => r.reward \in Rewards \cup {NoReward}

AccountsSound(t) ==
    /\ \A r \in t.rows : AccountRow(r, t.cols)
    /\ \A r, s \in t.rows : r.account = s.account => r = s

\* ids count the rows, and the account of a row is one of accounts.
TxnsSound(t, accounts) ==
    /\ IsFiniteSet(t.rows)
    /\ \A r \in t.rows : /\ TxnRow(r, t.cols)
                         /\ r.id \in 1 .. Cardinality(t.rows)
                         /\ \E a \in accounts : a.account = r.account
    /\ \A r, s \in t.rows : r.ref = s.ref \/ r.id = s.id => r = s

Sound(d) ==
    /\ IsDatabase(d)
    /\ AccountsSound(d.tables["accounts"])
    /\ TxnsSound(d.tables["transactions"], d.tables["accounts"].rows)
    /\ TxnsSound(d.tables["transactions_new"], d.tables["accounts"].rows)

\* Every row of R is among S, with the columns that were added since.
Kept(r, s) == DOMAIN r \subseteq DOMAIN s /\ \A c \in DOMAIN r : s[c] = r[c]
Carries(S, R) == \A r \in R : \E s \in S : Kept(r, s)

\* The rows of the committed database c, in the database d that k statements
\* of the migration after version v have led to.
Carried(c, d, v, k) ==
    /\ Carries(d.tables["accounts"].rows, c.tables["accounts"].rows)
    /\ ~(v = 4 /\ k = 3) =>
          Carries(d.tables["transactions"].rows, c.tables["transactions"].rows)
    /\ v = 4 /\ k \in {2, 3} =>
          Carries(d.tables["transactions_new"].rows, c.tables["transactions"].rows)

Seeded(d, v, k) ==
    v \in {4, 5} \/ (v = 3 /\ k = 3) => DemoRows \subseteq d.tables["accounts"].rows

\* The pending transaction, after k statements.
Underway(c, d, v, k) ==
    d.version = v /\ Sound(d) /\ Stage(d, v, k) /\ Seeded(d, v, k) /\ Carried(c, d, v, k)

\* A committed database.
Committed(d) ==
    /\ d.version \in 0 .. 5 /\ Sound(d)
    /\ Stage(d, d.version, 0) /\ Seeded(d, d.version, 0)

LogInv ==
    /\ log \in Seq({log[i] : i \in 1 .. Len(log)})
    /\ log # <<>> /\ \A i \in 1 .. Len(log) : Committed(log[i])
    /\ \A i, j \in 1 .. Len(log) : i <= j =>
          \A n \in {"accounts", "transactions"} :
             Carries(log[j].tables[n].rows, log[i].tables[n].rows)

ProcInv ==
    /\ release \in 1 .. 5
    /\ step = 0 => work = Current
    /\ step # 0 => Migrating /\ step \in 0 .. Len(Pending)
    /\ proc = "serving" => Current.version >= release

MigInv ==
    /\ LogInv /\ ProcInv
    /\ Underway(Current, work, Current.version, step)

-----------------------------------------------------------------------------
(***************************************************************************)
(* Sound databases stay sound.                                             *)
(***************************************************************************)
LEMMA CarriesItself == \A R : Carries(R, R)
BY DEF Carries, Kept

LEMMA CarriesOn ==
  ASSUME NEW R, NEW S, NEW T, Carries(S, R), Carries(T, S)
  PROVE  Carries(T, R)
<1> SUFFICES ASSUME NEW r \in R PROVE \E t \in T : Kept(r, t)
  BY DEF Carries
<1>1. PICK s \in S : Kept(r, s)
  BY DEF Carries
<1>2. PICK t \in T : Kept(s, t)
  BY DEF Carries
<1>3. Kept(r, t)
  BY <1>1, <1>2 DEF Kept
<1>4. QED
  BY <1>3

LEMMA MoreCarries == \A R, S : R \subseteq S => Carries(S, R)
BY DEF Carries, Kept

LEMMA EmptyIsSound ==
  ASSUME NEW t, t.rows = {}
  PROVE  AccountsSound(t) /\ \A accounts : TxnsSound(t, accounts)
BY FS_EmptySet DEF AccountsSound, TxnsSound

\* Soundness looks at the rows and their columns only.
LEMMA SameRows ==
  ASSUME NEW t, NEW u, t.rows = u.rows, t.cols = u.cols
  PROVE  /\ AccountsSound(t) => AccountsSound(u)
         /\ \A accounts : TxnsSound(t, accounts) => TxnsSound(u, accounts)
BY DEF AccountsSound, TxnsSound

\* Accounts that are carried on are there for the transactions.
LEMMA AccountsCarried ==
  ASSUME NEW t, NEW cols, NEW A, NEW B, TxnsSound(t, A), Carries(B, A),
         \A a \in A : AccountRow(a, cols)
  PROVE  TxnsSound(t, B)
<1> SUFFICES ASSUME NEW r \in t.rows PROVE \E b \in B : b.account = r.account
  BY DEF TxnsSound
<1>1. PICK a \in A : a.account = r.account
  BY DEF TxnsSound
<1>2. PICK b \in B : Kept(a, b)
  BY DEF Carries
<1>3. "account" \in DOMAIN a
  BY DEF AccountRow
<1>4. b.account = a.account
  BY <1>2, <1>3 DEF Kept
<1>5. QED
  BY <1>1, <1>4

\* One table of a sound database is replaced by a sound one.
LEMMA SoundReplaced ==
  ASSUME NEW d, Sound(d), NEW n \in TableNames, NEW t, NEW e, Replaced(e, d, n, t),
         n \in {"transactions", "transactions_new"} =>
            TxnsSound(t, d.tables["accounts"].rows),
         n = "accounts" =>
            AccountsSound(t) /\ Carries(t.rows, d.tables["accounts"].rows)
  PROVE  Sound(e)
<1>1. CASE n = "accounts"
  <2>1. /\ e.tables["accounts"] = t
        /\ e.tables["transactions"] = d.tables["transactions"]
        /\ e.tables["transactions_new"] = d.tables["transactions_new"]
    BY <1>1 DEF Replaced, TableNames
  <2>2. \A a \in d.tables["accounts"].rows : AccountRow(a, d.tables["accounts"].cols)
    BY DEF Sound, AccountsSound
  <2>3. /\ TxnsSound(d.tables["transactions"], t.rows)
        /\ TxnsSound(d.tables["transactions_new"], t.rows)
    BY <1>1, <2>2, AccountsCarried DEF Sound
  <2>4. QED
    BY <1>1, <2>1, <2>3 DEF Sound, Replaced
<1>2. CASE n = "transactions"
  BY <1>2 DEF Sound, Replaced, TableNames
<1>3. CASE n = "transactions_new"
  BY <1>3 DEF Sound, Replaced, TableNames
<1>4. CASE n = "audit_log"
  BY <1>4 DEF Sound, Replaced, TableNames
<1>5. QED
  BY <1>1, <1>2, <1>3, <1>4 DEF TableNames

\* A column is added to accounts.
LEMMA WidenedAccounts ==
  ASSUME NEW t, AccountsSound(t), NEW u, NEW col, NEW value, col \notin t.cols,
         \/ col = "hash" /\ value \in Hashes
         \/ col = "role" /\ value \in Roles,
         u.cols = t.cols \cup {col},
         u.rows = {Widened(r, col, value) : r \in t.rows}
  PROVE  AccountsSound(u) /\ Carries(u.rows, t.rows)
<1>1. ASSUME NEW r \in t.rows
      PROVE  /\ AccountRow(Widened(r, col, value), u.cols)
             /\ Widened(r, col, value).account = r.account
             /\ Kept(r, Widened(r, col, value))
  <2> DEFINE w == Widened(r, col, value)
  <2>1. AccountRow(r, t.cols)
    BY DEF AccountsSound
  <2>0. "account" \in u.cols
    BY <2>1 DEF AccountRow
  <2>2. /\ DOMAIN w = u.cols /\ w[col] = value
        /\ (\A c \in t.cols : w[c] = r[c]) /\ Kept(r, w)
    <3>1. DOMAIN r = t.cols
      BY <2>1 DEF AccountRow
    <3>2. /\ DOMAIN w = DOMAIN r \cup {col} /\ w[col] = value
          /\ (\A c \in DOMAIN r : w[c] = r[c]) /\ Kept(r, w)
      BY <3>1 DEF Widened, Kept
    <3> HIDE DEF w
    <3>3. QED
      BY <3>1, <3>2
  <2> HIDE DEF w
  <2>3. w.account = r.account /\ w.account \in AccountIds
    BY <2>1, <2>2 DEF AccountRow
  <2>4. "hash" \in u.cols => w.hash \in Hashes
    BY <2>1, <2>2 DEF AccountRow
  <2>5. "role" \in u.cols => w.role \in Roles
    BY <2>1, <2>2 DEF AccountRow
  <2>6. QED
    BY <2>2, <2>3, <2>4, <2>5, <2>0 DEF AccountRow, w
<1>2. Carries(u.rows, t.rows)
  BY <1>1 DEF Carries
<1>3. ASSUME NEW w \in u.rows, NEW x \in u.rows, w.account = x.account
      PROVE  w = x
  <2>1. PICK r \in t.rows : w = Widened(r, col, value)
    OBVIOUS
  <2>2. PICK q \in t.rows : x = Widened(q, col, value)
    OBVIOUS
  <2>3. r.account = q.account
    BY <1>1, <1>3, <2>1, <2>2
  <2>4. r = q
    BY <2>3 DEF AccountsSound
  <2>5. QED
    BY <2>1, <2>2, <2>4
<1>4. \A w \in u.rows : AccountRow(w, u.cols)
  BY <1>1
<1>5. QED
  BY <1>2, <1>3, <1>4 DEF AccountsSound

\* INSERT ... SELECT into the table with a column more: every row has its copy,
\* and ids still count the rows.
LEMMA CopiedTxns ==
  ASSUME NEW t, NEW A, TxnsSound(t, A), t.cols = TxnColumns, NEW u,
         u.cols = TxnColumns \cup {"reward"},
         u.rows = {Widened(r, "reward", NoReward) : r \in t.rows}
  PROVE  TxnsSound(u, A) /\ Carries(u.rows, t.rows)
<1>1. ASSUME NEW r \in t.rows
      PROVE  /\ TxnRow(Widened(r, "reward", NoReward), u.cols)
             /\ \A c \in TxnColumns : Widened(r, "reward", NoReward)[c] = r[c]
             /\ Kept(r, Widened(r, "reward", NoReward))
  <2> DEFINE w == Widened(r, "reward", NoReward)
  <2>1. TxnRow(r, TxnColumns)
    BY DEF TxnsSound
  <2>2. DOMAIN r = TxnColumns /\ "reward" \notin TxnColumns
    BY <2>1 DEF TxnRow, TxnColumns
  <2>3. /\ DOMAIN w = u.cols /\ w["reward"] = NoReward
        /\ (\A c \in TxnColumns : w[c] = r[c]) /\ Kept(r, w)
    BY <2>2 DEF Widened, Kept
  <2> HIDE DEF w
  <2>4. /\ w.ref = r.ref /\ w.account = r.account /\ w.kind = r.kind
        /\ w.points = r.points
    BY <2>3 DEF TxnColumns
  <2>5. TxnRow(w, u.cols)
    BY <2>1, <2>3, <2>4 DEF TxnRow
  <2>6. QED
    BY <2>3, <2>5 DEF w
<1>2. \A r \in t.rows : LET w == Widened(r, "reward", NoReward)
                        IN  w.id = r.id /\ w.ref = r.ref /\ w.account = r.account
  BY <1>1 DEF TxnColumns
<1>3. IsFiniteSet(u.rows) /\ Cardinality(u.rows) = Cardinality(t.rows)
  <2> DEFINE f == [r \in t.rows |-> Widened(r, "reward", NoReward)]
  <2>1. f \in [t.rows -> u.rows] /\ \A w \in u.rows : \E r \in t.rows : f[r] = w
    OBVIOUS
  <2>2. \A r, s \in t.rows : f[r] = f[s] => r = s
    BY <1>2 DEF TxnsSound
  <2>3. f \in Bijection(t.rows, u.rows)
    BY <2>1, <2>2 DEF Bijection, Injection, IsInjective, Surjection
  <2>4. ExistsBijection(t.rows, u.rows)
    BY <2>3 DEF ExistsBijection
  <2>5. QED
    BY <2>4, FS_Bijection DEF TxnsSound
<1>4. ASSUME NEW w \in u.rows
      PROVE  /\ TxnRow(w, u.cols) /\ w.id \in 1 .. Cardinality(u.rows)
             /\ \E a \in A : a.account = w.account
  <2>1. PICK r \in t.rows : w = Widened(r, "reward", NoReward)
    OBVIOUS
  <2>2. w.id = r.id /\ w.account = r.account
    BY <1>2, <2>1
  <2>3. r.id \in 1 .. Cardinality(t.rows) /\ \E a \in A : a.account = r.account
    BY DEF TxnsSound
  <2>4. QED
    BY <1>1, <1>3, <2>1, <2>2, <2>3
<1>5. ASSUME NEW w \in u.rows, NEW x \in u.rows, w.ref = x.ref \/ w.id = x.id
      PROVE  w = x
  <2>1. PICK r \in t.rows : w = Widened(r, "reward", NoReward)
    OBVIOUS
  <2>2. PICK s \in t.rows : x = Widened(s, "reward", NoReward)
    OBVIOUS
  <2>3. r.ref = s.ref \/ r.id = s.id
    BY <1>2, <1>5, <2>1, <2>2
  <2>4. r = s
    BY <2>3 DEF TxnsSound
  <2>5. QED
    BY <2>1, <2>2, <2>4
<1>6. Carries(u.rows, t.rows)
  BY <1>1 DEF Carries
<1>7. QED
  BY <1>3, <1>4, <1>5, <1>6 DEF TxnsSound

\* The demo accounts are as sound as any.
LEMMA SeededAccounts ==
  ASSUME NEW t, AccountsSound(t), t.cols = {"account"} \cup {"hash", "role"}, NEW u,
         u.cols = t.cols, u.rows = t.rows \cup DemoRows,
         \A r \in DemoRows : \A s \in t.rows : s.account # r.account
  PROVE  AccountsSound(u) /\ Carries(u.rows, t.rows)
<1>1. \A r \in DemoRows : \E i \in {1, 2} :
         r = [account |-> Migrated[i].account, hash |-> Migrated[i].hash,
              role |-> Migrated[i].role]
  BY DEF DemoRows, Migrated
<1>2. ASSUME NEW i \in {1, 2}, NEW r,
             r = [account |-> Migrated[i].account, hash |-> Migrated[i].hash,
                  role |-> Migrated[i].role]
      PROVE  AccountRow(r, u.cols)
  <2>1. /\ Migrated[i].account \in AccountIds /\ Migrated[i].hash \in Hashes
        /\ Migrated[i].role \in Roles
    BY LedgerAssumption DEF Migrated, Hashes, Roles
  <2>2. DOMAIN r = u.cols
    BY <1>2
  <2>3. QED
    BY <1>2, <2>1, <2>2 DEF AccountRow
<1>3. \A r \in DemoRows : AccountRow(r, u.cols)
  BY <1>1, <1>2
<1>4. Migrated[1].account # Migrated[2].account
  BY LedgerAssumption DEF Migrated
<1>5. ASSUME NEW r \in DemoRows, NEW s \in DemoRows, r.account = s.account
      PROVE  r = s
  BY <1>1, <1>4, <1>5
<1>6. \A r \in u.rows : AccountRow(r, u.cols)
  BY <1>3 DEF AccountsSound
<1>7. \A r, s \in u.rows : r.account = s.account => r = s
  BY <1>5 DEF AccountsSound
<1>8. QED
  BY <1>6, <1>7, MoreCarries DEF AccountsSound

-----------------------------------------------------------------------------
(***************************************************************************)
(* One statement of the pending migration, after the other.                *)
(***************************************************************************)
LEMMA ScriptText ==
  /\ Script[1][1] = "select 1"
  /\ Script[2][1] = "create accounts" /\ Script[2][2] = "create transactions"
  /\ Script[2][3] = "index transactions"
  /\ Script[3][1] = "create audit_log" /\ Script[3][2] = "index audit_log"
  /\ Script[4][1] = "add password_hash" /\ Script[4][2] = "add role"
  /\ Script[4][3] = "seed"
  /\ Script[5][1] = "create transactions_new" /\ Script[5][2] = "copy"
  /\ Script[5][3] = "drop transactions" /\ Script[5][4] = "rename"
  /\ Script[5][5] = "index transactions"
BY DEF Script

RowTables == {"accounts", "transactions", "transactions_new"}

\* A table without columns is empty.
LEMMA NoColumnsNoRows ==
  ASSUME NEW d, Sound(d), NEW n \in RowTables, ShapeOf(d.tables[n]) = Bare
  PROVE  d.tables[n].rows = {}
<1>1. d.tables[n].cols = {}
  <2>1. ShapeOf(d.tables[n]).cols = Bare.cols
    OBVIOUS
  <2>2. QED
    BY <2>1 DEF ShapeOf, Bare, NoTable
<1>2. QED
  BY <1>1 DEF Sound, AccountsSound, TxnsSound, AccountRow, TxnRow, TxnColumns, RowTables

\* What the text of a statement stands for.
LEMMA Executes ==
  ASSUME NEW d
  PROVE  /\ Execute(d, "select 1") = d
         /\ Execute(d, "create accounts") =
               CreateTable(d, "accounts", {"account"}, {}, {})
         /\ Execute(d, "create transactions") =
               CreateTable(d, "transactions", TxnColumns, {"earn", "spend"}, TxnRules)
         /\ Execute(d, "index transactions") = CreateIndex(d, "transactions")
         /\ Execute(d, "create audit_log") =
               CreateTable(d, "audit_log", TxnColumns \cup {"outcome"}, {},
                           {"autoincrement"})
         /\ Execute(d, "index audit_log") = CreateIndex(d, "audit_log")
         /\ Execute(d, "add password_hash") = AddColumn(d, "accounts", "hash", NoHash)
         /\ Execute(d, "add role") = AddColumn(d, "accounts", "role", "member")
         /\ Execute(d, "seed") = Seed(d)
         /\ Execute(d, "create transactions_new") =
               CreateTable(d, "transactions_new", TxnColumns \cup {"reward"}, Kinds,
                           TxnRules)
         /\ Execute(d, "copy") = Copy(d)
         /\ Execute(d, "drop transactions") = DropTransactions(d)
         /\ Execute(d, "rename") = Rename(d)
BY DEF Execute

\* A statement that leaves the rows alone.
LEMMA QuietStatement ==
  ASSUME NEW c, NEW d, NEW v \in {1, 2, 4}, NEW k \in 0 .. 4, Underway(c, d, v, k),
         v = 4 => k \in {0, 4},
         NEW e, NEW n \in TableNames, NEW t, Replaced(e, d, n, t),
         n \in RowTables => t.rows = d.tables[n].rows,
         n \in RowTables => t.cols = d.tables[n].cols \/ t.rows = {},
         Stage(e, v, k + 1)
  PROVE  Underway(c, e, v, k + 1)
<1>1. Sound(d) /\ d.version = v
  BY DEF Underway
<1>2. ASSUME n \in {"transactions", "transactions_new"}
      PROVE  TxnsSound(t, d.tables["accounts"].rows)
  BY <1>1, <1>2, EmptyIsSound, SameRows DEF RowTables, Sound
<1>3. ASSUME n = "accounts"
      PROVE  AccountsSound(t) /\ Carries(t.rows, d.tables["accounts"].rows)
  BY <1>1, <1>3, EmptyIsSound, SameRows, CarriesItself DEF RowTables, Sound
<1>4. Sound(e)
  BY <1>1, <1>2, <1>3, SoundReplaced
<1>5. \A m \in RowTables : e.tables[m].rows = d.tables[m].rows
  BY DEF Replaced, RowTables, TableNames
<1>6. Carried(c, e, v, k + 1) /\ Seeded(e, v, k + 1)
  <2>1. Carried(c, d, v, k) /\ Seeded(d, v, k)
    BY DEF Underway
  <2>2. Seeded(e, v, k + 1)
    BY <1>5, <2>1 DEF Seeded, RowTables
  <2>3. v = 4 => ~(k + 1 \in {2, 3}) /\ k # 3
    OBVIOUS
  <2>4. QED
    BY <1>5, <2>1, <2>2, <2>3 DEF Carried, RowTables
<1>7. QED
  BY <1>1, <1>4, <1>6 DEF Underway, Replaced

\* S1: the accounts and the transactions.
LEMMA MigrationS1 ==
  ASSUME NEW c, NEW d, NEW k \in 0 .. 2, Underway(c, d, 1, k)
  PROVE  Underway(c, Execute(d, Script[2][k + 1]), 1, k + 1)
<1> DEFINE e == Execute(d, Script[2][k + 1])
<1>0. Sound(d) /\ IsDatabase(d) /\ Stage(d, 1, k)
  BY DEF Underway, Sound
<1> USE DEF TableNames, RowTables
<1>1. CASE k = 0
  <2> DEFINE t == [cols |-> {"account"}, kinds |-> {}, rules |-> {},
                   indexed |-> FALSE, rows |-> {}]
  <2>1. e = CreateTable(d, "accounts", {"account"}, {}, {})
    <3>1. Script[2][k + 1] = "create accounts"
      BY <1>1, k + 1 = 1, ScriptText, Zenon
    <3>2. QED
      BY <3>1, Executes
  <2> HIDE DEF e
  <2>2. Replaced(e, d, "accounts", t)
    BY <1>0, <2>1, CreateReplaces
  <2>3. Shapes(d, Bare, Bare, Bare, Bare)
    BY <1>0, <1>1 DEF Stage
  <2>4. t.rows = {} /\ ShapeOf(t) = S1Accounts
    BY DEF ShapeOf, S1Accounts, AccountsShape
  <2> HIDE DEF t
  <2>5. t.rows = d.tables["accounts"].rows
    <3>1. d.tables["accounts"].rows = {}
      BY <1>0, <2>3, NoColumnsNoRows DEF Shapes
    <3>2. QED
      BY <2>4, <3>1
  <2>6. Stage(e, 1, k + 1)
    <3>1. Shapes(e, S1Accounts, Bare, Bare, Bare)
      BY <2>2, <2>3, <2>4 DEF Shapes, Replaced
    <3>2. QED
      BY <1>1, <3>1 DEF Stage
  <2>7. QED
    BY <1>1, <2>2, <2>4, <2>5, <2>6, QuietStatement DEF e
<1>2. CASE k = 1
  <2> DEFINE t == [cols |-> TxnColumns, kinds |-> {"earn", "spend"}, rules |-> TxnRules,
                   indexed |-> FALSE, rows |-> {}]
  <2>1. e = CreateTable(d, "transactions", TxnColumns, {"earn", "spend"}, TxnRules)
    <3>1. Script[2][k + 1] = "create transactions"
      BY <1>2, k + 1 = 2, ScriptText, Zenon
    <3>2. QED
      BY <3>1, Executes
  <2> HIDE DEF e
  <2>2. Replaced(e, d, "transactions", t)
    BY <1>0, <2>1, CreateReplaces
  <2>3. Shapes(d, S1Accounts, Bare, Bare, Bare)
    BY <1>0, <1>2 DEF Stage
  <2>4. t.rows = {} /\ ShapeOf(t) = OldTxnsUnindexed
    BY DEF ShapeOf, OldTxnsUnindexed
  <2> HIDE DEF t
  <2>5. t.rows = d.tables["transactions"].rows
    <3>1. d.tables["transactions"].rows = {}
      BY <1>0, <2>3, NoColumnsNoRows DEF Shapes
    <3>2. QED
      BY <2>4, <3>1
  <2>6. Stage(e, 1, k + 1)
    <3>1. Shapes(e, S1Accounts, OldTxnsUnindexed, Bare, Bare)
      BY <2>2, <2>3, <2>4 DEF Shapes, Replaced
    <3>2. QED
      BY <1>2, <3>1 DEF Stage
  <2>7. QED
    BY <1>2, <2>2, <2>4, <2>5, <2>6, QuietStatement DEF e
<1>3. CASE k = 2
  <2> DEFINE u == d.tables["transactions"]
             t == [cols |-> u.cols, kinds |-> u.kinds, rules |-> u.rules,
                   indexed |-> TRUE, rows |-> u.rows]
  <2>1. e = CreateIndex(d, "transactions")
    <3>1. Script[2][k + 1] = "index transactions"
      BY <1>3, k + 1 = 3, ScriptText, Zenon
    <3>2. QED
      BY <3>1, Executes
  <2> HIDE DEF e
  <2>2. Replaced(e, d, "transactions", t)
    BY <1>0, <2>1, IndexReplaces
  <2>3. Shapes(d, S1Accounts, OldTxnsUnindexed, Bare, Bare)
    BY <1>0, <1>3 DEF Stage
  <2>4. t.rows = u.rows /\ t.cols = u.cols /\ ShapeOf(t) = OldTxns
    <3>1. ShapeOf(u) = OldTxnsUnindexed
      BY <2>3 DEF Shapes
    <3>2. ShapeOf(t) = Indexed(ShapeOf(u))
      BY DEF ShapeOf, Indexed
    <3>3. QED
      BY <3>1, <3>2 DEF OldTxns
  <2> HIDE DEF t
  <2>5. Stage(e, 1, k + 1)
    <3>1. Shapes(e, S1Accounts, OldTxns, Bare, Bare)
      BY <2>2, <2>3, <2>4 DEF Shapes, Replaced
    <3>2. QED
      BY <1>3, <3>1 DEF Stage
  <2>6. QED
    BY <1>3, <2>2, <2>4, <2>5, QuietStatement DEF e
<1>4. QED
  BY <1>1, <1>2, <1>3

\* S4: the audit log.
LEMMA MigrationS4 ==
  ASSUME NEW c, NEW d, NEW k \in 0 .. 1, Underway(c, d, 2, k)
  PROVE  Underway(c, Execute(d, Script[3][k + 1]), 2, k + 1)
<1> DEFINE e == Execute(d, Script[3][k + 1])
<1>0. Sound(d) /\ IsDatabase(d) /\ Stage(d, 2, k)
  BY DEF Underway, Sound
<1> USE DEF TableNames, RowTables
<1>1. CASE k = 0
  <2> DEFINE t == [cols |-> TxnColumns \cup {"outcome"}, kinds |-> {}, rules |-> {"autoincrement"},
                   indexed |-> FALSE, rows |-> {}]
  <2>1. e = CreateTable(d, "audit_log", TxnColumns \cup {"outcome"}, {}, {"autoincrement"})
    <3>1. Script[3][k + 1] = "create audit_log"
      BY <1>1, k + 1 = 1, ScriptText, Zenon
    <3>2. QED
      BY <3>1, Executes
  <2> HIDE DEF e
  <2>2. Replaced(e, d, "audit_log", t)
    BY <1>0, <2>1, CreateReplaces
  <2>3. Shapes(d, S1Accounts, OldTxns, Bare, Bare)
    BY <1>0, <1>1 DEF Stage
  <2>4. t.rows = {} /\ ShapeOf(t) = AuditUnindexed
    BY DEF ShapeOf, AuditUnindexed
  <2> HIDE DEF t
  <2>5. "audit_log" \notin RowTables
    OBVIOUS
  <2>6. Stage(e, 2, k + 1)
    <3>1. Shapes(e, S1Accounts, OldTxns, Bare, AuditUnindexed)
      BY <2>2, <2>3, <2>4 DEF Shapes, Replaced
    <3>2. QED
      BY <1>1, <3>1 DEF Stage
  <2>7. QED
    BY <1>1, <2>2, <2>4, <2>5, <2>6, QuietStatement DEF e
<1>2. CASE k = 1
  <2> DEFINE u == d.tables["audit_log"]
             t == [cols |-> u.cols, kinds |-> u.kinds, rules |-> u.rules,
                   indexed |-> TRUE, rows |-> u.rows]
  <2>1. e = CreateIndex(d, "audit_log")
    <3>1. Script[3][k + 1] = "index audit_log"
      BY <1>2, k + 1 = 2, ScriptText, Zenon
    <3>2. QED
      BY <3>1, Executes
  <2> HIDE DEF e
  <2>2. Replaced(e, d, "audit_log", t)
    BY <1>0, <2>1, IndexReplaces
  <2>3. Shapes(d, S1Accounts, OldTxns, Bare, AuditUnindexed)
    BY <1>0, <1>2 DEF Stage
  <2>4. t.rows = u.rows /\ t.cols = u.cols /\ ShapeOf(t) = AuditShape
    <3>1. ShapeOf(u) = AuditUnindexed
      BY <2>3 DEF Shapes
    <3>2. ShapeOf(t) = Indexed(ShapeOf(u))
      BY DEF ShapeOf, Indexed
    <3>3. QED
      BY <3>1, <3>2 DEF AuditShape
  <2> HIDE DEF t
  <2>5. Stage(e, 2, k + 1)
    <3>1. Shapes(e, S1Accounts, OldTxns, Bare, AuditShape)
      BY <2>2, <2>3, <2>4 DEF Shapes, Replaced
    <3>2. QED
      BY <1>2, <3>1 DEF Stage
  <2>6. QED
    BY <1>2, <2>2, <2>4, <2>5, QuietStatement DEF e
<1>3. QED
  BY <1>1, <1>2

\* A statement that adds to the accounts.
LEMMA AccountsStatement ==
  ASSUME NEW c, NEW d, NEW k \in 0 .. 2, Underway(c, d, 3, k), NEW e, NEW t,
         Replaced(e, d, "accounts", t), AccountsSound(t),
         Carries(t.rows, d.tables["accounts"].rows), Stage(e, 3, k + 1),
         k = 2 => DemoRows \subseteq t.rows
  PROVE  Underway(c, e, 3, k + 1)
<1>1. Sound(d) /\ d.version = 3 /\ Carried(c, d, 3, k)
  BY DEF Underway
<1>2. Sound(e)
  BY <1>1, SoundReplaced DEF TableNames
<1>3. /\ e.tables["accounts"] = t
      /\ e.tables["transactions"] = d.tables["transactions"]
  BY DEF Replaced, TableNames
<1>4. Carries(t.rows, c.tables["accounts"].rows)
  BY <1>1, CarriesOn DEF Carried
<1>5. Carried(c, e, 3, k + 1) /\ Seeded(e, 3, k + 1)
  BY <1>1, <1>3, <1>4 DEF Carried, Seeded
<1>6. QED
  BY <1>1, <1>2, <1>5 DEF Underway, Replaced

\* S6: credentials, roles and the demo accounts.
LEMMA MigrationS6 ==
  ASSUME NEW c, NEW d, NEW k \in 0 .. 2, Underway(c, d, 3, k),
         ~Refused(d, Script[4][k + 1])
  PROVE  Underway(c, Execute(d, Script[4][k + 1]), 3, k + 1)
<1> DEFINE e == Execute(d, Script[4][k + 1])
           u == d.tables["accounts"]
<1>0. Sound(d) /\ IsDatabase(d) /\ Stage(d, 3, k) /\ AccountsSound(u)
  BY DEF Underway, Sound
<1>a. ASSUME NEW cols, ShapeOf(u) = AccountsShape(cols)
      PROVE  u.cols = cols /\ u.kinds = {} /\ u.rules = {} /\ u.indexed = FALSE
  <2> HIDE DEF u
  <2>1. /\ ShapeOf(u).cols = AccountsShape(cols).cols
        /\ ShapeOf(u).kinds = AccountsShape(cols).kinds
        /\ ShapeOf(u).rules = AccountsShape(cols).rules
        /\ ShapeOf(u).indexed = AccountsShape(cols).indexed
    BY <1>a
  <2>2. QED
    BY <2>1 DEF ShapeOf, AccountsShape
<1> USE DEF TableNames
<1>1. CASE k = 0
  <2> DEFINE cols == u.cols \cup {"hash"}
             rows == {Widened(r, "hash", NoHash) : r \in u.rows}
             t == [cols |-> cols, kinds |-> u.kinds, rules |-> u.rules,
                   indexed |-> u.indexed, rows |-> rows]
  <2>1. e = AddColumn(d, "accounts", "hash", NoHash)
    <3>1. Script[4][k + 1] = "add password_hash"
      BY <1>1, k + 1 = 1, ScriptText, Zenon
    <3>2. QED
      BY <3>1, Executes
  <2> HIDE DEF e
  <2>2. Replaced(e, d, "accounts", t)
    BY <1>0, <2>1, AddReplaces
  <2>3. Shapes(d, S1Accounts, OldTxns, Bare, AuditShape)
    BY <1>0, <1>1 DEF Stage
  <2>4. u.cols = {"account"} /\ u.kinds = {} /\ u.rules = {} /\ u.indexed = FALSE
    BY <1>a, <2>3 DEF Shapes, S1Accounts
  <2>5. ShapeOf(t) = AccountsShape({"account", "hash"})
    <3>1. cols = {"account", "hash"}
      BY <2>4
    <3> HIDE DEF cols, rows
    <3>2. ShapeOf(t) = AccountsShape(cols)
      BY <2>4 DEF ShapeOf, AccountsShape
    <3>3. QED
      BY <3>1, <3>2 DEF S3Accounts
  <2>6. "hash" \notin u.cols /\ NoHash \in Hashes
    BY <2>4 DEF Hashes, Roles
  <2>7. t.cols = cols /\ t.rows = rows
    OBVIOUS
  <2> HIDE DEF t, u
  <2>8. AccountsSound(t) /\ Carries(t.rows, u.rows)
    BY <1>0, <2>6, <2>7, WidenedAccounts
  <2>9. Stage(e, 3, k + 1)
    <3>1. Shapes(e, AccountsShape({"account", "hash"}), OldTxns, Bare, AuditShape)
      BY <2>2, <2>3, <2>5 DEF Shapes, Replaced
    <3>2. QED
      BY <1>1, <3>1 DEF Stage
  <2>10. QED
    BY <1>1, <2>2, <2>8, <2>9, AccountsStatement DEF e, u
<1>2. CASE k = 1
  <2> DEFINE cols == u.cols \cup {"role"}
             rows == {Widened(r, "role", "member") : r \in u.rows}
             t == [cols |-> cols, kinds |-> u.kinds, rules |-> u.rules,
                   indexed |-> u.indexed, rows |-> rows]
  <2>1. e = AddColumn(d, "accounts", "role", "member")
    <3>1. Script[4][k + 1] = "add role"
      BY <1>2, k + 1 = 2, ScriptText, Zenon
    <3>2. QED
      BY <3>1, Executes
  <2> HIDE DEF e
  <2>2. Replaced(e, d, "accounts", t)
    BY <1>0, <2>1, AddReplaces
  <2>3. Shapes(d, AccountsShape({"account", "hash"}), OldTxns, Bare, AuditShape)
    BY <1>0, <1>2 DEF Stage
  <2>4. u.cols = {"account", "hash"} /\ u.kinds = {} /\ u.rules = {} /\ u.indexed = FALSE
    BY <1>a, <2>3 DEF Shapes, S1Accounts
  <2>5. ShapeOf(t) = S3Accounts
    <3>1. cols = {"account"} \cup {"hash", "role"}
      BY <2>4
    <3> HIDE DEF cols, rows
    <3>2. ShapeOf(t) = AccountsShape(cols)
      BY <2>4 DEF ShapeOf, AccountsShape
    <3>3. QED
      BY <3>1, <3>2 DEF S3Accounts
  <2>6. "role" \notin u.cols /\ "member" \in Roles
    BY <2>4 DEF Hashes, Roles
  <2>7. t.cols = cols /\ t.rows = rows
    OBVIOUS
  <2> HIDE DEF t, u
  <2>8. AccountsSound(t) /\ Carries(t.rows, u.rows)
    BY <1>0, <2>6, <2>7, WidenedAccounts
  <2>9. Stage(e, 3, k + 1)
    <3>1. Shapes(e, S3Accounts, OldTxns, Bare, AuditShape)
      BY <2>2, <2>3, <2>5 DEF Shapes, Replaced
    <3>2. QED
      BY <1>2, <3>1 DEF Stage
  <2>10. QED
    BY <1>2, <2>2, <2>8, <2>9, AccountsStatement DEF e, u
<1>3. CASE k = 2
  <2> DEFINE rows == u.rows \cup DemoRows
             t == [cols |-> u.cols, kinds |-> u.kinds, rules |-> u.rules,
                   indexed |-> u.indexed, rows |-> rows]
  <2>0. Script[4][k + 1] = "seed"
    BY <1>3, k + 1 = 3, ScriptText, Zenon
  <2>1. e = [d EXCEPT !.tables["accounts"].rows = rows]
    BY <2>0, Executes DEF Seed
  <2> HIDE DEF e, rows
  <2>2. Replaced(e, d, "accounts", t)
    BY <1>0, <2>1, RowsReplace
  <2>3. Shapes(d, S3Accounts, OldTxns, Bare, AuditShape)
    BY <1>0, <1>3 DEF Stage
  <2>4. u.cols = {"account"} \cup {"hash", "role"}
    BY <1>a, <2>3 DEF Shapes, S3Accounts
  <2>5. ShapeOf(t) = S3Accounts
    <3>1. ShapeOf(t) = ShapeOf(u)
      BY DEF ShapeOf
    <3>2. QED
      BY <2>3, <3>1 DEF Shapes
  <2>6. \A r \in DemoRows : \A s \in u.rows : s.account # r.account
    BY <2>0 DEF Refused, Holds
  <2>7. t.cols = u.cols /\ t.rows = u.rows \cup DemoRows
    BY DEF rows
  <2> HIDE DEF t, u
  <2>8. AccountsSound(t) /\ Carries(t.rows, u.rows)
    BY <1>0, <2>4, <2>6, <2>7, SeededAccounts
  <2>9. Stage(e, 3, k + 1)
    <3>1. Shapes(e, S3Accounts, OldTxns, Bare, AuditShape)
      BY <2>2, <2>3, <2>5 DEF Shapes, Replaced
    <3>2. QED
      BY <1>3, <3>1 DEF Stage
  <2>10. QED
    BY <1>3, <2>2, <2>7, <2>8, <2>9, AccountsStatement DEF e, u
<1>4. QED
  BY <1>1, <1>2, <1>3

\* S8: transactions is rebuilt to allow redemptions.
LEMMA MigrationS8 ==
  ASSUME NEW c, NEW d, NEW k \in 0 .. 4, Underway(c, d, 4, k)
  PROVE  Underway(c, Execute(d, Script[5][k + 1]), 4, k + 1)
<1> DEFINE e == Execute(d, Script[5][k + 1])
<1>0. Sound(d) /\ IsDatabase(d) /\ Stage(d, 4, k)
  BY DEF Underway, Sound
<1> USE DEF TableNames, RowTables
<1>1. CASE k = 0
  <2> DEFINE t == [cols |-> TxnColumns \cup {"reward"}, kinds |-> Kinds, rules |-> TxnRules,
                   indexed |-> FALSE, rows |-> {}]
  <2>1. e = CreateTable(d, "transactions_new", TxnColumns \cup {"reward"}, Kinds, TxnRules)
    <3>1. Script[5][k + 1] = "create transactions_new"
      BY <1>1, k + 1 = 1, ScriptText, Zenon
    <3>2. QED
      BY <3>1, Executes
  <2> HIDE DEF e
  <2>2. Replaced(e, d, "transactions_new", t)
    BY <1>0, <2>1, CreateReplaces
  <2>3. Shapes(d, S3Accounts, OldTxns, Bare, AuditShape)
    BY <1>0, <1>1 DEF Stage
  <2>4. t.rows = {} /\ ShapeOf(t) = NewTxnsUnindexed
    <3>1. {"earn", "spend"} \cup {"redeem"} = Kinds
      BY DEF Kinds
    <3>2. QED
      BY <3>1 DEF ShapeOf, NewTxnsUnindexed
  <2> HIDE DEF t
  <2>5. t.rows = d.tables["transactions_new"].rows
    <3>1. d.tables["transactions_new"].rows = {}
      BY <1>0, <2>3, NoColumnsNoRows DEF Shapes
    <3>2. QED
      BY <2>4, <3>1
  <2>6. Stage(e, 4, k + 1)
    <3>1. Shapes(e, S3Accounts, OldTxns, NewTxnsUnindexed, AuditShape)
      BY <2>2, <2>3, <2>4 DEF Shapes, Replaced
    <3>2. QED
      BY <1>1, <3>1 DEF Stage
  <2>7. QED
    BY <1>1, <2>2, <2>4, <2>5, <2>6, QuietStatement DEF e
<1>2. CASE k = 1
  <2> DEFINE old == d.tables["transactions"]
             new == d.tables["transactions_new"]
             rows == {Widened(r, "reward", NoReward) : r \in old.rows}
             t == [cols |-> new.cols, kinds |-> new.kinds, rules |-> new.rules,
                   indexed |-> new.indexed, rows |-> rows]
  <2>1. e = [d EXCEPT !.tables["transactions_new"].rows = rows]
    <3>1. Script[5][k + 1] = "copy"
      BY <1>2, k + 1 = 2, ScriptText, Zenon
    <3>2. QED
      BY <3>1, Executes DEF Copy
  <2> HIDE DEF e, rows
  <2>2. Replaced(e, d, "transactions_new", t)
    BY <1>0, <2>1, RowsReplace
  <2>3. Shapes(d, S3Accounts, OldTxns, NewTxnsUnindexed, AuditShape)
    BY <1>0, <1>2 DEF Stage
  <2>4. ShapeOf(t) = NewTxnsUnindexed
    <3>1. ShapeOf(t) = ShapeOf(new)
      BY DEF ShapeOf
    <3>2. QED
      BY <2>3, <3>1 DEF Shapes
  <2>5. old.cols = TxnColumns /\ t.cols = TxnColumns \cup {"reward"}
    <3>1. ShapeOf(old).cols = OldTxns.cols /\ ShapeOf(t).cols = NewTxnsUnindexed.cols
      BY <2>3, <2>4 DEF Shapes
    <3> HIDE DEF old, t
    <3>2. QED
      BY <3>1 DEF ShapeOf, OldTxns, OldTxnsUnindexed, NewTxnsUnindexed, Indexed
  <2>6. t.rows = {Widened(r, "reward", NoReward) : r \in old.rows}
    BY DEF rows
  <2>7. TxnsSound(old, d.tables["accounts"].rows)
    BY <1>0 DEF Sound
  <2> HIDE DEF t, old, new
  <2>8. TxnsSound(t, d.tables["accounts"].rows) /\ Carries(t.rows, old.rows)
    BY <2>5, <2>6, <2>7, CopiedTxns
  <2>9. Sound(e)
    BY <1>0, <2>2, <2>8, SoundReplaced
  <2>10. /\ e.tables["accounts"] = d.tables["accounts"] /\ e.version = d.version
         /\ e.tables["transactions"] = old /\ e.tables["transactions_new"] = t
    BY <2>2 DEF Replaced, old
  <2>11. Carried(c, e, 4, k + 1) /\ Seeded(e, 4, k + 1)
    <3>1. Carried(c, d, 4, k) /\ Seeded(d, 4, k)
      BY DEF Underway
    <3>2. Carries(t.rows, c.tables["transactions"].rows)
      BY <1>2, <2>8, <3>1, CarriesOn DEF Carried, old
    <3>3. QED
      BY <1>2, <2>10, <3>1, <3>2 DEF Carried, Seeded, old
  <2>12. Stage(e, 4, k + 1)
    <3>1. Shapes(e, S3Accounts, OldTxns, NewTxnsUnindexed, AuditShape)
      BY <2>2, <2>3, <2>4 DEF Shapes, Replaced
    <3>2. QED
      BY <1>2, <3>1 DEF Stage
  <2>13. QED
    BY <2>9, <2>10, <2>11, <2>12 DEF Underway, e
<1>3. CASE k = 2
  <2>1. e = Set(d, "transactions", NoTable)
    <3>1. Script[5][k + 1] = "drop transactions"
      BY <1>3, k + 1 = 3, ScriptText, Zenon
    <3>2. QED
      BY <3>1, Executes DEF DropTransactions
  <2> HIDE DEF e
  <2>2. Replaced(e, d, "transactions", NoTable)
    BY <1>0, <2>1, SetReplaces DEF IsTable, NoTable
  <2>3. Shapes(d, S3Accounts, OldTxns, NewTxnsUnindexed, AuditShape)
    BY <1>0, <1>3 DEF Stage
  <2>4. TxnsSound(NoTable, d.tables["accounts"].rows)
    BY EmptyIsSound DEF NoTable
  <2>5. Sound(e)
    BY <1>0, <2>2, <2>4, SoundReplaced
  <2>6. /\ e.tables["accounts"] = d.tables["accounts"] /\ e.version = d.version
        /\ e.tables["transactions_new"] = d.tables["transactions_new"]
    BY <2>2 DEF Replaced
  <2>7. Carried(c, e, 4, k + 1) /\ Seeded(e, 4, k + 1)
    <3>1. Carried(c, d, 4, k) /\ Seeded(d, 4, k)
      BY DEF Underway
    <3>2. QED
      BY <1>3, <2>6, <3>1 DEF Carried, Seeded
  <2>8. Stage(e, 4, k + 1)
    <3>1. Shapes(e, S3Accounts, Bare, NewTxnsUnindexed, AuditShape)
      BY <2>2, <2>3 DEF Shapes, Replaced, Bare
    <3>2. QED
      BY <1>3, <3>1 DEF Stage
  <2>9. QED
    BY <2>5, <2>6, <2>7, <2>8 DEF Underway, e
<1>4. CASE k = 3
  <2> DEFINE new == d.tables["transactions_new"]
             m == Set(d, "transactions", new)
  <2>1. e = Set(m, "transactions_new", NoTable)
    <3>1. Script[5][k + 1] = "rename"
      BY <1>4, k + 1 = 4, ScriptText, Zenon
    <3>2. QED
      BY <3>1, Executes DEF Rename
  <2>2. Replaced(m, d, "transactions", new)
    BY <1>0, SetReplaces DEF IsDatabase
  <2>3. TxnsSound(new, d.tables["accounts"].rows)
    BY <1>0 DEF Sound
  <2> HIDE DEF e, m
  <2>4. Sound(m)
    BY <1>0, <2>2, <2>3, SoundReplaced
  <2>5. Replaced(e, m, "transactions_new", NoTable)
    BY <2>1, <2>4, SetReplaces DEF IsTable, NoTable, Sound
  <2>6. TxnsSound(NoTable, m.tables["accounts"].rows)
    BY EmptyIsSound DEF NoTable
  <2>7. Sound(e)
    BY <2>4, <2>5, <2>6, SoundReplaced
  <2>8. /\ e.tables["accounts"] = d.tables["accounts"] /\ e.version = d.version
        /\ e.tables["transactions"] = new /\ e.tables["transactions_new"] = NoTable
        /\ e.tables["audit_log"] = d.tables["audit_log"]
    BY <2>2, <2>5 DEF Replaced
  <2>9. Carried(c, e, 4, k + 1) /\ Seeded(e, 4, k + 1)
    <3>1. Carried(c, d, 4, k) /\ Seeded(d, 4, k)
      BY DEF Underway
    <3>2. QED
      BY <1>4, <2>8, <3>1 DEF Carried, Seeded
  <2>10. Stage(e, 4, k + 1)
    <3>1. Shapes(d, S3Accounts, Bare, NewTxnsUnindexed, AuditShape)
      BY <1>0, <1>4 DEF Stage
    <3>2. Shapes(e, S3Accounts, NewTxnsUnindexed, Bare, AuditShape)
      BY <2>8, <3>1 DEF Shapes, Bare
    <3>3. QED
      BY <1>4, <3>2 DEF Stage
  <2>11. QED
    BY <2>7, <2>8, <2>9, <2>10 DEF Underway, e
<1>5. CASE k = 4
  <2> DEFINE u == d.tables["transactions"]
             t == [cols |-> u.cols, kinds |-> u.kinds, rules |-> u.rules,
                   indexed |-> TRUE, rows |-> u.rows]
  <2>1. e = CreateIndex(d, "transactions")
    <3>1. Script[5][k + 1] = "index transactions"
      BY <1>5, k + 1 = 5, ScriptText, Zenon
    <3>2. QED
      BY <3>1, Executes
  <2> HIDE DEF e
  <2>2. Replaced(e, d, "transactions", t)
    BY <1>0, <2>1, IndexReplaces
  <2>3. Shapes(d, S3Accounts, NewTxnsUnindexed, Bare, AuditShape)
    BY <1>0, <1>5 DEF Stage
  <2>4. t.rows = u.rows /\ t.cols = u.cols /\ ShapeOf(t) = NewTxns
    <3>1. ShapeOf(u) = NewTxnsUnindexed
      BY <2>3 DEF Shapes
    <3>2. ShapeOf(t) = Indexed(ShapeOf(u))
      BY DEF ShapeOf, Indexed
    <3>3. QED
      BY <3>1, <3>2 DEF NewTxns
  <2> HIDE DEF t
  <2>5. Stage(e, 4, k + 1)
    <3>1. Shapes(e, S3Accounts, NewTxns, Bare, AuditShape)
      BY <2>2, <2>3, <2>4 DEF Shapes, Replaced
    <3>2. QED
      BY <1>5, <3>1 DEF Stage
  <2>6. QED
    BY <1>5, <2>2, <2>4, <2>5, QuietStatement DEF e
<1>6. QED
  BY <1>1, <1>2, <1>3, <1>4, <1>5

\* Any statement of any migration.
LEMMA OneStatement ==
  ASSUME NEW c, NEW d, NEW v \in 0 .. 4, NEW k \in Nat, k < Len(Script[v + 1]),
         Underway(c, d, v, k), ~Refused(d, Script[v + 1][k + 1])
  PROVE  Underway(c, Execute(d, Script[v + 1][k + 1]), v, k + 1)
<1>1. CASE v = 0
  <2>1. k = 0 /\ v + 1 = 1 /\ k + 1 = 1
    BY <1>1, ScriptLength
  <2>2. Script[v + 1][k + 1] = "select 1"
    BY <2>1, ScriptText, Zenon
  <2>3. Execute(d, Script[v + 1][k + 1]) = d
    BY <2>2, Executes
  <2>4. Underway(c, d, v, k + 1)
    BY <1>1, <2>1 DEF Underway, Stage, Seeded, Carried
  <2>5. QED
    BY <2>3, <2>4
<1>2. CASE v = 1
  <2>1. v + 1 = 2 /\ k \in 0 .. 2
    BY <1>2, ScriptLength
  <2>2. QED
    BY <1>2, <2>1, MigrationS1
<1>3. CASE v = 2
  <2>1. v + 1 = 3 /\ k \in 0 .. 1
    BY <1>3, ScriptLength
  <2>2. QED
    BY <1>3, <2>1, MigrationS4
<1>4. CASE v = 3
  <2>1. v + 1 = 4 /\ k \in 0 .. 2
    BY <1>4, ScriptLength
  <2>2. QED
    BY <1>4, <2>1, MigrationS6
<1>5. CASE v = 4
  <2>1. v + 1 = 5 /\ k \in 0 .. 4
    BY <1>5, ScriptLength
  <2>2. QED
    BY <1>5, <2>1, MigrationS8
<1>6. QED
  BY <1>1, <1>2, <1>3, <1>4, <1>5

\* A transaction that has yet to begin sees the committed database.
LEMMA AtRest ==
  ASSUME NEW d, Committed(d)
  PROVE  Underway(d, d, d.version, 0)
BY CarriesItself DEF Committed, Underway, Carried

\* A migration that committed leaves a committed database, and the rows.
LEMMA Finished ==
  ASSUME NEW c, NEW d, NEW v \in 0 .. 4, NEW k, k = Len(Script[v + 1]),
         Underway(c, d, v, k)
  PROVE  LET e == [d EXCEPT !.version = @ + 1]
         IN  /\ Committed(e) /\ e.version = v + 1
             /\ \A n \in {"accounts", "transactions"} :
                   Carries(e.tables[n].rows, c.tables[n].rows)
<1> DEFINE e == [d EXCEPT !.version = @ + 1]
<1>0. d.version = v /\ Sound(d) /\ IsDatabase(d)
  BY DEF Underway, Sound
<1>1. e = [version |-> v + 1, tables |-> d.tables]
  <2> DEFINE w == [version |-> v, tables |-> d.tables]
  <2>1. d = w
    BY <1>0 DEF IsDatabase
  <2>2. [w EXCEPT !.version = @ + 1] = [version |-> v + 1, tables |-> d.tables]
    OBVIOUS
  <2> HIDE DEF w
  <2>3. QED
    BY <2>1, <2>2
<1>2. e.version = v + 1 /\ e.tables = d.tables
  BY <1>1
<1> HIDE DEF e
<1>3. Sound(e)
  BY <1>0, <1>1, <1>2 DEF Sound, IsDatabase
<1>4. Stage(e, v + 1, 0)
  <2>1. Stage(d, v + 1, 0)
    BY StageEnds DEF Underway
  <2>2. QED
    BY <1>2, <2>1 DEF Stage, Shapes
<1>5. (v = 3 => k = 3) /\ (v = 4 => k = 5)
  <2>1. CASE v = 3
    BY <2>1, v + 1 = 4, ScriptLength
  <2>2. CASE v = 4
    BY <2>2, v + 1 = 5, ScriptLength
  <2>3. QED
    BY <2>1, <2>2
<1>6. Seeded(e, v + 1, 0)
  <2>1. Seeded(d, v, k)
    BY DEF Underway
  <2>2. QED
    BY <1>2, <1>5, <2>1 DEF Seeded
<1>7. \A n \in {"accounts", "transactions"} :
         Carries(e.tables[n].rows, c.tables[n].rows)
  <2>0. ~(v = 4 /\ k = 3)
    BY <1>5, 3 # 5, Zenon
  <2>1. Carried(c, d, v, k)
    BY DEF Underway
  <2>2. /\ Carries(d.tables["accounts"].rows, c.tables["accounts"].rows)
        /\ Carries(d.tables["transactions"].rows, c.tables["transactions"].rows)
    BY <2>0, <2>1 DEF Carried
  <2>3. QED
    BY <1>2, <2>2
<1>8. Committed(e)
  BY <1>2, <1>3, <1>4, <1>6 DEF Committed
<1>9. QED
  BY <1>2, <1>7, <1>8 DEF e

\* A row is added to a committed database.
LEMMA Inserted ==
  ASSUME NEW d, Committed(d), NEW n \in {"accounts", "transactions"}, NEW row, NEW u,
         u.cols = d.tables[n].cols, u.rows = d.tables[n].rows \cup {row},
         n = "accounts" => AccountsSound(u),
         n = "transactions" => TxnsSound(u, d.tables["accounts"].rows)
  PROVE  LET e == [d EXCEPT !.tables[n].rows = @ \cup {row}]
         IN  /\ Committed(e) /\ e.version = d.version
             /\ \A m \in {"accounts", "transactions"} :
                   Carries(e.tables[m].rows, d.tables[m].rows)
<1> DEFINE old == d.tables[n]
           rows == old.rows \cup {row}
           t == [cols |-> old.cols, kinds |-> old.kinds, rules |-> old.rules,
                 indexed |-> old.indexed, rows |-> rows]
           e == [d EXCEPT !.tables[n].rows = rows]
<1>0. IsDatabase(d) /\ Sound(d) /\ n \in TableNames
  BY DEF Committed, Sound, TableNames
<1>1. e = [d EXCEPT !.tables[n].rows = @ \cup {row}]
  OBVIOUS
<1> HIDE DEF rows
<1>2. Replaced(e, d, n, t)
  BY <1>0, RowsReplace
<1>3. ShapeOf(t) = ShapeOf(old) /\ t.rows = u.rows /\ t.cols = u.cols
  BY DEF ShapeOf, rows
<1> HIDE DEF e, t
<1>4. n = "accounts" => AccountsSound(t)
  <2>1. AccountsSound(u) => AccountsSound(t)
    BY <1>3, SameRows
  <2>2. QED
    BY <2>1
<1>5. n = "transactions" => TxnsSound(t, d.tables["accounts"].rows)
  <2>1. TxnsSound(u, d.tables["accounts"].rows) => TxnsSound(t, d.tables["accounts"].rows)
    BY <1>3, SameRows
  <2>2. QED
    BY <2>1
<1>6. old.rows \subseteq t.rows
  BY <1>3
<1>7. Sound(e)
  BY <1>0, <1>2, <1>4, <1>5, <1>6, MoreCarries, SoundReplaced
<1>8. \A m \in TableNames : ShapeOf(e.tables[m]) = ShapeOf(d.tables[m])
  BY <1>2, <1>3 DEF Replaced
<1>9. e.version = d.version
  BY <1>2 DEF Replaced
<1>10. Stage(e, e.version, 0)
  <2>1. /\ ShapeOf(e.tables["accounts"]) = ShapeOf(d.tables["accounts"])
        /\ ShapeOf(e.tables["transactions"]) = ShapeOf(d.tables["transactions"])
        /\ ShapeOf(e.tables["transactions_new"]) =
              ShapeOf(d.tables["transactions_new"])
        /\ ShapeOf(e.tables["audit_log"]) = ShapeOf(d.tables["audit_log"])
    BY <1>8 DEF TableNames
  <2>2. Stage(d, e.version, 0)
    BY <1>9 DEF Committed
  <2>3. QED
    BY <2>1, <2>2 DEF Stage, Shapes
<1>11. \A m \in {"accounts", "transactions"} : d.tables[m].rows \subseteq e.tables[m].rows
  BY <1>2, <1>6 DEF Replaced, TableNames
<1>12. Seeded(e, e.version, 0)
  BY <1>9, <1>11 DEF Committed, Seeded
<1>13. Committed(e)
  BY <1>7, <1>9, <1>10, <1>12 DEF Committed
<1>14. QED
  BY <1>1, <1>9, <1>11, <1>13, MoreCarries

-----------------------------------------------------------------------------
(***************************************************************************)
(* The committed databases.                                                *)
(***************************************************************************)
\* A sequence is one over what it holds.
LEMMA OwnRange ==
  ASSUME NEW S, NEW s \in Seq(S)
  PROVE  s \in Seq({s[i] : i \in 1 .. Len(s)})
<1> DEFINE T == {s[i] : i \in 1 .. Len(s)}
<1>1. Len(s) \in Nat /\ s = [i \in 1 .. Len(s) |-> s[i]]
  OBVIOUS
<1>2. [i \in 1 .. Len(s) |-> s[i]] \in [1 .. Len(s) -> T]
  OBVIOUS
<1>3. s \in [1 .. Len(s) -> T]
  BY <1>1, <1>2, Zenon
<1> HIDE DEF T
<1>4. s \in Seq(T)
  BY <1>1, <1>3, SeqDef
<1>5. QED
  BY <1>4 DEF T

LEMMA CurrentCommitted ==
  ASSUME LogInv
  PROVE  /\ Len(log) \in Nat \ {0} /\ Len(log) \in 1 .. Len(log)
         /\ Current = log[Len(log)] /\ Committed(Current)
<1>1. Len(log) \in Nat \ {0}
  BY DEF LogInv
<1>2. Current = log[Len(log)]
  BY DEF Current, Last
<1>3. QED
  BY <1>1, <1>2 DEF LogInv

\* A transaction commits.
LEMMA LogGrows ==
  ASSUME LogInv, NEW e, Committed(e), log' = Append(log, e),
         \A n \in {"accounts", "transactions"} :
            Carries(e.tables[n].rows, Current.tables[n].rows)
  PROVE  LogInv' /\ Current' = e
<1> DEFINE S == {log[i] : i \in 1 .. Len(log)}
           T == S \cup {e}
<1>1. log \in Seq(S)
  BY DEF LogInv
<1>2. log \in Seq(T)
  BY <1>1
<1> HIDE DEF S
<1>3. /\ log' \in Seq(T) /\ Len(log') = Len(log) + 1 /\ log'[Len(log')] = e
      /\ \A i \in 1 .. Len(log) : log'[i] = log[i]
  BY <1>2
<1> HIDE DEF T
<1>4. log' \in Seq({log'[i] : i \in 1 .. Len(log')}) /\ log' # <<>>
  BY <1>2, <1>3, OwnRange
<1>5. Current' = e
  BY <1>3 DEF Current, Last
<1>6. Len(log) \in Nat
  BY <1>2
<1>7. \A i \in 1 .. Len(log') : Committed(log'[i])
  BY <1>3, <1>6 DEF LogInv
<1>8. ASSUME NEW i \in 1 .. Len(log'), NEW j \in 1 .. Len(log'), i <= j,
             NEW n \in {"accounts", "transactions"}
      PROVE  Carries(log'[j].tables[n].rows, log'[i].tables[n].rows)
  <2>1. CASE j \in 1 .. Len(log)
    <3>1. i \in 1 .. Len(log)
      BY <1>6, <1>8, <2>1
    <3>2. QED
      BY <1>3, <1>8, <2>1, <3>1 DEF LogInv
  <2>2. CASE j = Len(log') /\ i = Len(log')
    BY <2>2, CarriesItself
  <2>3. CASE j = Len(log') /\ i \in 1 .. Len(log)
    <3>1. Carries(Current.tables[n].rows, log[i].tables[n].rows)
      BY <2>3, CurrentCommitted DEF LogInv
    <3>2. Carries(e.tables[n].rows, Current.tables[n].rows)
      OBVIOUS
    <3>3. Carries(e.tables[n].rows, log[i].tables[n].rows)
      BY <3>1, <3>2, CarriesOn
    <3>4. QED
      BY <1>3, <2>3, <3>3
  <2>4. QED
    BY <1>3, <1>6, <2>1, <2>2, <2>3
<1>9. LogInv'
  BY <1>4, <1>7, <1>8 DEF LogInv
<1>10. QED
  BY <1>5, <1>9

\* The last commits are lost.
LEMMA LogShrinks ==
  ASSUME LogInv, NEW n \in 1 .. Len(log), log' = SubSeq(log, 1, n)
  PROVE  LogInv' /\ Current' = log[n]
<1> DEFINE S == {log[i] : i \in 1 .. Len(log)}
<1>1. log \in Seq(S)
  BY DEF LogInv
<1> HIDE DEF S
<1>2. /\ log' \in Seq(S) /\ Len(log') = n
      /\ \A i \in 1 .. n : log'[i] = log[i]
  BY <1>1
<1>3. log' \in Seq({log'[i] : i \in 1 .. Len(log')}) /\ log' # <<>>
  <2>0. log' \in Seq(S)
    BY <1>2
  <2>1. \A s \in Seq(S) : s \in Seq({s[i] : i \in 1 .. Len(s)})
    BY OwnRange
  <2>2. Len(log') # 0
    BY <1>1, <1>2
  <2>3. log' \in Seq({log'[i] : i \in 1 .. Len(log')})
    BY <2>0, <2>1, Zenon
  <2>4. QED
    BY <2>2, <2>3
<1>4. Current' = log[n]
  BY <1>2 DEF Current, Last
<1>5. 1 .. n \subseteq 1 .. Len(log)
  BY <1>1
<1>6. LogInv'
  BY <1>2, <1>3, <1>5 DEF LogInv
<1>7. QED
  BY <1>4, <1>6

-----------------------------------------------------------------------------
(***************************************************************************)
(* The rows that clients store.                                            *)
(***************************************************************************)
\* Which columns there are at each version.
LEMMA CommittedColumns ==
  ASSUME NEW d, Committed(d)
  PROVE  /\ LET t == d.tables["accounts"]
            IN  \/ t.cols = {}
                \/ t.cols = {"account"}
                \/ t.cols = {"account"} \cup {"hash", "role"}
         /\ LET t == d.tables["transactions"]
            IN  \/ t.cols = {} /\ t.kinds = {}
                \/ t.cols = TxnColumns
                \/ t.cols = TxnColumns \cup {"reward"}
         /\ d.version = 5 =>
               /\ d.tables["accounts"].cols = {"account"} \cup {"hash", "role"}
               /\ d.tables["transactions"].cols = TxnColumns \cup {"reward"}
<1> DEFINE A == d.tables["accounts"]
           T == d.tables["transactions"]
<1>1. /\ ShapeOf(A) = Bare \/ ShapeOf(A) = S1Accounts \/ ShapeOf(A) = S3Accounts
      /\ ShapeOf(T) = Bare \/ ShapeOf(T) = OldTxns \/ ShapeOf(T) = NewTxns
      /\ d.version = 5 => ShapeOf(A) = S3Accounts /\ ShapeOf(T) = NewTxns
  BY DEF Committed, Stage, Shapes
<1>2. /\ ShapeOf(A).cols = A.cols
      /\ ShapeOf(T).cols = T.cols /\ ShapeOf(T).kinds = T.kinds
  BY DEF ShapeOf
<1>3. /\ Bare.cols = {} /\ Bare.kinds = {}
      /\ S1Accounts.cols = {"account"}
      /\ S3Accounts.cols = {"account"} \cup {"hash", "role"}
      /\ OldTxns.cols = TxnColumns
      /\ NewTxns.cols = TxnColumns \cup {"reward"}
  BY DEF Bare, ShapeOf, NoTable, S1Accounts, S3Accounts, AccountsShape, OldTxns, NewTxns,
         OldTxnsUnindexed, NewTxnsUnindexed, Indexed
<1> HIDE DEF A, T
<1>4. QED
  BY <1>1, <1>2, <1>3 DEF A, T

\* POST /accounts.
LEMMA AccountInserted ==
  ASSUME NEW d, Committed(d), NEW a \in AccountIds, NEW row, NEW u,
         d.tables["accounts"] # NoTable, ~Holds(d, "accounts", a),
         row = [c \in d.tables["accounts"].cols |->
                  [account |-> a, hash |-> Bcrypt(DemoMemberPw), role |-> "member"][c]],
         u.cols = d.tables["accounts"].cols,
         u.rows = d.tables["accounts"].rows \cup {row}
  PROVE  AccountsSound(u)
<1> DEFINE t == d.tables["accounts"]
           Cell == [account |-> a, hash |-> Bcrypt(DemoMemberPw), role |-> "member"]
<1>0. Sound(d) /\ AccountsSound(t) /\ IsTable(t)
  BY DEF Committed, Sound, IsDatabase, TableNames
<1>1. t.cols # {}
  <2>1. SUFFICES ASSUME t.cols = {} PROVE FALSE
    OBVIOUS
  <2>2. t.rows = {}
    BY <1>0, <2>1 DEF AccountsSound, AccountRow
  <2>3. ShapeOf(t) = Bare
    <3>1. ShapeOf(t) = Bare \/ ShapeOf(t) = S1Accounts \/ ShapeOf(t) = S3Accounts
      BY DEF Committed, Stage, Shapes
    <3>2. ShapeOf(t).cols = {}
      BY <2>1 DEF ShapeOf
    <3>3. /\ S1Accounts.cols = {"account"}
          /\ S3Accounts.cols = {"account"} \cup {"hash", "role"}
      BY DEF S1Accounts, S3Accounts, AccountsShape
    <3>4. QED
      BY <3>1, <3>2, <3>3
  <2>4. t = NoTable
    <3>1. /\ ShapeOf(t).cols = Bare.cols /\ ShapeOf(t).kinds = Bare.kinds
          /\ ShapeOf(t).rules = Bare.rules /\ ShapeOf(t).indexed = Bare.indexed
      BY <2>3
    <3> HIDE DEF t
    <3>2. t.cols = {} /\ t.kinds = {} /\ t.rules = {} /\ t.indexed = FALSE
      BY <3>1 DEF ShapeOf, Bare, NoTable
    <3>3. QED
      BY <1>0, <2>2, <3>2 DEF IsTable, NoTable
  <2>5. QED
    BY <2>4
<1>2. t.cols = {"account"} \/ t.cols = {"account"} \cup {"hash", "role"}
  BY <1>1, CommittedColumns
<1>3. Cell.account = a /\ Cell.hash = Bcrypt(DemoMemberPw) /\ Cell.role = "member"
  OBVIOUS
<1>4. DOMAIN row = t.cols /\ \A c \in t.cols : row[c] = Cell[c]
  OBVIOUS
<1> HIDE DEF Cell
<1>5. Bcrypt(DemoMemberPw) \in Hashes /\ "member" \in Roles
  BY LedgerAssumption DEF Hashes, Roles
<1>6. row.account = a
  BY <1>2, <1>3, <1>4
<1>7. AccountRow(row, t.cols)
  BY <1>2, <1>3, <1>4, <1>5, <1>6 DEF AccountRow
<1>8. \A r \in t.rows : r.account # a
  BY DEF Holds
<1>9. u.cols = t.cols /\ u.rows = t.rows \cup {row}
  OBVIOUS
<1> HIDE DEF t
<1>10. QED
  BY <1>0, <1>6, <1>7, <1>8, <1>9 DEF AccountsSound

\* POST .../earn, .../spend and .../redeem.
LEMMA TxnInserted ==
  ASSUME NEW d, Committed(d), NEW ref \in Refs, NEW a \in AccountIds, NEW kind \in Kinds,
         NEW reward \in Rewards \cup {NoReward}, NEW row, NEW u,
         kind \in d.tables["transactions"].kinds, Holds(d, "accounts", a),
         \A r \in d.tables["transactions"].rows : r.ref # ref,
         row = [c \in d.tables["transactions"].cols |->
                  [id |-> Cardinality(d.tables["transactions"].rows) + 1, ref |-> ref,
                   account |-> a, kind |-> kind, points |-> 1, reward |-> reward][c]],
         u.cols = d.tables["transactions"].cols,
         u.rows = d.tables["transactions"].rows \cup {row}
  PROVE  TxnsSound(u, d.tables["accounts"].rows)
<1> DEFINE t == d.tables["transactions"]
           n == Cardinality(t.rows)
           A == d.tables["accounts"].rows
           Cell == [id |-> n + 1, ref |-> ref, account |-> a, kind |-> kind,
                    points |-> 1, reward |-> reward]
<1>0. TxnsSound(t, A)
  BY DEF Committed, Sound
<1>1. n \in Nat
  BY <1>0, FS_CardinalityType DEF TxnsSound
<1>2. t.cols = TxnColumns \/ t.cols = TxnColumns \cup {"reward"}
  BY CommittedColumns
<1>3. DOMAIN row = t.cols /\ \A c \in t.cols : row[c] = Cell[c]
  OBVIOUS
<1> HIDE DEF n
<1>4. /\ Cell.id = n + 1 /\ Cell.ref = ref /\ Cell.account = a /\ Cell.kind = kind
      /\ Cell.points = 1 /\ Cell.reward = reward
  OBVIOUS
<1> HIDE DEF Cell
<1>5. /\ row.id = n + 1 /\ row.ref = ref /\ row.account = a /\ row.kind = kind
      /\ row.points = 1 /\ ("reward" \in t.cols => row.reward = reward)
  BY <1>2, <1>3, <1>4 DEF TxnColumns
<1>6. TxnRow(row, t.cols)
  <2>1. 1 \in Points
    BY LedgerAssumption DEF Points
  <2>2. TxnColumns \subseteq t.cols
    BY <1>2
  <2>3. QED
    BY <1>3, <1>5, <2>1, <2>2 DEF TxnRow
<1>7. \E x \in A : x.account = a
  BY DEF Holds
<1>8. /\ u.cols = t.cols /\ u.rows = t.rows \cup {row}
      /\ \A r \in t.rows : r.ref # ref
  OBVIOUS
<1> HIDE DEF t, A
<1>9. \A r \in t.rows : r.id \in 1 .. n
  BY <1>0 DEF TxnsSound, n
<1>10. row \notin t.rows
  BY <1>5, <1>8
<1>11. IsFiniteSet(u.rows) /\ Cardinality(u.rows) = n + 1
  <2>1. IsFiniteSet(t.rows)
    BY <1>0 DEF TxnsSound
  <2>2. /\ IsFiniteSet(t.rows \cup {row})
        /\ Cardinality(t.rows \cup {row}) = Cardinality(t.rows) + 1
    BY <1>10, <2>1, FS_AddElement
  <2>3. QED
    BY <1>8, <2>2 DEF n
<1>12. \A r \in u.rows : /\ TxnRow(r, u.cols)
                         /\ r.id \in 1 .. (n + 1)
                         /\ \E x \in A : x.account = r.account
  <2>1. row.id \in 1 .. (n + 1)
    BY <1>1, <1>5
  <2>2. \A r \in t.rows : r.id \in 1 .. (n + 1)
    BY <1>1, <1>9
  <2>3. \A r \in t.rows : TxnRow(r, u.cols) /\ \E x \in A : x.account = r.account
    BY <1>0, <1>8 DEF TxnsSound
  <2>4. TxnRow(row, u.cols) /\ \E x \in A : x.account = row.account
    BY <1>5, <1>6, <1>7, <1>8
  <2>5. QED
    BY <1>8, <2>1, <2>2, <2>3, <2>4, Zenon
<1>13. \A r \in t.rows : r.id # row.id /\ r.ref # row.ref
  BY <1>1, <1>5, <1>8, <1>9
<1>14. \A r, s \in u.rows : r.ref = s.ref \/ r.id = s.id => r = s
  BY <1>0, <1>8, <1>13 DEF TxnsSound
<1>15. TxnsSound(u, A)
  BY <1>11, <1>12, <1>14 DEF TxnsSound
<1>16. QED
  BY <1>15 DEF A

-----------------------------------------------------------------------------
(***************************************************************************)
(* The invariant.                                                          *)
(***************************************************************************)
LEMMA MigInvInit ==
  ASSUME MigrationInit
  PROVE  MigInv
<1>1. release \in 1 .. 5
  BY ScriptLength DEF MigrationInit
<1>2. /\ log = <<NewDatabase>> /\ Len(log) = 1 /\ log[1] = NewDatabase
      /\ log \in Seq({log[i] : i \in 1 .. Len(log)})
  <2>1. log = <<NewDatabase>> /\ log \in Seq({NewDatabase})
    BY DEF MigrationInit
  <2>2. Len(log) = 1 /\ log[1] = NewDatabase
    BY <2>1
  <2>3. log \in Seq({log[i] : i \in 1 .. Len(log)})
    BY <2>1, OwnRange
  <2>4. QED
    BY <2>1, <2>2, <2>3
<1>3. Current = NewDatabase
  BY <1>2 DEF Current, Last
<1>4. Committed(NewDatabase)
  <2>1. /\ NewDatabase.version = 0
        /\ NewDatabase.tables = [n \in TableNames |-> NoTable]
        /\ NewDatabase = [version |-> NewDatabase.version, tables |-> NewDatabase.tables]
    BY DEF NewDatabase
  <2>2. \A n \in TableNames : NewDatabase.tables[n] = NoTable
    BY <2>1
  <2>3. NoTable.rows = {} /\ IsTable(NoTable)
    BY DEF NoTable, IsTable
  <2>4. /\ NewDatabase.tables["accounts"] = NoTable
        /\ NewDatabase.tables["transactions"] = NoTable
        /\ NewDatabase.tables["transactions_new"] = NoTable
        /\ NewDatabase.tables["audit_log"] = NoTable
    BY <2>2 DEF TableNames
  <2>5. IsDatabase(NewDatabase)
    BY <2>1, <2>2, <2>3 DEF IsDatabase
  <2>6. Sound(NewDatabase)
    BY <2>3, <2>4, <2>5, EmptyIsSound DEF Sound
  <2>7. Stage(NewDatabase, 0, 0) /\ Seeded(NewDatabase, 0, 0)
    BY <2>4 DEF Stage, Shapes, Bare, Seeded
  <2>8. QED
    BY <2>1, <2>6, <2>7 DEF Committed
<1>5. LogInv
  <2>1. \A i \in 1 .. Len(log) : log[i] = NewDatabase
    BY <1>2
  <2>2. \A i, j \in 1 .. Len(log) : \A n \in {"accounts", "transactions"} :
           Carries(log[j].tables[n].rows, log[i].tables[n].rows)
    BY <2>1, CarriesItself
  <2>3. log # <<>>
    BY <1>2
  <2>4. QED
    BY <1>2, <1>4, <2>1, <2>2, <2>3 DEF LogInv
<1>6. ProcInv
  BY <1>1, <1>3 DEF ProcInv, MigrationInit
<1>7. Underway(Current, work, Current.version, step)
  BY <1>3, <1>4, AtRest DEF MigrationInit
<1>8. QED
  BY <1>5, <1>6, <1>7 DEF MigInv

\* Between transactions there is little left to show.
LEMMA Quiet ==
  ASSUME LogInv', release' \in 1 .. 5, step' = 0, work' = Current',
         proc' = "serving" => Current'.version >= release'
  PROVE  MigInv'
<1>1. Committed(Current)'
  BY CurrentCommitted, PTL
<1>2. Underway(Current', Current', Current'.version, 0)
  BY <1>1, AtRest
<1>3. Underway(Current, work, Current.version, step)'
  BY <1>2
<1>4. ProcInv'
  BY DEF ProcInv
<1>5. QED
  BY <1>3, <1>4 DEF MigInv

\* Statement, CommitMigration and the clients work on what is committed.
LEMMA StatementKeepsMigInv ==
  ASSUME MigInv, Statement
  PROVE  MigInv'
<1> DEFINE v == Current.version
<1>0. /\ LogInv /\ ProcInv /\ Underway(Current, work, v, step)
      /\ release' = release /\ log' = log /\ proc' = proc /\ step' = step + 1
      /\ Migrating /\ step < Len(Pending)
  BY DEF MigInv, Statement
<1>1. v \in 0 .. 4 /\ Pending = Script[v + 1]
  BY <1>0, CurrentCommitted DEF Committed, Migrating, ProcInv, Pending
<1>2. Len(Pending) \in Nat /\ step \in Nat
  <2>1. v + 1 \in {1, 2, 3, 4, 5}
    BY <1>1
  <2>2. Len(Pending) \in Nat
    BY <1>1, <2>1, ScriptLength
  <2>3. QED
    BY <1>0, <2>2 DEF ProcInv
<1>3. Current' = Current /\ Pending' = Pending /\ Migrating'
  BY <1>0 DEF Current, Pending, Migrating
<1>4. Underway(Current, work', v, step + 1)
  <2>1. work' = Execute(work, Script[v + 1][step + 1])
    BY <1>1 DEF Statement
  <2>2. ~Refused(work, Script[v + 1][step + 1])
    BY <1>1 DEF Statement
  <2> HIDE DEF v
  <2>3. QED
    BY <1>0, <1>1, <1>2, <2>1, <2>2, OneStatement
<1>5. Underway(Current, work, Current.version, step)'
  BY <1>0, <1>3, <1>4
<1>6. LogInv'
  BY <1>0 DEF LogInv
<1>7. ProcInv'
  <2>1. step' \in 0 .. Len(Pending) /\ step' # 0
    BY <1>0, <1>2
  <2>2. QED
    BY <1>0, <1>3, <2>1 DEF ProcInv
<1>8. QED
  BY <1>5, <1>6, <1>7 DEF MigInv

LEMMA CommitKeepsMigInv ==
  ASSUME MigInv, CommitMigration
  PROVE  MigInv'
<1> DEFINE v == Current.version
           done == [work EXCEPT !.version = @ + 1]
<1>0. /\ LogInv /\ ProcInv /\ Underway(Current, work, v, step)
      /\ release' = release /\ log' = Append(log, done) /\ proc' = proc
      /\ work' = done /\ step' = 0 /\ Migrating /\ step = Len(Pending)
  BY DEF MigInv, CommitMigration
<1>1. v \in 0 .. 4 /\ Pending = Script[v + 1]
  BY <1>0, CurrentCommitted DEF Committed, Migrating, ProcInv, Pending
<1>2. /\ Committed(done)
      /\ \A n \in {"accounts", "transactions"} :
            Carries(done.tables[n].rows, Current.tables[n].rows)
  <2>1. step = Len(Script[v + 1])
    BY <1>0, <1>1
  <2> HIDE DEF v
  <2>2. QED
    BY <1>0, <1>1, <2>1, Finished
<1> HIDE DEF done
<1>3. LogInv' /\ Current' = done
  BY <1>0, <1>2, LogGrows
<1>4. release' \in 1 .. 5 /\ proc' # "serving"
  BY <1>0 DEF ProcInv, Migrating
<1>5. QED
  BY <1>0, <1>3, <1>4, Quiet

LEMMA InsertKeepsMigInv ==
  ASSUME MigInv, NEW n \in {"accounts", "transactions"}, NEW row, Insert(n, row),
         \A u : /\ u.cols = Current.tables[n].cols
                /\ u.rows = Current.tables[n].rows \cup {row}
                => /\ n = "accounts" => AccountsSound(u)
                   /\ n = "transactions" =>
                         TxnsSound(u, Current.tables["accounts"].rows)
  PROVE  MigInv'
<1> DEFINE e == [Current EXCEPT !.tables[n].rows = @ \cup {row}]
<1>0. /\ LogInv /\ ProcInv /\ Committed(Current)
      /\ release' = release /\ log' = Append(log, e) /\ proc' = proc
      /\ work' = Last(log') /\ step' = step /\ proc = "serving"
  BY CurrentCommitted DEF MigInv, Insert
<1>1. step = 0
  BY <1>0 DEF ProcInv, Migrating
<1>2. /\ Committed(e) /\ e.version = Current.version
      /\ \A m \in {"accounts", "transactions"} :
            Carries(e.tables[m].rows, Current.tables[m].rows)
  <2> DEFINE u == [cols |-> Current.tables[n].cols,
                   rows |-> Current.tables[n].rows \cup {row}]
  <2>1. /\ u.cols = Current.tables[n].cols
        /\ u.rows = Current.tables[n].rows \cup {row}
    OBVIOUS
  <2> HIDE DEF u
  <2>2. /\ n = "accounts" => AccountsSound(u)
        /\ n = "transactions" => TxnsSound(u, Current.tables["accounts"].rows)
    BY <2>1
  <2>3. QED
    BY <1>0, <2>1, <2>2, Inserted
<1> HIDE DEF e
<1>3. LogInv' /\ Current' = e
  BY <1>0, <1>2, LogGrows
<1>4. work' = Current'
  BY <1>0 DEF Current
<1>5. Current'.version >= release' /\ release' \in 1 .. 5
  BY <1>0, <1>2, <1>3 DEF ProcInv
<1>6. QED
  BY <1>0, <1>1, <1>3, <1>4, <1>5, Quiet

LEMMA MigInvStep ==
  ASSUME MigInv, [MigrationNext]_migrationVars
  PROVE  MigInv'
<1>0. /\ LogInv /\ ProcInv /\ Committed(Current)
      /\ release \in 1 .. 5
  BY CurrentCommitted DEF MigInv, ProcInv
<1>a. ASSUME log' = log PROVE LogInv' /\ Current' = Current
  BY <1>0, <1>a DEF LogInv, Current
<1>b. ASSUME log' = log, work' = work, step' = step, step = 0, release' \in 1 .. 5,
             proc' = "serving" => Current.version >= release'
      PROVE  MigInv'
  <2>1. work = Current
    BY <1>0, <1>b DEF ProcInv
  <2>2. QED
    BY <1>a, <1>b, <2>1, Quiet
<1>1. CASE Start
  <2>1. step = 0
    BY <1>0, <1>1 DEF Start, ProcInv, Migrating
  <2>2. QED
    BY <1>0, <1>1, <1>b, <2>1 DEF Start
<1>2. CASE Statement
  BY <1>2, StatementKeepsMigInv
<1>3. CASE StatementRefused \/ Stop
  <2>1. Exit
    BY <1>3 DEF StatementRefused, Stop
  <2>2. QED
    BY <1>0, <1>a, <2>1, Quiet DEF Exit
<1>4. CASE CommitMigration
  BY <1>4, CommitKeepsMigInv
<1>5. CASE Listen
  <2>1. step = 0
    BY <1>0, <1>5, CurrentCommitted DEF Listen, ProcInv, Migrating, Committed
  <2>2. QED
    BY <1>0, <1>5, <1>b, <2>1 DEF Listen
<1>6. ASSUME NEW a \in OldAccounts, InsertAccount(a)
      PROVE  MigInv'
  <2> DEFINE row == [c \in Current.tables["accounts"].cols |->
                       [account |-> a, hash |-> Bcrypt(DemoMemberPw),
                        role |-> "member"][c]]
  <2>1. /\ Insert("accounts", row) /\ ~Holds(Current, "accounts", a)
        /\ Current.tables["accounts"] # NoTable /\ a \in AccountIds
    BY <1>6, MigrationsAssumption DEF InsertAccount
  <2>2. ASSUME NEW u, u.cols = Current.tables["accounts"].cols,
               u.rows = Current.tables["accounts"].rows \cup {row}
        PROVE  AccountsSound(u)
    BY <1>0, <2>1, <2>2, AccountInserted
  <2> HIDE DEF row
  <2>3. QED
    BY <2>1, <2>2, InsertKeepsMigInv
<1>7. ASSUME NEW ref \in Refs, NEW a \in AccountIds, NEW kind \in Kinds,
             NEW reward \in Rewards \cup {NoReward},
             InsertTransaction(ref, a, kind, reward)
      PROVE  MigInv'
  <2> DEFINE row == [c \in Current.tables["transactions"].cols |->
                       [id |-> Cardinality(Current.tables["transactions"].rows) + 1,
                        ref |-> ref, account |-> a, kind |-> kind, points |-> 1,
                        reward |-> reward][c]]
  <2>1. /\ Insert("transactions", row) /\ Holds(Current, "accounts", a)
        /\ kind \in Current.tables["transactions"].kinds
        /\ \A r \in Current.tables["transactions"].rows : r.ref # ref
    BY <1>7 DEF InsertTransaction
  <2>2. ASSUME NEW u, u.cols = Current.tables["transactions"].cols,
               u.rows = Current.tables["transactions"].rows \cup {row}
        PROVE  TxnsSound(u, Current.tables["accounts"].rows)
    BY <1>0, <2>1, <2>2, TxnInserted
  <2> HIDE DEF row
  <2>3. QED
    BY <2>1, <2>2, InsertKeepsMigInv
<1>8. CASE Upgrade
  <2>1. step = 0
    BY <1>0, <1>8 DEF Upgrade, ProcInv, Migrating
  <2>2. release' \in 1 .. 5 /\ proc' # "serving"
    BY <1>0, <1>8, ScriptLength DEF Upgrade
  <2>3. QED
    BY <1>8, <1>b, <2>1, <2>2 DEF Upgrade
<1>9. CASE LosePower
  <2>1. PICK n \in 1 .. Len(log) :
           /\ log' = SubSeq(log, 1, n) /\ work' = log[n] /\ step' = 0
           /\ proc' = "down" /\ release' = release
    BY <1>9 DEF LosePower
  <2>2. LogInv' /\ Current' = log[n]
    BY <1>0, <2>1, LogShrinks
  <2>3. QED
    BY <1>0, <2>1, <2>2, Quiet
<1>10. CASE UNCHANGED migrationVars
  <2>1. /\ release' = release /\ log' = log /\ work' = work /\ step' = step
        /\ proc' = proc
    BY <1>10 DEF migrationVars
  <2>2. LogInv' /\ Current' = Current
    BY <1>a, <2>1
  <2>3. ProcInv'
    BY <1>0, <2>1, <2>2 DEF ProcInv, Migrating, Pending
  <2>4. QED
    BY <2>1, <2>2, <2>3 DEF MigInv
<1>11. QED
  BY <1>1, <1>2, <1>3, <1>4, <1>5, <1>6, <1>7, <1>8, <1>9, <1>10
     DEF MigrationNext, Migrate, Client, Trouble

-----------------------------------------------------------------------------
(***************************************************************************)
(* The theorems.                                                           *)
(***************************************************************************)
\* Whatever releases were installed, wherever their migrations were cut short
\* and whatever commits a power loss took back: every committed database has
\* the schema of its version, sound rows and the rows of the ones before it,
\* and a pending migration has got exactly as far as its statements say
\* (sqlite.go:65-80).
THEOREM MigrationInvariance == MigrationSpec => []MigInv
<1>1. MigrationInit => MigInv
  BY MigInvInit
<1>2. MigInv /\ [MigrationNext]_migrationVars => MigInv'
  BY MigInvStep
<1>3. QED
  BY <1>1, <1>2, PTL DEF MigrationSpec

\* No committed database is half-migrated, for any number of crashes, upgrades
\* and clients' rows.
THEOREM NeverHalfMigrated == MigrationSpec => []SchemaMatchesVersion
<1>1. MigInv => SchemaMatchesVersion
  BY StageSchema DEF MigInv, LogInv, Committed, SchemaMatchesVersion
<1>2. QED
  BY <1>1, MigrationInvariance, PTL

\* No migration, and no crash in one, loses or alters a row that was committed
\* and that the power loss left (s8_redeem_kind.sql:18-22).
THEOREM RowsSurvive == MigrationSpec => []DataSurvives
<1>1. ASSUME MigInv PROVE DataSurvives
  <2> SUFFICES ASSUME NEW i \in 1 .. Len(log), NEW j \in 1 .. Len(log), i <= j,
                      NEW n \in {"accounts", "transactions"},
                      NEW r \in log[i].tables[n].rows
               PROVE  \E s \in log[j].tables[n].rows : \A c \in DOMAIN r : s[c] = r[c]
    BY DEF DataSurvives
  <2>1. Carries(log[j].tables[n].rows, log[i].tables[n].rows)
    BY <1>1 DEF MigInv, LogInv
  <2>2. QED
    BY <2>1 DEF Carries, Kept
<1>2. QED
  BY <1>1, MigrationInvariance, PTL

\* The database that this release serves is one of Ledger's, with rows of any
\* earlier release in it (main.go:84-105).
THEOREM ServedLedger == MigrationSpec => []ServesALedger
<1>1. ASSUME MigInv, proc = "serving", release = Len(Script)
      PROVE  LET A == Current.tables["accounts"].rows
                 T == Current.tables["transactions"].rows
             IN  /\ \A r \in A : Widened(r, "table", "accounts") \in Account
                 /\ \A t \in T :
                       /\ [table |-> "transactions", ref |-> t.ref,
                           account |-> t.account, kind |-> t.kind, points |-> t.points,
                           reward |-> t.reward] \in Transaction
                       /\ \E r \in A : r.account = t.account
                 /\ \A t, u \in T : t.ref = u.ref \/ t.id = u.id => t = u
                 /\ \A r, s \in A : r.account = s.account => r = s
                 /\ DemoRows \subseteq A
  <2> DEFINE accounts == Current.tables["accounts"]
             txns == Current.tables["transactions"]
  <2>1. Committed(Current) /\ Current.version = 5
    BY <1>1, CurrentCommitted, ScriptLength DEF MigInv, ProcInv, Committed
  <2>2. /\ AccountsSound(accounts) /\ TxnsSound(txns, accounts.rows)
        /\ DemoRows \subseteq accounts.rows
    BY <2>1 DEF Committed, Sound, Seeded
  <2>3. /\ accounts.cols = {"account"} \cup {"hash", "role"}
        /\ txns.cols = TxnColumns \cup {"reward"}
    BY <2>1, CommittedColumns
  <2> HIDE DEF accounts, txns
  <2>4. ASSUME NEW r \in accounts.rows
        PROVE  Widened(r, "table", "accounts") \in Account
    <3>1. AccountRow(r, {"account"} \cup {"hash", "role"})
      BY <2>2, <2>3 DEF AccountsSound
    <3>2. /\ DOMAIN r = {"account"} \cup {"hash", "role"}
          /\ r.account \in AccountIds /\ r.hash \in Hashes /\ r.role \in Roles
      BY <3>1 DEF AccountRow
    <3>3. Widened(r, "table", "accounts") =
             [table |-> "accounts", account |-> r.account, hash |-> r.hash,
              role |-> r.role]
      BY <3>2 DEF Widened
    <3>4. QED
      BY <3>2, <3>3 DEF Account
  <2>5. ASSUME NEW t \in txns.rows
        PROVE  /\ [table |-> "transactions", ref |-> t.ref, account |-> t.account,
                   kind |-> t.kind, points |-> t.points,
                   reward |-> t.reward] \in Transaction
               /\ \E r \in accounts.rows : r.account = t.account
    <3>1. /\ TxnRow(t, TxnColumns \cup {"reward"})
          /\ \E r \in accounts.rows : r.account = t.account
      BY <2>2, <2>3 DEF TxnsSound
    <3>2. QED
      BY <3>1 DEF TxnRow, Transaction
  <2>6. /\ \A t, u \in txns.rows : t.ref = u.ref \/ t.id = u.id => t = u
        /\ \A r, s \in accounts.rows : r.account = s.account => r = s
    BY <2>2 DEF TxnsSound, AccountsSound
  <2>7. QED
    BY <2>2, <2>4, <2>5, <2>6 DEF accounts, txns
<1>2. MigInv => ServesALedger
  BY <1>1 DEF ServesALedger
<1>3. QED
  BY <1>2, MigrationInvariance, PTL

=============================================================================
