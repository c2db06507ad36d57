# gowallet: TLA+ models, checks and proofs

gowallet is a loyalty-points wallet: an HTTP API over a SQLite ledger of earns,
spends and redemptions. This directory holds TLA+ modules translated from its
source, the TLC configurations that check them on small instances, and
theorems that TLAPS proves for every instance.

## 1. The system

| Component | State it keeps | Operations | What makes it correct |
|---|---|---|---|
| Ledger transaction, `internal/sqlitestore/accounts.go` | the rows of `transactions` | `RecordTransaction` | a ref counts once, no overdraft, the answer is the stored row |
| Accounts and reads, `internal/sqlitestore/accounts.go` | the rows of `accounts` | `CreateAccount`, `GetAccount`, `GetCredential`, `Balance`, `ListAccounts`, `ListTransactions` | an id is created once; the three ways to see a balance agree; a read answers for one committed state |
| Audit log, `internal/sqlitestore/audit.go` | the rows of `audit_log` | `AppendAudit`, `ListAudit` | append-only, in order |
| Pool and SQLite, `internal/sqlitestore/sqlite.go` | one connection, the write-ahead log | `Open`, `Ping` | never busy, never leaked, a crash loses nothing committed |
| Services, `internal/wallet` | none | `RecordEarn/Spend/Redeem`, `Login`, `Authorize`, `Check` | the kind is forced, roles come from the store |
| Handlers, `internal/httpapi` | none (identity in the request context) | one handler per operation, validator, Authenticator | members touch and see their own account only; 201 means new and stored |
| Tokens, `internal/httpapi/auth.go` | the signing key, the clients' tokens | `IssueToken`, `verifyToken` | a token is handed out for a stored secret only; it expires |
| Batch, `internal/httpapi/batch.go` | a summary per request | `IngestBatch` | every row is counted in one bucket and audited after it; a file may be sent again |
| Migrations, `internal/sqlitestore/migrations` | the schema and its version | `Migrate` | no database is half-migrated, no row is lost, an interrupted start can be repeated |
| Startup, `cmd/gowallet` | configuration | `loadConfig`, `run` | refuses to start without a secret; serves only a migrated database |
| Infra routes, generated server | none | static files; routing, parameters, middlewares | checks run in one order for every route |

How they interact: `net/http` runs every handler on a goroutine of its own. A
handler authenticates, validates and authorizes, then calls a service, which
calls the store; all goroutines share one `*sql.DB`, whose pool has ONE
connection (`SetMaxOpenConns(1)`). There is no other shared state. Handlers
wait for the connection, never for each other.

What is hard: requests with the same ref or for the same points interleave
between the statements of a transaction; a client hangs up (its context is
cancelled) at any statement; a statement fails; the process stops between a
commit and the answer and the client retries; the machine loses power under
`synchronous(NORMAL)`; an `int64` sum overflows; a return path could keep the
only connection. An upload is a long sequence of store calls that can stop
between the money and its audit entry, beside other uploads of the same file; a
migration can stop at any statement on a database of any earlier release; a
token outlives the second, the configuration and the process it was made in.
`PROJECT.json` lists these hazards at their lines.

## 2. The modules

- **Ledger** - the rows and the SQL queries as operators. Every writing
  statement of the program inserts one row, and nothing is updated or deleted,
  so a database is the sequence of its rows in commit order; that is also the
  order in which the write-ahead log holds them. `PartialSums` is SQLite's `SUM`
  after each row and `Total` its result. `Balance` is the last of the partial sums
  of an account (`RunningSum`), `Overflows` says that one of them leaves `int64`
  (`SUM` fails then). `TransactionsOf` filters the log, row by row, for one account;
  `ListAccountsWithBalance` adds its rows up with its own copy of the balance
  formula, as the SQL has, and `ListTransactionsByAccount` shows them newest first.
- **Points** - the abstract wallet: accounts are opened, a ref moves points
  once, a deduction never exceeds the balance. No database, no callers.
- **Store** - `internal/sqlitestore` with its concurrent callers. `pc[p]` is
  the statement caller `p` executes next. `RecordTransaction` is six actions,
  one per statement: `BeginTx`, `LookupAccount`, `InsertTransaction`,
  `CheckBalance`, `ReadBack`, `Commit`; each early return of the code is a
  disjunct that ends in `Leave`, the deferred `Rollback`. `Balance` and
  `ListTransactions` are two statements with no transaction around them. The
  other calls are one statement each. `Disconnect`/`Cancelled`, `Fault`,
  `Crash` and `PowerLoss` are the failures.
- **Api** - the handlers over the services, extending Store. `Receive` is
  everything up to the first store call: the route (`Routes`, `KnownPaths`), the
  decoding of the parameters, then `Middlewares` in the order the generated
  wrappers nest them (`Validator`, token), then authorization and the secret's
  length; `Checks` is that list and `EdgeStatus` the answer of the first check
  that refuses. `Reply` is the answer (`Status`, `Body`), `LoseReply` an answer
  that does not arrive. `sent` is the answer of the step just taken; `tokens` and
  `acked` are what clients know and survive a crash.
- **Batch** - `POST /batch`, extending Store. `job[p]` is the upload that
  handler `p` works on. `IngestBatch` starts it (or it is refused,
  `UploadStatus`); every record is either `RejectRow` (a line that csv cannot
  split, a row that does not parse or that the service refuses) or `RecordRow`,
  the store call of a single request, followed by `AuditRow`, which classifies
  its result, counts it and appends the audit entry in a second store call.
  `EndBatch` answers the summary. `Progress` is a statement of the store,
  `Trouble` a hang-up or a fault in it, `Other` a handler that serves something
  else, `BatchCrash` the end of the process or of the power. The field `mine`,
  the rows that this upload committed, is there for the properties only.
- **Tokens** - the configuration (`Boots`, `loadConfig`), the token a login
  mints (`IssueToken`, with `exp` in whole seconds), `verifyToken`, and the
  Authenticator that is only mounted when there is a secret (`Admitted`), with a
  clock of `TicksPerSecond` ticks, restarts and changed secrets.
- **Migrations** - `run` up to serving: every statement of every Up migration
  (`Script`, `Execute`, `Refused`), the transaction and the version row that
  goose puts around each (`CommitMigration`), stops and power losses at any
  point, and clients that write into databases of every release (`release` is
  how many migrations the installed binary has). `log` is the sequence of
  committed databases.
- **MCStore**, **MCApi**, **MCBatch**, **MCTokens**, **MCMigrations** - the
  calls, requests, files, TTLs and rows of the small instances.
- **LedgerProofs**, **StoreProofs**, **PromiseProofs** (the store), **ApiProofs**,
  **BatchProofs**, **UploadProofs** (the batch), **TokensProofs**,
  **MigrationsProofs** - lemmas and theorems.

How they compose: Api and Batch each extend Store and are shown to implement it
(`ImplementsStore`, `BatchUsesStore`), Store implements Points; Migrations ends
in the database that Store starts from (`ServesALedger`). Tokens stands beside
them: in Api a token is the identity in it, and Tokens says how long it is
accepted.

Definitions whose comment begins with "Mutant:" are wrong variants of the next
definition. They are used by nothing; each stands for a plausible bug, and
replacing the real definition by it makes TLC report the property that
`PROJECT.json` pairs it with.

Abstractions. Names, timestamps, the audit reason, error texts and headers are
left out: the code carries them and decides nothing by them. An account id, a
ref, a reward and a secret are model values. A bcrypt hash is a record that only
its secret matches. In Api a token is the identity in it, and clients can present
only tokens that a login gave them (HS256, a secret key). Validation is modelled
for the fields that matter to the rules (points, kind, reward, secret length),
and a parameter that cannot be decoded is the value `Malformed`. A CSV record is
what the reader and `parseRow` tell apart. A table of Migrations is its columns,
kinds, constraints, index and rows; `audit_log` has no rows there, because no
migration touches them.

External behaviour, modelled from how the code uses it: the pool gives a
connection to one caller at a time; `BEGIN` is deferred, so the first `SELECT`
takes the snapshot and an `INSERT` fails when another connection holds the write
lock or the snapshot is old; a cancelled context makes the waiting call, the
statement or the `Commit` fail and the transaction roll back; a `Commit` that
reports an error did not commit; a power loss keeps a prefix of the commits
that contains the migrated database. A statement also fails when the disk has no
room for one more audit row (`MaxAudit`). csv.Reader goes on behind a line it
cannot split, and returns the same error again when the file below it fails.
goose applies pending migrations in order, each in one transaction with its
version row. A JWT is accepted only under the secret that signed it, strictly
before `exp`. The clock does not go back.

## 3. The runs

Constants: accounts `member` and `admin` (seeded) and `guest` (created by a
request), two callers, three refs (two in Api and Batch), `MaxInt64 = 3` (2 in
`store_live`).

| Run | Question |
|---|---|
| `store_safe` | `TypeOK` (no leaked connection), `NeverBusy`, `RefCountedOnce`, `NoOverdraft`, `KeysHold`, `TxSound`, `AnswerIsStored`, `RefusalJustified` (a 409 is true of the committed balance), `OverflowFreezes`, `ReadsAgree` (the account list, the balance and the listing tell the same balance), `ReadsOneState` (a read of two statements answers for one committed state in which the account exists), with every failure, a power loss included |
| `store_live` | `CallReturns`: every call comes back; `ImplementsPoints`: the refinement |
| `api_money` | `AckedOnceAndForAll`, `OnlyOwnerOrAdminMoves`, with lost answers, retries and crashes; `CreatorOwns` (two creations of one id race), `CreateSticks` (a creation whose read-back fails, answered 500, still left the account with its secret), `TokenEarned`, `MemberReadsOwn` |
| `api_admin` | `ApiTypeOK` with admin, invalid, off-contract, infra and malformed requests, and `ImplementsStore`: the handlers use the store as Store allows, so what holds of Store holds below Api |
| `batch_money` | `SummaryTruthful`, `AuditFollowsMoney`, `CleanMeansApplied` (after a clean answer every ref of the file is in the ledger, and the row itself if nothing was a duplicate or if its ref means one row, `Settled`): two uploads of one file and a single transaction race for the same refs, with every failure |
| `batch_live` | `BatchTypeOK` (every record read is counted), `BatchUsesStore` (refinement) and `UploadEnds` (the loop over a readable file ends, and so does every other call meanwhile), with every way to be rejected and refused |
| `tokens` | `TokenTypeOK`, `LifeWithinASecond`, `AdmittedFresh`, through restarts and changed secrets |
| `migrations` | `SchemaMatchesVersion`, `DataSurvives`, `ServesALedger` over every chain of releases, and `ComesUpUnlessTaken`: a server that is left alone serves, however often it was stopped before |
| `api_wires`, `api_redeem`, `batch_unreadable`, `migrations_seed` | violations, see section 5 |

Why the bounds are enough. Two callers suffice for every race: a transaction
holds the only connection, so at most one caller is inside one and the other
stands for everybody who waits or comes next. The calls are chosen so that the
interesting cases happen: an earn and a spend with the same ref, a ref used for
two accounts, deductions of 2 and 1 from a balance of 2, an account that exists
only after somebody creates it and is listed meanwhile, a balance that is read
while it changes and overflows, two earns whose sum exceeds `MaxInt64` (so 3 is
enough for the overflow and for every comparison the code makes). The theorems
remove the bounds for every safety property. `MaxAudit` bounds the audit rows:
it is the room on the disk, and an insert beyond it fails; everything else is
bounded by the refs and the account ids.

Batch. A file of two rows, in which the second needs the points of the first,
is the shortest in which a stop can fall between two rows; the other request
uses the ref of the second row for another transaction, and nothing but the file
uses the ref of the first, so that both cases of `Settled` occur. `MaxAudit` is 2, so that the log has room for
both entries and fills up when the file is sent twice. Files with rejected rows
are in `batch_live`, with a broken line, a wrong number of fields, a missing
ref, an unknown account that somebody creates meanwhile, no rows and the wrong
role; there `MaxAudit` is 1, so that the disk is full after one entry. `MaxRows`
bounds the counters, and is larger than any readable file.

Tokens. Three ticks to a second give every position of a mint within its second
(on it, below and above the half); the TTLs are two seconds (the default), a
broken number of seconds, less than a second and a negative one; eight ticks are
longer than the longest TTL.

Migrations. All five migrations with all statements; two transactions (so that a
copy could swap ids) and two accounts, one of which a later migration seeds.
`OldAccounts` are those that clients create; `migrations_seed` has only the one
that is seeded.

Answers. `sent` is the answer of the step just taken and is empty otherwise:
a property of an answer is checked when it is sent, and what must stay true of
it afterwards is said of `acked` and `tokens`, which are kept.

Fairness. `store_live`: `SF` on the work of a caller: database/sql hands a
freed connection to one of the waiting requests, picked at random from a map, so
a caller that can repeatedly get it does in the end; a goroutine that is
runnable is run. `WF` on `Cancelled` (a cancelled context wakes the waiter) and
on `Return`. `batch_live` has the same, and `WF` on the handler's own steps, which
are plain computation. `migrations`: `WF` on `Start`, because somebody or a
supervisor starts the server again, and on `Migrate`, because its process runs;
`ComesUpUnlessTaken` claims nothing while stops, power losses and upgrades go
on. Nothing is assumed of clients, of failures or of crashes.

## 4. What is proved

`StoreProofs` proves, for any number of callers, accounts, refs and any
`MaxInt64`, of `PowerSpec` (the system with crashes and power losses):

- `TypeCorrect`: `[]TypeOK` - in particular exactly the callers between `BeginTx`
  and the end of `RecordTransaction` hold a connection;
- `Unlocked`: `[]NeverBusy`;  `Isolation`: `[]TxSound`;
- `Idempotence`: `[]RefCountedOnce`;  `Solvency`: `[]NoOverdraft`;
  `Integrity`: `[]KeysHold`.

Assumptions: `LedgerAssumption` (the seeded accounts are two different accounts,
`MaxInt64` is positive, the special values are not ordinary ones) and
`StoreAssumption` (callers make calls of the store's interface). TLC evaluates
both on every run.

The argument. None of the last three is inductive alone: a `Commit` appends
`ins[p]` without looking at the ledger again, so that it keeps the keys only if
what earlier statements of the same transaction found is still true. `TxSound`
says that: there is at most one transaction, its snapshot is the current
database, its row has an account and a new ref and, past the check, a balance
that covers it. `TxSound` itself needs the pool: no statement of anybody else
runs while `tx` is not empty (`FreeMeansNone`), and `tx` is the set of callers
inside the transaction (`TypeOK`). So the inductive invariant is
`IInv == TypeOK /\ TxSound /\ DbSound /\ NeverBusy`, with
`DbSound == RefCountedOnce /\ KeysHold /\ NoOverdraft`. `NoOverdraft` and
`KeysHold` speak of every prefix of the log because `PowerLoss` may bring any
prefix back (`PrefixSound`); `AppendSound` is the step for a commit. There is one
lemma per group of actions (`RecordKeeps`, `PoolKeeps`, `RestKeeps`,
`RestartKeeps`), combined in `NextKeeps`.

`LedgerProofs` holds what is needed of the two recursive functions of Ledger.
Of `PartialSums`: that it is well defined (`SumExists`, `SumDef`), what one more
member adds (`TotalAppend`), and that a sum is the same from the other end
(`TotalReverse`); of `RunningSum`, that it is an integer (`SumInt`) and what it is for
an extended or a shortened ledger (`SumPrefix`, `SumAppend`, `SumSubSeq`). Of
`TransactionsOf`: that it is well defined (`HistoryExists`, `HistoryDef`), holds rows
of its account only and is worth the balance (`HistoryAddsUp`), and what follows for
the two queries over it (`ListingAddsUp`, `AccountListAddsUp`, `ListingIsOwn`). The
inductions are by the least counterexample (`LeastNat`, from the well-foundedness of
`<` on the naturals), which needs no induction rule with an operator parameter.

`PromiseProofs` proves what the store promises its callers:

- `TrueAnswers`: `[]AnswerIsStored`;  `Freezing`: `[]OverflowFreezes`;
  `JustRefusals`: `RefusalJustified`, an action property; `NoDrift`:
  `[]ReadsAgree`;  `TrueReads`: `[]ReadsOneState`; all of `PowerSpec`;
- `StoreIsAWallet`: `Spec => ImplementsPoints`, the refinement. Of `Spec`, without
  power losses: a wallet does not forget.

An answer is given after the last statement of its call, so what it says must be
followed through the transaction. That is `Promised`, inductive beside `IInv`:
`Underway(p)` says what a transaction past its insert, its check and its read-back
has found, `Answered(p)` that a finished call was told what the ledger holds
(nothing is ever updated, so it goes on holding while the caller waits, and a
power loss takes the callers with it), and `OverflowFreezes` is carried along:
the check that a deduction passed is of the very log it is appended to. For
`ReadsOneState` the invariant `Readers` follows a read over its two statements:
between them the account is there, and what was read afterwards stays a prefix of
the log (`PrefixesStay`). `Accountability` says that every transaction of the
ledger is the row of one of the `Calls`. For the
refinement a `Commit` and an account insert map to one step of Points, everything
else to a stutter; `TxSound` supplies Points' guards. `StepApart`
and `Growth` say once that a step moves one caller and appends at most a row;
`MoverKeeps` and `OthersKeep` are then the two halves of the invariant's step, and
`WalletStep` is the refinement's.

`ApiProofs` proves of `ApiSpec`, for all requests, any number of handlers and every
lost answer, retry, hang-up, fault and crash:

- `HandlersUseTheStore`: `ImplementsStore`, and with it `ServerIsAWallet`:
  `ImplementsPoints`;
- `Authorization`: `OnlyOwnerOrAdminMoves`;  `LoginEarnsToken`: `TokenEarned`;
- `ExactlyOnce`: `[]AckedOnceAndForAll`;
- `OwnershipOfNewAccounts`: `[]CreatorOwns`;  `ReadBackFindsOwn`:
  `[]CreateSticks`;  `Privacy`: `[]MemberReadsOwn`;  `ApiTypes`: `[]ApiTypeOK`.

The invariant is `ApiInv`: a busy handler (`Serving(p)`) holds a request that
passed every check and the store call made of it, with an identity that is one of
`tokens` where one is needed, and every token is for a stored account with its
stored role. It is inductive beside `IInv` and `Promised`, because the role of a
token comes from the answer of `GetCredential`, and stays true because no row is
updated. `AckedOnceAndForAll` needs more: between the commit and the answer nobody
else may be told 201 for the ref. `AckInv` says it of every handler that holds such
an answer (`Fresh`). `MemberReadsOwn` speaks of the database at the moment of the
answer, while a listing was read before: `ReadInv` says of every handler that holds
one (`Listed`) that its refs are still those of transactions of the account that was
asked for. Assumptions: `ApiAssumption`, and `RequestAssumption`: the
store's interface contains the calls that valid requests lead to.

`BatchProofs` proves, for every file, every number of uploads and every other
traffic, `BatchRefinement`: `BatchSpec => BatchUsesStore`, and from it, with the
theorems above, `BatchIsSafe`: `[](RefCountedOnce /\ NoOverdraft)` beside
running, interrupted and repeated uploads. That a step of the batch is a step of
the store is not obvious at `AuditRow`: its call is built from `arg[p]`, and it is
one of the store's calls only because `arg[p]` was built from a record of the
file. `BatchInv` carries that (`JobSound`), and that an idle handler has no call
left, so that a new upload does not inherit one; `WorkKeeps` shows that no
statement of the store disturbs either. `BatchInv` is inductive beside `IInv`,
which supplies the types of what `Progress` notes. Assumption: `BatchAssumption`
(the store's interface contains what the files lead to).

`UploadProofs` proves of `BatchSpec`, with power losses:

- `AuditIsEarned`: `[]AuditFollowsMoney`;  `ResendUntilClean`:
  `[]CleanMeansApplied`;
- `SummaryIsTrue`: `Readable => (BatchSpec => []SummaryTruthful)`;
  `UploadTypes`: the same of `BatchTypeOK`.

A handler that created a transaction has a claim to audit it, from the commit to
the audit insert or its failure. `AuditInv`: a claim is backed by the transaction,
no two handlers claim one ref, and a claimed ref is not audited as accepted yet.
`FileInv`: while no row was rejected, every row that was read is `Settled`, except
the one that is being resolved. An accepted row is in the ledger because its
transaction was created for it (`FreshRow`); a duplicate has its ref there, and if
every request that names the ref means this row (`OneMeaning`), the row under it is
this one, because all rows of the ledger come from requests (`Accountability`). The
counters only grow, so that a summary without duplicates at the end had none before. `CountInv`: every row that was read is
counted once, except that one, and `accepted` is the number of rows this upload
committed. `Readable` says that a file has at most `MaxRows` records and stays
readable. It is needed because the counters of the model saturate at `MaxRows` and
because an unreadable file is read for ever (section 5); nothing else is assumed,
and the two theorems above do not need it. `MaxRows` is any number, so every
readable file is covered by some instance.

`TokensProofs` proves, for every length of a second, TTL (negative ones too),
secret and history of restarts, `Lifetime`: `[]LifeWithinASecond`, and
`Admission`: `[]AdmittedFresh`. The invariant is
`TokenInv == TokenTypeOK /\ Minted /\ AdmittedFresh`; `Minted` says that `exp` is
the rounded expiry of every token ever issued, from which `RoundingDown` gives
both bounds; `ToldAtMost` relates them to `expires_in`. Assumption: `TokensAssumption`.

`MigrationsProofs` proves of `MigrationSpec`, for every chain of releases, every
stop and power loss, and any accounts and transactions that clients store:

- `NeverHalfMigrated`: `[]SchemaMatchesVersion`;  `RowsSurvive`:
  `[]DataSurvives`;  `ServedLedger`: `[]ServesALedger`.

`MigInv` has three parts. `LogInv`: every committed database is `Committed`: it
has the schema of its version, `Sound` rows (they have exactly the table's columns,
refs, ids and account ids are unique, ids count the rows, transactions have
accounts) and, from version 4, the demo accounts; and it carries every row of the
databases before it. `ProcInv`: what is not committed exists only in a running
migration, and what is served is migrated. `Underway`: the database the open
transaction sees after `k` statements has the schema `Stage` gives for that
statement, sound rows, and the rows of the committed database, in
`transactions_new` while `transactions` is gone. There is a lemma for each kind of
statement on a table (`CreateReplaces`, `AddReplaces`, `RowsReplace`, ...), one for
each migration (`MigrationS1`, `S4`, `S6`, `S8`), and `Finished` for the commit;
`CopiedTxns` is the heart of S8: the copy is a bijection, so that the ids still
count the rows and the next insert gets a new one. `SeededAccounts` uses that a
refused seed is not executed. Assumptions: `LedgerAssumption` and
`MigrationsAssumption`.

Only model-checked are `CallReturns`, `UploadEnds` and `ComesUpUnlessTaken`:
liveness under fairness is out of the prover's reach. All other properties of the
passing runs are theorems.

## 5. Where the code and its documents disagree

Each of these has a run whose counterexample shows it:

- `api_wires`: a ref is unique over all accounts, and a replay answers with the
  stored row of whatever account: a member who picks a ref of somebody else gets
  200 with that other transaction, against INV-6, and its own points do not move.
- `api_redeem`: replaying the ref of an earn through `redeem` answers 200 with
  kind "redeem" though no redemption exists, against INV-28.
- `batch_unreadable`: the loop ends only at EOF; when the uploaded file cannot be
  read any more, the same record is rejected and audited for ever, where the
  comment promises a 400.
- `migrations_seed`: the S6 migration seeds `member-123` with a plain INSERT. A
  database of an earlier release in which a client created that account, the
  example of the slice's own document, can never be migrated.

These were met while translating the code. The models behave as the code does,
and no run is kept for them, because they are intended, known or without effect
on any state:

- two earns within the contract's maximum overflow `SUM` (`Overflows`); the
  account's balance and the list of all accounts answer 500 from then on.
  SOLUTION.md knows the edge; `OverflowFreezes` says what still holds;
- any failure of the store in a login is answered 401, against the comment of
  `ErrInvalidCredentials`, and the handler's 500 is unreachable (`LoginStatus`);
- "Auth runs first" does not hold: the generated wrappers put the validator
  outside (`Middlewares`), so an invalid request without a token is answered 400;
- the error of an audit insert is dropped, so that a counted row may have no audit
  entry, against INV-11 and INV-23; a comment in the code accepts it. What is left
  is `AuditFollowsMoney` (no entry without its money), and that the summary is true
  all the same (`SummaryTruthful`);
- a row of a file whose ref stands for another transaction is counted as a
  duplicate and not applied, as a single request with that ref is answered with the
  other transaction: "rows whose ref was already seen" (openapi.yaml), and
  PROMPT_LOG.md decides against comparing payloads. A clean answer therefore does
  not mean that the ledger has every row of the file, only what `Settled` says;
- a failing database is counted as a rejected row of a 200 (`classifyOutcome`),
  though rejections are said to be bad rows, unknown accounts or a short balance;
- `exp` drops the fraction of a second that `expires_in` counts, so that a token is
  refused up to a second early: the bound in `LifeWithinASecond` is tight;
- a TTL that is zero or negative boots, and every token is refused (`loadConfig`):
  `AdmittedFresh` holds for such TTLs too, so it locks people out and lets nobody in.

## 6. Not modelled, and the plan

Not modelled, and why:

- the strict server and the `Unimplemented` stubs of the generated file: dead
  code, `NewRouter` mounts the plain interface;
- the Down migrations: nothing in the program runs them;
- texts: names, audit reasons, error bodies, timestamps, headers, the contents of
  the two static routes; the address and the paths of the configuration. Nothing
  is decided by them;
- the internals of goose, golang-jwt, kin-openapi, database/sql, encoding/csv and
  SQLite: external, as described in section 2;
- a clock that goes back: `exp` is then too late by as much, and nothing in the
  code defends against it.

The plan, Ledger, Points, Store, Api, Batch, Tokens and Migrations with their runs
and the theorems of section 4, is done. When the code changes: a new kind of
transaction touches `Kinds`, `SignedPoints` and the second formula in
`ListAccountsWithBalance` together (`ReadsAgree` fails otherwise); a second
connection in the pool invalidates `ConnFree`, and with it `TxSound` and all that
rests on it; a statement that updates or deletes rows invalidates `Kept`.
