------------------------------- MODULE Ledger -------------------------------
(***************************************************************************)
(* The rows of gowallet's SQLite database and the queries that read them   *)
(* (internal/sqlitestore/queries/queries.sql).                             *)
(*                                                                         *)
(* Every writing statement of the program inserts exactly one row, and     *)
(* nothing is ever updated or deleted.  A database is therefore the        *)
(* sequence of its rows in commit order, the order in which the write-     *)
(* ahead log holds them; a table is the subsequence of the rows that name  *)
(* it, and the AUTOINCREMENT id of a row is its place in that subsequence. *)
(* Names and timestamps are carried by the code but never examined: they   *)
(* are left out.                                                           *)
(***************************************************************************)
EXTENDS Integers, SequencesExt

CONSTANTS
    AccountIds,     \* account identifiers a request may name
    Refs,           \* client-supplied transaction references
    Rewards,        \* non-empty reward texts
    Secrets,        \* non-empty login secrets
    NoReward,       \* the empty reward, stored as NULL
    NoHash,         \* the NULL password_hash
    AnyAccount,     \* the empty account_id: no filter in ListAudit
    NoRef,          \* the empty ref
    MaxInt64,       \* largest value of an SQLite INTEGER / Go int64
    DemoMember, DemoAdmin,          \* the accounts the migrations seed
    DemoMemberPw, DemoAdminPw       \* and their secrets

ASSUME LedgerAssumption ==
    /\ MaxInt64 \in Nat \ {0}
    /\ DemoMember \in AccountIds /\ DemoAdmin \in AccountIds
    /\ DemoMember # DemoAdmin
    /\ DemoMemberPw \in Secrets /\ DemoAdminPw \in Secrets
    /\ NoReward \notin Rewards
    /\ AnyAccount \notin AccountIds
    /\ NoRef \notin Refs

Int64 == (-MaxInt64 - 1) .. MaxInt64
Points == 1 .. MaxInt64

Kinds == {"earn", "spend", "redeem"}
Roles == {"member", "admin"}

(***************************************************************************)
(* bcrypt, seen from the code: a hash that only its own secret matches.    *)
(***************************************************************************)
Bcrypt(secret) == [bcrypt |-> secret]
Matches(hash, secret) == hash = Bcrypt(secret)
Hashes == {Bcrypt(s) : s \in Secrets} \cup {NoHash}

Transaction ==
    [table : {"transactions"}, ref : Refs, account : AccountIds,
     kind : Kinds, points : Points, reward : Rewards \cup {NoReward}]

Account ==
    [table : {"accounts"}, account : AccountIds, hash : Hashes, role : Roles]

Outcomes == {"accepted", "rejected", "duplicate"}

(***************************************************************************)
(* audit_log has no foreign key and no CHECK on kind or points: it records *)
(* an attempt as it was made, with whatever text, even none, stood in it.  *)
(***************************************************************************)
AttemptedKinds == Kinds \cup {"", "other"}

AuditEntry ==
    [table : {"audit_log"}, ref : Refs \cup {NoRef},
     account : AccountIds \cup {AnyAccount}, kind : AttemptedKinds,
     points : Int, outcome : Outcomes]

Row == Transaction \cup Account \cup AuditEntry

IsTxn(r) == r.table = "transactions"
IsAccount(r) == r.table = "accounts"
IsAudit(r) == r.table = "audit_log"

(***************************************************************************)
(* What the migrations leave in a new database: the two demo accounts.     *)
(***************************************************************************)
Migrated ==
    << [table |-> "accounts", account |-> DemoMember,
        hash |-> Bcrypt(DemoMemberPw), role |-> "member"],
       [table |-> "accounts", account |-> DemoAdmin,
        hash |-> Bcrypt(DemoAdminPw), role |-> "admin"] >>

-----------------------------------------------------------------------------
(***************************************************************************)
(* Queries.                                                                *)
(***************************************************************************)
AccountExists(d, a) ==
    \E i \in 1 .. Len(d) : IsAccount(d[i]) /\ d[i].account = a

\* Mutant: the table rebuild of migration S8 forgets UNIQUE(ref).
RefExistsNotUnique(d, ref) == FALSE
RefExists(d, ref) ==
    \E i \in 1 .. Len(d) : IsTxn(d[i]) /\ d[i].ref = ref

GetAccount(d, a) ==
    d[CHOOSE i \in 1 .. Len(d) : IsAccount(d[i]) /\ d[i].account = a]

GetTransactionByRef(d, ref) ==
    d[CHOOSE i \in 1 .. Len(d) : IsTxn(d[i]) /\ d[i].ref = ref]

\* Mutant: the formula from before redeem existed.
SignedPointsNoRedeem(r, a) ==
    IF IsTxn(r) /\ r.account = a
    THEN CASE r.kind = "earn" -> r.points
           [] r.kind = "spend" -> -r.points
           [] OTHER -> 0
    ELSE 0

\* The CASE of BalanceForAccount: what a row adds to the balance of a.
SignedPoints(r, a) ==
    IF IsTxn(r) /\ r.account = a
    THEN CASE r.kind = "earn" -> r.points
           [] r.kind \in {"spend", "redeem"} -> -r.points
           [] OTHER -> 0
    ELSE 0

\* SUM adds in row order; PartialSums(v)[i] is its value after i rows.
PartialSums(v) ==
    LET s[i \in 0 .. Len(v)] == IF i = 0 THEN 0 ELSE s[i - 1] + v[i]
    IN  s

Total(v) == PartialSums(v)[Len(v)]

RunningSum(d, a) == PartialSums([i \in 1 .. Len(d) |-> SignedPoints(d[i], a)])

Balance(d, a) == RunningSum(d, a)[Len(d)]

\* SUM fails with "integer overflow" as soon as one partial sum leaves int64.
Overflows(d, a) ==
    \E i \in 0 .. Len(d) : RunningSum(d, a)[i] \notin Int64

AccountsIn(d) == {d[i].account : i \in {j \in 1 .. Len(d) : IsAccount(d[j])}}

\* Mutant: the WHERE account_id = ? is lost.
TransactionsOfAnyone(d, a) == SelectSeq(d, IsTxn)
TransactionsOf(d, a) ==
    LET rows[i \in 0 .. Len(d)] ==
            IF i = 0 THEN <<>>
            ELSE IF IsTxn(d[i]) /\ d[i].account = a THEN Append(rows[i - 1], d[i])
            ELSE rows[i - 1]
    IN  rows[Len(d)]

\* Mutant: redeem added to one of the two copies of the formula only.
ListAccountsNoRedeem(d) ==
    LET Signed(t) == CASE t.kind = "earn" -> t.points
                       [] t.kind = "spend" -> -t.points
                       [] OTHER -> 0
        Column(rows) == [i \in 1 .. Len(rows) |-> Signed(rows[i])]
    IN  [a \in AccountsIn(d) |->
            [role |-> GetAccount(d, a).role,
             balance |-> Total(Column(TransactionsOf(d, a)))]]

\* The correlated subquery repeats the CASE of BalanceForAccount in its own
\* words; so does this definition.
ListAccountsWithBalance(d) ==
    LET Signed(t) == CASE t.kind = "earn" -> t.points
                       [] t.kind \in {"spend", "redeem"} -> -t.points
                       [] OTHER -> 0
        Column(rows) == [i \in 1 .. Len(rows) |-> Signed(rows[i])]
    IN  [a \in AccountsIn(d) |->
            [role |-> GetAccount(d, a).role,
             balance |-> Total(Column(TransactionsOf(d, a)))]]

\* Newest first; the listing carries neither the reward nor the account.
ListTransactionsByAccount(d, a) ==
    LET Entry(t) == [ref |-> t.ref, kind |-> t.kind, points |-> t.points]
        rows == TransactionsOf(d, a)
    IN  Reverse([i \in 1 .. Len(rows) |-> Entry(rows[i])])

ListAuditLog(d) == Reverse(SelectSeq(d, IsAudit))

ListAuditLogByAccount(d, a) ==
    SelectSeq(ListAuditLog(d), LAMBDA r : r.account = a)

=============================================================================
