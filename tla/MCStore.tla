------------------------------- MODULE MCStore -------------------------------
(***************************************************************************)
(* The calls the small instances of Store make: two earns that overflow    *)
(* the account together, deductions that compete for its points, refs that *)
(* collide within an account and across accounts, and an account that      *)
(* exists only once it is created.                                         *)
(***************************************************************************)
EXTENDS Store, TLC

CONSTANTS r1, r2, r3, gift, guest

Txn(ref, a, kind, n) ==
    [op |-> "RecordTransaction",
     row |-> [table |-> "transactions", ref |-> ref, account |-> a, kind |-> kind,
              points |-> n, reward |-> IF kind = "redeem" THEN gift ELSE NoReward]]

On(op, a) == [op |-> op, account |-> a]

CreateGuest == [op |-> "CreateAccount", account |-> guest, hash |-> NoHash]

Audit(ref, a, outcome) ==
    [op |-> "AppendAudit",
     row |-> [table |-> "audit_log", ref |-> ref, account |-> a, kind |-> "earn",
              points |-> 1, outcome |-> outcome]]

\* Writers that compete, and reads beside them.
MoneyCalls ==
    {Txn(r1, DemoMember, "earn", 2), Txn(r2, DemoMember, "spend", 2),
     Txn(r2, DemoMember, "earn", 2), Txn(r3, DemoMember, "redeem", 1),
     Txn(r1, guest, "earn", 1), CreateGuest, On("GetAccount", guest),
     On("Balance", DemoMember), On("ListTransactions", guest),
     On("ListAudit", AnyAccount), [op |-> "ListAccounts"], [op |-> "Ping"]}

\* Few enough for the temporal run, and still every reason to wait: a reader
\* of two statements, transactions that are refused and that are rolled back.
LiveCalls ==
    {Txn(r1, DemoMember, "earn", 2), Txn(r2, DemoMember, "redeem", 1),
     CreateGuest, On("Balance", DemoMember), Audit(r1, guest, "accepted")}

Symmetry == Permutations(Procs)

=============================================================================
