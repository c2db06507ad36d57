-------------------------------- MODULE MCApi --------------------------------
(***************************************************************************)
(* The requests the small instances of Api send.                           *)
(***************************************************************************)
EXTENDS Api, TLC

CONSTANTS r1, r2, gift, guest, longSecret

Login(a, s) == [op |-> "login", account |-> a, secret |-> s]

Txn(ref, a, kind, n) ==
    [op |-> "createTransaction", ref |-> ref, account |-> a, kind |-> kind,
     points |-> n]

Redeem(ref, a, n, reward) ==
    [op |-> "redeemPoints", ref |-> ref, account |-> a, points |-> n,
     reward |-> reward]

On(op, a) == [op |-> op, account |-> a]

Create(a, s) == [op |-> "createAccount", account |-> a, secret |-> s]

\* An account that two requests create with different secrets and that logs in
\* with one of them; its earn and redemption are retried, an admin's earn has the
\* ref of the redemption, and it reads.
MoneyRequests ==
    {Login(DemoAdmin, DemoAdminPw), Login(guest, DemoAdminPw),
     Create(guest, DemoMemberPw), Create(guest, DemoAdminPw),
     Txn(r1, guest, "earn", 2), Redeem(r2, guest, 1, gift),
     Txn(r2, DemoAdmin, "earn", 1), On("listTransactions", guest)}

Other(method, path) == [op |-> "other", method |-> method, path |-> path]

\* What only an admin may ask, what needs no token, what is invalid or cannot be
\* decoded, and what the contract does not know.
AdminRequests ==
    {Login(DemoAdmin, DemoAdminPw), Login(DemoMember, DemoMemberPw),
     Login(guest, DemoAdminPw),
     [op |-> "listAccounts"], [op |-> "getHealth"], On("listAudit", AnyAccount),
     On("listAudit", Malformed), On("getAccount", guest),
     On("getBalance", DemoMember), On("getBalance", Malformed),
     Create(guest, NoSecret), Create(guest, longSecret),
     Txn(r1, guest, "spend", 0), Txn(r1, guest, "spend", 1),
     Other("GET", "/swagger"), Other("DELETE", "/accounts"), Other("GET", "/batch"),
     Other("GET", "/nowhere")}

\* The same ref used for two accounts, and for an earn and a redemption.
SharedRefRequests ==
    {Login(DemoMember, DemoMemberPw), Create(guest, DemoAdminPw),
     Login(guest, DemoAdminPw), Txn(r1, DemoMember, "earn", 2),
     Txn(r1, guest, "earn", 1), Redeem(r1, DemoMember, 1, gift)}

CallsOf(requests) ==
    ({StoreCall(r) : r \in {x \in requests : x.op # "other"}} \cap CallSet)
        \cup {[op |-> "GetAccount", account |-> guest]}

MoneyCalls == CallsOf(MoneyRequests)
AdminCalls == CallsOf(AdminRequests)
SharedRefCalls == CallsOf(SharedRefRequests)

Symmetry == Permutations(Procs)

=============================================================================
