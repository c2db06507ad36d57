------------------------------- MODULE MCBatch -------------------------------
(***************************************************************************)
(* The files that the small instances of Batch upload.                     *)
(***************************************************************************)
EXTENDS Batch, TLC

CONSTANTS r1, r2, guest

Row5(ref, a, kind, n) ==
    [read |-> "fields", fields |-> 5, ref |-> ref, account |-> a, kind |-> kind,
     points |-> n, time |-> TRUE]

Empty(read, fields) ==
    [read |-> read, fields |-> fields, ref |-> NoRef, account |-> AnyAccount,
     kind |-> "", points |-> 0, time |-> FALSE]

File(records) == [by |-> "admin", part |-> TRUE, header |-> TRUE, records |-> records]

Single(ref, a, kind, n) == Recording([ref |-> ref, account |-> a, points |-> n],
                                     kind, NoReward)

\* An earn and a spend that needs it, raced by the same refs from elsewhere.
MoneyUploads ==
    {File(<<Row5(r1, DemoMember, "earn", 2), Row5(r2, DemoMember, "spend", 1)>>)}
MoneyTraffic == {Single(r2, DemoMember, "earn", 1)}

\* Every way for a record to be rejected, and uploads that are refused.
BadUploads ==
    {File(<<Empty("broken", 0), Row5(r1, guest, "earn", 1)>>),
     File(<<[Row5(r1, DemoMember, "earn", 1) EXCEPT !.fields = 6],
            Row5(NoRef, DemoMember, "earn", 1)>>),
     File(<<>>), [File(<<Row5(r2, DemoMember, "earn", 1)>>) EXCEPT !.by = "member"]}
BadTraffic == {[op |-> "CreateAccount", account |-> guest, hash |-> NoHash]}

NoTraffic == {}

UnreadableUploads ==
    {File(<<Row5(r1, DemoMember, "earn", 1), Empty("unreadable", 0)>>)}

CallsOf(uploads, traffic) == traffic \cup UNION {BatchCalls(u) : u \in uploads}

MoneyCalls == CallsOf(MoneyUploads, MoneyTraffic)
BadCalls == CallsOf(BadUploads, BadTraffic)
UnreadableCalls == CallsOf(UnreadableUploads, NoTraffic)

Symmetry == Permutations(Procs)

=============================================================================
