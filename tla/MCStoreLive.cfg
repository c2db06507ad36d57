\* Every call returns, and does what the abstract wallet allows.
CONSTANTS
    r1 = r1
    r2 = r2
    r3 = r3
    gift = gift
    guest = guest
    Refs = {r1, r2, r3}
    Rewards = {gift}
    NoReward = NoReward
    NoHash = NoHash
    AnyAccount = AnyAccount
    NoRef = NoRef
    DemoMember = member
    DemoAdmin = admin
    AccountIds = {member, admin, guest}
    DemoMemberPw = pw1
    DemoAdminPw = pw2
    Secrets = {pw1, pw2}
    MaxInt64 = 2
    Procs = {p1, p2}
    Calls <- LiveCalls
    MaxAudit = 1
SPECIFICATION FairSpec
PROPERTIES
    CallReturns
    ImplementsPoints
