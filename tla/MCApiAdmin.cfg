\* The handlers use the store as it may be used.
CONSTANTS
    r1 = r1
    r2 = r2
    gift = gift
    guest = guest
    Rewards = {gift}
    NoReward = NoReward
    NoHash = NoHash
    AnyAccount = AnyAccount
    NoRef = NoRef
    DemoMember = member
    DemoAdmin = admin
    AccountIds = {member, admin, guest}
    DemoMemberPw = pw1
    DemoAdminPw = pw2
    Secrets = {pw1, pw2}
    Refs = {r1, r2}
    MaxInt64 = 3
    MaxAudit = 0
    NoToken = NoToken
    NoSecret = NoSecret
    longSecret = longSecret
    Malformed = Malformed
    Procs = {p1, p2}
    Requests <- AdminRequests
    Calls <- AdminCalls
SPECIFICATION ApiSpec
INVARIANTS
    ApiTypeOK
PROPERTIES
    ImplementsStore
SYMMETRY Symmetry
