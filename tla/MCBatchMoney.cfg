\* Uploads that race, fail and are sent again.
CONSTANTS
    r1 = r1
    r2 = r2
    guest = guest
    NoReward = NoReward
    NoHash = NoHash
    AnyAccount = AnyAccount
    NoRef = NoRef
    DemoMember = member
    DemoAdmin = admin
    AccountIds = {member, admin, guest}
    DemoMemberPw = pw1
    DemoAdminPw = pw2
    Secrets = {pw1, pw2}
    Refs = {r1, r2}
    Rewards = {}
    MaxInt64 = 3
    MaxAudit = 2
    MaxRows = 3
    Procs = {p1, p2}
    Uploads <- MoneyUploads
    Traffic <- MoneyTraffic
    Calls <- MoneyCalls
SPECIFICATION BatchSpec
INVARIANTS
    SummaryTruthful
    AuditFollowsMoney
    CleanMeansApplied
SYMMETRY Symmetry
