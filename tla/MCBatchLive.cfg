\* Every upload comes to an end, whatever its records are.
CONSTANTS
    r1 = r1
    r2 = r2
    guest = guest
    NoReward = NoReward
    NoHash = NoHash
    AnyAccount = AnyAccount
    NoRef = NoRef
    DemoMember = member
    DemoAdmin = admin
    AccountIds = {member, admin, guest}
    DemoMemberPw = pw1
    DemoAdminPw = pw2
    Secrets = {pw1, pw2}
    Refs = {r1, r2}
    Rewards = {}
    MaxInt64 = 3
    MaxAudit = 1
    MaxRows = 3
    Procs = {p1, p2}
    Uploads <- BadUploads
    Traffic <- BadTraffic
    Calls <- BadCalls
SPECIFICATION BatchFairSpec
INVARIANTS
    BatchTypeOK
PROPERTIES
    BatchUsesStore
    UploadEnds
