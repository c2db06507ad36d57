\* Upgrades, crashes and power losses at every statement.
CONSTANTS
    r1 = r1
    r2 = r2
    gift = gift
    guest = guest
    Rewards = {gift}
    NoReward = NoReward
    NoHash = NoHash
    AnyAccount = AnyAccount
    NoRef = NoRef
    DemoMember = member
    DemoAdmin = admin
    AccountIds = {member, admin, guest}
    DemoMemberPw = pw1
    DemoAdminPw = pw2
    Secrets = {pw1, pw2}
    Refs = {r1, r2}
    MaxInt64 = 3
    OldAccounts = {guest, member}
    MaxIds = 2
SPECIFICATION MigrationFairSpec
INVARIANTS
    SchemaMatchesVersion
    DataSurvives
    ServesALedger
PROPERTIES
    ComesUpUnlessTaken
