\* Safety of the store on a machine that crashes and loses power.
CONSTANTS
    r1 = r1
    r2 = r2
    r3 = r3
    gift = gift
    guest = guest
    Refs = {r1, r2, r3}
    Rewards = {gift}
    NoReward = NoReward
    NoHash = NoHash
    AnyAccount = AnyAccount
    NoRef = NoRef
    DemoMember = member
    DemoAdmin = admin
    AccountIds = {member, admin, guest}
    DemoMemberPw = pw1
    DemoAdminPw = pw2
    Secrets = {pw1, pw2}
    MaxInt64 = 3
    Procs = {p1, p2}
    Calls <- MoneyCalls
    MaxAudit = 0
SPECIFICATION PowerSpec
INVARIANTS
    TypeOK
    NeverBusy
    RefCountedOnce
    NoOverdraft
    KeysHold
    TxSound
    AnswerIsStored
    ReadsAgree
    ReadsOneState
    OverflowFreezes
PROPERTIES
    RefusalJustified
SYMMETRY Symmetry
