\* Sessions across credential changes, and the windows of the throttle.
CONSTANTS
    a1 = a1
    a2 = a2
    t1 = t1
    t2 = t2
    Accounts = {a1, a2}
    Tokens = {t1, t2}
    Roles = {"administrator", "examiner"}
    Administrator = "administrator"
    NoUser = NoUser
    NoSession = NoSession
    Shared = Shared
    Window = 3
    AccountLimit = 2
    GlobalLimit = 3
    Lifetime = 2
    Idle = 1
    MaxLag = 1
    MaxTime = 3
    MaxEpoch = 2
    MaxRejections = 4
SPECIFICATION SubjectSpec
INVARIANTS TypeOK AdminAvailable SessionsFollowCredential GuessBudget RetryHintHonest
PROPERTIES SessionsNeverRevive ChangesAudited
SYMMETRY Interchangeable
VIEW WithoutAudit
