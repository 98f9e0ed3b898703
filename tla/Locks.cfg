SPECIFICATION LocksSpec
CONSTANTS
    t1 = t1
    t2 = t2
    t3 = t3
    t4 = t4
    l1 = l1
    Client = {1, 2}
    Thread = {t1, t2, t3, t4}
    Home <- ThreeAndOne
    Late = {}
    Worker = {w1, w2, w3}
    Capacity = 3
    Pill = pill
    Nonce = {1, 2, 3}
INVARIANTS
    MutualExclusion
    InChargeOfOne
    NoLostWakeup
    OneHolder
PROPERTIES
    AcquireReturns
    NoStuckAcquire
    RevokeObeyed
    LockMoves
