SPECIFICATION Spec
CONSTANTS
    t1 = t1
    t2 = t2
    t3 = t3
    t4 = t4
    l1 = l1
    Client = {1, 2, 3}
    Thread = {t1, t2, t3}
    Home <- OneThreadEach
    Late = {l1}
INVARIANTS
    HolderAgreement
    ServerShape
    CallsExpected
PROPERTIES
    ImplementsCachedLock
