SPECIFICATION Spec
CONSTANTS
    x = x  y = y  o1 = o1  f = f  t1 = t1  t2 = t2
    ClientNames <- TwoClients
    Verifiers = {1, 2}
    Owners <- OneOwner
    Files <- OneFile
    Bits <- WriteOnly
    MAX = 3
    Ranges <- OneRange
    Threads = {t1}
    MaxClient = 3
    MaxState = 2
INVARIANTS LocksHaveLease
