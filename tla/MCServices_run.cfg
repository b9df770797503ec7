SPECIFICATION ReadingSpec
CONSTANTS
    t1 = t1  t2 = t2  c1 = c1  c2 = c2  s1 = s1  s2 = s2
    Loads <- MCLoads
    Io = {t1, t2}
    Conns = {c1, c2}
    Sess = {s1, s2}
    Procs = {"PUTFH", "OPEN"}
    MaxOps = 2
    MaxStimuli = 4
INVARIANTS StoreGuarded HandleIsOwn CutsNoServedConnection ExitLeavesNoThread
PROPERTIES ShutdownCompletes 
