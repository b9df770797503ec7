SPECIFICATION Spec
CONSTANTS
    t1 = t1  t2 = t2  c1 = c1  c2 = c2  s1 = s1  s2 = s2
    Loads <- MCLoads
    Io = {t1}
    Conns = {c1}
    Sess = {s1}
    Procs = {"PUTFH"}
    MaxOps = 2
    MaxStimuli = 4
PROPERTY ShutdownCompletes
CHECK_DEADLOCK FALSE
