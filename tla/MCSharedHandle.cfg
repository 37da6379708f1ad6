CONSTANTS
    Threads = {t1, t2}
    Capacities = {2}
    Garbage = Garbage
SPECIFICATION Spec
PROPERTIES GivenOnce
