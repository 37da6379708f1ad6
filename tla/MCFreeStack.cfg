CONSTANTS
    Threads = {t1}
    Capacities = {4, 2}
    Garbage = Garbage
SPECIFICATION Spec
INVARIANTS AllSlots
PROPERTIES RefinesIndexStack
